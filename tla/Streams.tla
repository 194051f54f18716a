------------------------------ MODULE Streams ------------------------------
(***************************************************************************)
(* What ports promise: each is a stream of characters from or to a file of  *)
(* its own, whatever other ports are opened and closed.  How much of what   *)
(* was written would outlive a crash is durable, which grows by itself, and *)
(* must be everything once the port has displayed something or is closed,   *)
(* or the process exits.                                                   *)
(*                                                                         *)
(* The program is a careful one: it does not use a port that it has closed, *)
(* and opens no file while a port that writes to it is not closed, or to    *)
(* write while any port on it is not.                                      *)
(***************************************************************************)
EXTENDS Integers, Sequences, SequencesExt

CONSTANTS
  Port, Path, Char,
  terminal, console,   (* the path and the port of the standard output      *)
  Existing,            (* what the files hold at the beginning              *)
  NULL, closed, eof

VARIABLES
  file,      (* what has been written to each file, NULL if there is none   *)
  durable,   (* how many characters of it are safe                          *)
  port,      (* NULL before it is opened, closed afterwards                 *)
  result,    (* the character that the program has just read                *)
  ended      (* how the process has ended                                   *)

vars == <<file, durable, port, result, ended>>

Stream(path, mode) == [path |-> path, mode |-> mode, pos |-> 0, kept |-> TRUE]
Open == {p \in Port : port[p] \notin {NULL, closed}}
Usable == {p \in Open : port[p].kept}
Writing(path) == \E p \in Open : port[p].path = path /\ port[p].mode = "w"
Busy(path) == \E p \in Open : port[p].path = path

Init ==
  /\ file = [Existing EXCEPT ![terminal] = << >>]
  /\ durable = [p \in Path |-> IF file[p] = NULL THEN 0 ELSE Len(file[p])]
  /\ port = [p \in Port |-> IF p = console THEN Stream(terminal, "w") ELSE NULL]
  /\ result = NULL /\ ended = "no"

Unread == result' = NULL

OpenInput(p, path) ==
  /\ port[p] = NULL /\ ~ Writing(path) /\ file[path] # NULL
  /\ port' = [port EXCEPT ![p] = Stream(path, "r")]
  /\ Unread /\ UNCHANGED <<file, durable, ended>>
OpenOutput(p, path) ==
  /\ port[p] = NULL /\ ~ Busy(path)
  /\ port' = [port EXCEPT ![p] = Stream(path, "w")]
  /\ file' = [file EXCEPT ![path] = << >>] /\ durable' = [durable EXCEPT ![path] = 0]
  /\ Unread /\ UNCHANGED ended
WriteChar(p, c) ==
  /\ p \in Usable
  /\ LET path == port[p].path IN
       IF port[p].mode = "w"
         THEN /\ file' = [file EXCEPT ![path] = Append(@, c)]
              /\ \E n \in durable[path] .. Len(file'[path]) :
                   durable' = [durable EXCEPT ![path] = n]
         ELSE UNCHANGED <<file, durable>>
  /\ Unread /\ UNCHANGED <<port, ended>>
Display(p, s) ==
  /\ p \in Usable
  /\ IF port[p].mode = "w"
       THEN /\ file' = [file EXCEPT ![port[p].path] = @ \o s]
            /\ durable' = [durable EXCEPT ![port[p].path] = Len(file'[port[p].path])]
       ELSE UNCHANGED <<file, durable>>
  /\ Unread /\ UNCHANGED <<port, ended>>
ReadChar(p) ==
  /\ p \in Usable
  /\ LET next == port[p].pos + 1 IN
       IF port[p].mode = "r" /\ next <= Len(file[port[p].path])
         THEN /\ result' = file[port[p].path][next]
              /\ port' = [port EXCEPT ![p].pos = next]
         ELSE result' = eof /\ UNCHANGED port
  /\ UNCHANGED <<file, durable, ended>>
Close(p) ==
  /\ p \in Usable \ {console}
  /\ IF port[p].mode = "w"
       THEN durable' = [durable EXCEPT ![port[p].path] = Len(file[port[p].path])]
       ELSE UNCHANGED durable
  /\ port' = [port EXCEPT ![p] = closed]
  /\ Unread /\ UNCHANGED <<file, ended>>
(* The program has no pointer to the port any more.                         *)
Forget(p) ==
  /\ p \in Usable \ {console}
  /\ port' = [port EXCEPT ![p].kept = FALSE]
  /\ Unread /\ UNCHANGED <<file, durable, ended>>

Exit ==
  /\ durable' = [p \in Path |-> IF file[p] = NULL THEN 0 ELSE Len(file[p])]
  /\ ended' = "exited"
  /\ Unread /\ UNCHANGED <<file, port>>
Crash ==
  /\ file' = [p \in Path |-> IF file[p] = NULL THEN NULL ELSE SubSeq(file[p], 1, durable[p])]
  /\ ended' = "crashed"
  /\ Unread /\ UNCHANGED <<durable, port>>

Next ==
  ended = "no" /\
    \/ \E p \in Port, path \in Path \ {terminal} : OpenInput(p, path) \/ OpenOutput(p, path)
    \/ \E p \in Port : \/ \E c \in Char : WriteChar(p, c) \/ Display(p, <<c, c>>)
                       \/ ReadChar(p) \/ Close(p) \/ Forget(p)
    \/ Exit \/ Crash

Spec == Init /\ [][Next]_vars
=============================================================================
