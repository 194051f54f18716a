------------------------------- MODULE Ports -------------------------------
(***************************************************************************)
(* Ports (object.c) and the procedures on them (procedures.c), over the     *)
(* streams of the C library: a port is a pointer to a FILE, which has a     *)
(* buffer, and whose place in memory is used again after fclose.  Nothing   *)
(* closes the FILE of a port that is collected.                             *)
(*                                                                         *)
(* The program is the careful one of Streams: to use a port after it was    *)
(* closed is undefined.  The disk does not fill up.                         *)
(***************************************************************************)
EXTENDS Integers, Sequences, SequencesExt

CONSTANTS
  Port, Path, Char, terminal, console, Existing, NULL, closed, eof,
  FilePointer,   (* the places for FILEs, as many as the library gives      *)
  stdout,        (* the one of the standard output                          *)
  BUFSIZ,
  MaxLength      (* bounds: the characters written to each file             *)

VARIABLES
  disk,          (* the contents of the files, NULL if there is none        *)
  FILE,          (* the open FILEs                                          *)
  port,          (* the ports: a FILE pointer, and what the program may do  *)
  result, ended

vars == <<disk, FILE, port, result, ended>>

File == [path : Path, mode : {"r", "w"}, buffer : Seq(Char), pos : Nat]
OpenPort == [value : FilePointer, state : {"open", "forgotten", "closed"}]
ASSUME NothingIsNull ==
  /\ NULL \notin Seq(Char) \union File \union OpenPort
  /\ {NULL, closed} \intersect [path : Path, mode : {"r", "w"}, pos : Nat, kept : BOOLEAN] = {}
  /\ NULL # closed
ASSUME StandardOutput ==
  /\ terminal \in Path /\ console \in Port /\ stdout \in FilePointer
  /\ Existing \in [Path -> Seq(Char) \union {NULL}]

(* fopen's part *)
NewFile(path, mode) == [path |-> path, mode |-> mode, buffer |-> << >>, pos |-> 0]
NewPort(f) == [value |-> f, state |-> "open"]
Free == {f \in FilePointer : FILE[f] = NULL}
Opened == {p \in Port : port[p] # NULL /\ port[p].state # "closed"}
Usable == {p \in Opened : port[p].state = "open"}
Stream(p) == FILE[port[p].value]

Init ==
  /\ disk = [Existing EXCEPT ![terminal] = << >>]
  /\ FILE = [f \in FilePointer |-> IF f = stdout THEN NewFile(terminal, "w") ELSE NULL]
  /\ port = [p \in Port |-> IF p = console THEN NewPort(stdout) ELSE NULL]
  /\ result = NULL /\ ended = "no"

Returns(v) == result' = v /\ UNCHANGED ended
Flushed(f) == [disk EXCEPT ![FILE[f].path] = @ \o FILE[f].buffer]

(* exit(1), here and after error: all streams are flushed.                  *)
exit ==
  /\ disk' = [p \in Path |->
                IF \E f \in FilePointer : FILE[f] # NULL /\ FILE[f].path = p /\ FILE[f].mode = "w"
                  THEN disk[p] \o (CHOOSE F \in {FILE[f] : f \in FilePointer \ Free} :
                                     F.path = p /\ F.mode = "w").buffer
                  ELSE disk[p]]
  /\ FILE' = [f \in FilePointer |-> IF FILE[f] = NULL THEN NULL ELSE [FILE[f] EXCEPT !.buffer = << >>]]
  /\ ended' = "exited" /\ result' = NULL
  /\ UNCHANGED port
(* The end of the input, or a list too long for the C stack, crashes it.    *)
crash ==
  /\ FILE' = [f \in FilePointer |-> IF FILE[f] = NULL THEN NULL ELSE [FILE[f] EXCEPT !.buffer = << >>]]
  /\ ended' = "crashed" /\ result' = NULL
  /\ UNCHANGED <<disk, port>>

fopen(p, path, mode) ==
  \E f \in Free :
    /\ FILE' = [FILE EXCEPT ![f] = NewFile(path, mode)]
    /\ port' = [port EXCEPT ![p] = NewPort(f)]
Writing(path) == \E p \in Opened : Stream(p).path = path /\ Stream(p).mode = "w"
Busy(path) == \E p \in Opened : Stream(p).path = path
open_input_file(p, path) ==
  /\ port[p] = NULL /\ ~ Writing(path)
  /\ IF disk[path] = NULL \/ Free = {} THEN exit
     ELSE fopen(p, path, "r") /\ Returns(NULL) /\ UNCHANGED disk
open_output_file(p, path) ==
  /\ port[p] = NULL /\ ~ Busy(path)
  /\ IF Free = {} THEN exit
     ELSE /\ fopen(p, path, "w")
          /\ disk' = [disk EXCEPT ![path] = << >>] /\ Returns(NULL)

(* fputc; a stream that is not for writing does not take the character.     *)
(* Mutant: a full buffer is not written out first. *)
write_char_Overwrites(p, c) ==
  /\ p \in Usable
  /\ LET f == port[p].value IN
       IF FILE[f].mode = "w"
         THEN FILE' = [FILE EXCEPT ![f].buffer = IF Len(@) = BUFSIZ THEN <<c>> ELSE Append(@, c)]
         ELSE UNCHANGED FILE
  /\ Returns(NULL) /\ UNCHANGED <<disk, port>>
write_char(p, c) ==
  /\ p \in Usable
  /\ LET f == port[p].value
         full == Len(FILE[f].buffer) = BUFSIZ
     IN  IF FILE[f].mode = "w"
           THEN /\ disk' = IF full THEN Flushed(f) ELSE disk
                /\ FILE' = [FILE EXCEPT ![f].buffer = IF full THEN <<c>> ELSE Append(@, c)]
           ELSE UNCHANGED <<disk, FILE>>
  /\ Returns(NULL) /\ UNCHANGED port
(* display and write, of something that is printed as s; then fflush.       *)
display(p, s) ==
  /\ p \in Usable
  /\ IF Stream(p).mode = "w"
       THEN /\ disk' = [Flushed(port[p].value) EXCEPT ![Stream(p).path] = @ \o s]
            /\ FILE' = [FILE EXCEPT ![port[p].value].buffer = << >>]
       ELSE UNCHANGED <<disk, FILE>>
  /\ Returns(NULL) /\ UNCHANGED port
(* fgetc, of the port or of stdout, which like every stream for writing     *)
(* gives no characters.                                                     *)
read_char(p) ==
  /\ p \in Usable
  /\ LET f == port[p].value
         text == IF FILE[f].mode = "r" THEN disk[FILE[f].path] ELSE << >>
         next == FILE[f].pos + 1
     IN  IF next <= Len(text)
           THEN FILE' = [FILE EXCEPT ![f].pos = next] /\ Returns(text[next])
           ELSE Returns(eof) /\ UNCHANGED FILE
  /\ UNCHANGED <<disk, port>>
close_file(p) ==
  /\ p \in Usable \ {console}
  /\ disk' = IF Stream(p).mode = "w" THEN Flushed(port[p].value) ELSE disk
  /\ FILE' = [FILE EXCEPT ![port[p].value] = NULL]
  /\ port' = [port EXCEPT ![p].state = "closed"]
  /\ Returns(NULL)
(* The collector frees the port, and runs no finalizer.                     *)
(* Mutant: a finalizer closes the FILE, of a port that was closed as well. *)
forget_Finalizes(p) ==
  /\ port[p] # NULL /\ p # console
  /\ FILE' = [FILE EXCEPT ![port[p].value] = NULL]
  /\ port' = [port EXCEPT ![p].state = "closed"]
  /\ Returns(NULL) /\ UNCHANGED disk
forget(p) ==
  /\ p \in Usable \ {console}
  /\ port' = [port EXCEPT ![p].state = "forgotten"]
  /\ Returns(NULL) /\ UNCHANGED <<disk, FILE>>

Short(p, n) ==
  Stream(p).mode = "w" => Len(disk[Stream(p).path]) + Len(Stream(p).buffer) + n
                           <= MaxLength[Stream(p).path]
Next ==
  \/ ended = "no" /\
       \/ \E p \in Port, path \in Path \ {terminal} :
            open_input_file(p, path) \/ open_output_file(p, path)
       \/ \E p \in Usable, c \in Char :
            (Short(p, 1) /\ write_char(p, c)) \/ (Short(p, 2) /\ display(p, <<c, c>>))
       \/ \E p \in Port : read_char(p) \/ close_file(p) \/ forget(p)
       \/ exit \/ crash
  \/ ended # "no" /\ UNCHANGED vars

Spec == Init /\ [][Next]_vars

-----------------------------------------------------------------------------

(* Every port that is not closed has an open FILE and no two share one,     *)
(* though the places of FILEs are used again and closed ports still point   *)
(* to them; and no FILE is open but for such a port, which may be a         *)
(* forgotten one (object.c:225-252, procedures.c:343-386).                  *)
FilesAreTheirOwn ==
  /\ \A p \in Opened : Stream(p) # NULL
  /\ \A p, q \in Opened : port[p].value = port[q].value => p = q
  /\ \A f \in FilePointer \ Free : \E p \in Opened : port[p].value = f

(* Ports are streams of their own, and what a port has displayed, or had    *)
(* written when it was closed, survives any end of the process              *)
(* (procedures.c:271-311, 343-432).                                         *)
Unflushed(path) ==
  IF Writing(path)
    THEN LET p == CHOOSE p \in Opened : Stream(p).path = path /\ Stream(p).mode = "w"
         IN  Stream(p).buffer
    ELSE << >>
StreamOf(p) ==
  IF port[p] = NULL THEN NULL
  ELSE IF port[p].state = "closed" THEN closed
  ELSE [path |-> Stream(p).path, mode |-> Stream(p).mode, pos |-> Stream(p).pos,
        kept |-> port[p].state = "open"]
file == [path \in Path |-> IF disk[path] = NULL THEN NULL ELSE disk[path] \o Unflushed(path)]
durable == [path \in Path |-> IF disk[path] = NULL THEN 0 ELSE Len(disk[path])]
stream == [p \in Port |-> StreamOf(p)]
S == INSTANCE Streams WITH port <- stream
StreamSpec == S!Spec
=============================================================================
