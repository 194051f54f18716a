-------------------------------- MODULE Heap --------------------------------
(***************************************************************************)
(* What the garbage collector promises to the interpreter, and nothing of  *)
(* how: objects appear when they are allocated, their fields change only   *)
(* when the interpreter writes them, and from time to time every object    *)
(* that cannot be reached from the roots disappears, at once, and only     *)
(* those do.  GC.tla is shown to implement this specification.             *)
(*                                                                         *)
(* The interpreter keeps its side of the contract: it stores, and makes    *)
(* roots of, pointers to live objects only.                                *)
(***************************************************************************)
EXTENDS HeapGraph, Naturals

CONSTANTS
  Types,    (* the registered object types                                 *)
  Fields    (* Fields[t]: how many pointers an object of type t holds      *)

VARIABLES
  live,     (* the objects that exist                                      *)
  ptrs,     (* the pointers each object holds, none where there is none    *)
  roots     (* the values of the rooted variables, newest first            *)

vars == <<live, ptrs, roots>>

Init ==
  /\ live = {}
  /\ ptrs = [a \in Addr |-> << >>]
  /\ roots = << >>

(* A new object, all its pointers NULL. *)
New(a, t) ==
  /\ a \notin live
  /\ live' = live \union {a}
  /\ ptrs' = [ptrs EXCEPT ![a] = [i \in 1..Fields[t] |-> NULL]]
  /\ UNCHANGED roots

(* The interpreter writes field i of object a. *)
Write(a, i, p) ==
  /\ a \in live
  /\ i \in DOMAIN ptrs[a]
  /\ p \in live \union {NULL}
  /\ ptrs' = [ptrs EXCEPT ![a] = [@ EXCEPT ![i] = p]]
  /\ UNCHANGED <<live, roots>>

(* The interpreter assigns to the variable behind the i-th root. *)
Assign(i, p) ==
  /\ i \in DOMAIN roots
  /\ p \in live \union {NULL}
  /\ roots' = [roots EXCEPT ![i] = p]
  /\ UNCHANGED <<live, ptrs>>

Push(p) ==
  /\ p \in live \union {NULL}
  /\ roots' = <<p>> \o roots
  /\ UNCHANGED <<live, ptrs>>

Pop ==
  /\ roots # << >>
  /\ roots' = Tail(roots)
  /\ UNCHANGED <<live, ptrs>>

(* Every unreachable object disappears; the reachable ones stay as they are. *)
Collect ==
  /\ live' = Reachable(ptrs, roots)
  /\ ptrs' = [a \in Addr |-> IF a \in live' THEN ptrs[a] ELSE << >>]
  /\ UNCHANGED roots

Next ==
  \/ \E a \in Addr, t \in Types : New(a, t)
  \/ \E a \in Addr, p \in Ptr : \E i \in DOMAIN ptrs[a] : Write(a, i, p)
  \/ \E p \in Ptr : \E i \in DOMAIN roots : Assign(i, p)
  \/ \E p \in Ptr : Push(p)
  \/ Pop
  \/ Collect

Spec == Init /\ [][Next]_vars

(* The promise, as an invariant: no reachable pointer dangles. *)
NoDanglingPointer == Reachable(ptrs, roots) \subseteq live

=============================================================================
