----------------------------- MODULE HeapGraph -----------------------------
(***************************************************************************)
(* The object graph that the collector of src/gc/gc.c walks: each object   *)
(* holds a sequence of pointers, those its type's IteratePointers callback *)
(* reports, in the order it reports them (cons cells: car, cdr; compound   *)
(* procedures: arguments, body, env; ...).                                 *)
(***************************************************************************)
EXTENDS Sequences, Functions

CONSTANTS
  Addr,     (* the addresses checked_malloc can return for a gc object     *)
  NULL      (* the null pointer                                            *)

ASSUME NullAssumption == NULL \notin Addr

Ptr == Addr \union {NULL}

(* The objects that a sequence of pointers points to. *)
Targets(pointers) == Range(pointers) \ {NULL}

(* No object of S holds a pointer to an object outside S. *)
Closed(ptrs, S) == \A a \in S : Targets(ptrs[a]) \subseteq S

(***************************************************************************)
(* What can be reached from the roots: the least closed set that contains  *)
(* their targets, written as the intersection of all of them so that no    *)
(* recursion is needed to state it or to reason about it.                  *)
(***************************************************************************)
Reachable(ptrs, roots) ==
  {a \in Addr : \A S \in SUBSET Addr :
     Targets(roots) \subseteq S /\ Closed(ptrs, S) => a \in S}

=============================================================================
