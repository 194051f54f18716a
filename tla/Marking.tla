------------------------------ MODULE Marking ------------------------------
(***************************************************************************)
(* What a collection keeps, for the modules that abstract from its steps   *)
(* (GC has them): the mark phase of src/gc/gc.c as one function.           *)
(***************************************************************************)

(* The objects that mark reaches from a set of pointers, where pointers     *)
(* gives, for each address, what the object there points to.  A pointer    *)
(* that is no address, such as NULL, is passed over.                       *)
Marked(pointers, start) ==
  LET mark[seen \in SUBSET DOMAIN pointers] ==
        LET next == seen \union ((UNION {pointers[a] : a \in seen}) \intersect DOMAIN pointers)
        IN  IF next = seen THEN seen ELSE mark[next]
  IN  mark[start \intersect DOMAIN pointers]
=============================================================================
