-------------------------------- MODULE Data --------------------------------
(***************************************************************************)
(* Scheme data: as trees, which is what a pointer into the heap stands     *)
(* for, and as the objects that the reader makes of them.                  *)
(***************************************************************************)
EXTENDS Machine

DataPair(a, d) == [kind |-> "pair", car |-> a, cdr |-> d]

(* Pairs and the objects without pointers as they are, of others the kind,  *)
(* and values outside of the heap themselves.                              *)
Datum(p) ==
  LET tree[a \in Addr] ==
        LET part(q) == IF q \in Addr THEN tree[q] ELSE q
        IN  IF heap[a].kind = "pair" THEN DataPair(part(car(a)), part(cdr(a)))
            ELSE IF heap[a].kind \in {"number", "character", "string"} THEN heap[a]
            ELSE [kind |-> heap[a].kind]
  IN  IF p \in Addr THEN tree[p] ELSE p

(* A datum to be read: the objects it consists of, in the order in which    *)
(* the reader makes them, with their numbers as pointers, and a pointer.    *)
(* In a heap h, its objects are the next ones.                             *)
Placed(h, datum, p) == IF p \in DOMAIN datum.objects THEN Len(h) + p ELSE p
Object(h, datum, o) ==
  IF o.kind = "pair" THEN Pair(Placed(h, datum, o.car), Placed(h, datum, o.cdr)) ELSE o
Stored(h, datum) ==
  h \o [i \in DOMAIN datum.objects |-> Object(h, datum, datum.objects[i])]
=============================================================================
