-------------------------------- MODULE List --------------------------------
(***************************************************************************)
(* What an array list of src/util/arraylist.h promises: a sequence, whose  *)
(* places are counted from 0.  result is what the last call returned.      *)
(***************************************************************************)
EXTENDS Integers, Sequences

CONSTANTS Object, Precedes(_, _)

VARIABLES elements, result

Init == elements = << >> /\ result = 0

IsFirst(x, n) ==
  n \in 1..Len(elements) /\ elements[n] = x /\ \A i \in 1..(n - 1) : elements[i] # x
Absent(x) == \A i \in 1..Len(elements) : elements[i] # x

Add(x) == elements' = Append(elements, x) /\ result' = 1
Remove(x) ==
  \/ \E n \in 1..Len(elements) :
       /\ IsFirst(x, n)
       /\ elements' = [i \in 1..(Len(elements) - 1) |->
                         IF i < n THEN elements[i] ELSE elements[i + 1]]
       /\ result' = 1
  \/ Absent(x) /\ result' = 0 /\ UNCHANGED elements
IndexOf(x) ==
  /\ \/ \E n \in 1..Len(elements) : IsFirst(x, n) /\ result' = n - 1
     \/ Absent(x) /\ result' = -1
  /\ UNCHANGED elements
Contains(x) == result' = (IF Absent(x) THEN 0 ELSE 1) /\ UNCHANGED elements
IsEmpty == result' = (IF elements = << >> THEN 1 ELSE 0) /\ UNCHANGED elements
Size == result' = Len(elements) /\ UNCHANGED elements
Get(n) == result' = elements[n + 1] /\ UNCHANGED elements
Clear == elements' = << >> /\ UNCHANGED result
Sort ==
  /\ \E p \in [1..Len(elements) -> 1..Len(elements)] :
       /\ \A i, j \in 1..Len(elements) : p[i] = p[j] => i = j
       /\ elements' = [i \in 1..Len(elements) |-> elements[p[i]]]
  /\ \A i \in 1..(Len(elements) - 1) : ~ Precedes(elements'[i + 1], elements'[i])
  /\ UNCHANGED result

Next ==
  \/ \E x \in Object : Add(x) \/ Remove(x) \/ IndexOf(x) \/ Contains(x)
  \/ \E n \in 0..(Len(elements) - 1) : Get(n)
  \/ IsEmpty \/ Size \/ Clear \/ Sort

Spec == Init /\ [][Next]_<<elements, result>>
=============================================================================
