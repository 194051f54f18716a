------------------------------ MODULE ArrayList ------------------------------
(***************************************************************************)
(* The array list of src/util/arraylist.c: a block of pointers that grows  *)
(* by DELTA when it is full, and shrinks by DELTA when that still leaves   *)
(* room, but only if what was removed was not the last element.            *)
(***************************************************************************)
EXTENDS Null, Integers

CONSTANTS
  Object,            (* the pointers stored                                *)
  Precedes(_, _),    (* what a caller's compare says for sorting           *)
  INITIAL_CAPACITY, CAPACITY_DELTA,
  MaxSize            (* bound: no list of the model grows longer           *)

ASSUME CapacityAssumption ==
  /\ INITIAL_CAPACITY \in Nat \ {0} /\ CAPACITY_DELTA \in Nat \ {0}
  /\ INITIAL_CAPACITY <= CAPACITY_DELTA
  /\ MaxSize \in Nat

VARIABLES
  list,              (* data, indexed from 0; size; capacity               *)
  result             (* what the last call returned                        *)

list_vars == <<list, result>>

arraylist_create ==
  [data |-> [i \in 0..(INITIAL_CAPACITY - 1) |-> NULL], size |-> 0, capacity |-> INITIAL_CAPACITY]
ArrayListInit == list = arraylist_create /\ result = 0

-----------------------------------------------------------------------------

(* l in a larger block, which is zeroed first.                              *)
Moved(l, capacity) ==
  [data |-> [i \in 0..(capacity - 1) |-> IF i < l.size THEN l.data[i] ELSE NULL],
   size |-> l.size, capacity |-> capacity]
(* l in a block that realloc cuts, never a larger one: none is smaller than *)
(* INITIAL_CAPACITY.                                                       *)
Realloced(l, capacity) ==
  [data |-> [i \in 0..(capacity - 1) |-> l.data[i]], size |-> l.size, capacity |-> capacity]

MustGrow(l) == l.size = l.capacity

Added(l, x) ==
  LET m == IF MustGrow(l) THEN Moved(l, l.capacity + CAPACITY_DELTA) ELSE l
  IN  [data |-> [m.data EXCEPT ![l.size] = x], size |-> l.size + 1, capacity |-> m.capacity]
arraylist_add(x) ==
  list.size < MaxSize /\ list' = Added(list, x) /\ result' = 1

(* The first place where x is. *)
IsFirst(l, x, n) ==
  n \in 0..(l.size - 1) /\ l.data[n] = x /\ \A i \in 0..(n - 1) : l.data[i] # x
Absent(l, x) == \A i \in 0..(l.size - 1) : l.data[i] # x

(* Mutant: the last element is not moved. *)
Without_Short(l, n) ==
  [data |-> [i \in 0..(l.capacity - 1) |->
               IF i \in n..(l.size - 3) THEN l.data[i + 1] ELSE l.data[i]],
   size |-> l.size - 1, capacity |-> l.capacity]
(* memmove closes the gap; what was last stays behind it. *)
Without(l, n) ==
  [data |-> [i \in 0..(l.capacity - 1) |->
               IF i \in n..(l.size - 2) THEN l.data[i + 1] ELSE l.data[i]],
   size |-> l.size - 1, capacity |-> l.capacity]

MayShrink(l, n) == n < l.size - 1 /\ l.capacity - CAPACITY_DELTA > l.size - 1

arraylist_remove(x) ==
  \/ \E n \in 0..(list.size - 1) :
       /\ IsFirst(list, x, n)
       /\ list' = IF MayShrink(list, n)
                    THEN Realloced(Without(list, n), list.capacity - CAPACITY_DELTA)
                    ELSE Without(list, n)
       /\ result' = 1
  \/ Absent(list, x) /\ result' = 0 /\ UNCHANGED list

arraylist_index_of(x) ==
  /\ \/ \E n \in 0..(list.size - 1) : IsFirst(list, x, n) /\ result' = n
     \/ Absent(list, x) /\ result' = -1
  /\ UNCHANGED list
arraylist_contains(x) ==
  result' = (IF Absent(list, x) THEN 0 ELSE 1) /\ UNCHANGED list
arraylist_is_empty == result' = (IF list.size = 0 THEN 1 ELSE 0) /\ UNCHANGED list
arraylist_size == result' = list.size /\ UNCHANGED list
arraylist_get(n) == result' = list.data[n] /\ UNCHANGED list

arraylist_clear ==
  list' = [Realloced(list, INITIAL_CAPACITY) EXCEPT !.size = 0] /\ UNCHANGED result

(* qsort: some permutation of the elements in use, in order. *)
arraylist_sort ==
  LET used == 0..(list.size - 1) IN
    /\ \E p \in [used -> used] :
         /\ \A i, j \in used : p[i] = p[j] => i = j
         /\ list' = [data |-> [i \in 0..(list.capacity - 1) |->
                                  IF i \in used THEN list.data[p[i]] ELSE list.data[i]],
                      size |-> list.size, capacity |-> list.capacity]
    /\ \A i \in 0..(list.size - 2) : ~ Precedes(list'.data[i + 1], list'.data[i])
    /\ UNCHANGED result

ArrayListNext ==
  \/ \E x \in Object :
       arraylist_add(x) \/ arraylist_remove(x) \/ arraylist_index_of(x) \/ arraylist_contains(x)
  \/ \E n \in 0..(list.size - 1) : arraylist_get(n)
  \/ arraylist_is_empty \/ arraylist_size \/ arraylist_clear \/ arraylist_sort

ArrayListSpec == ArrayListInit /\ [][ArrayListNext]_list_vars

-----------------------------------------------------------------------------

ArrayListTypeOK ==
  /\ list = [data |-> list.data, size |-> list.size, capacity |-> list.capacity]
  /\ list.size \in Nat /\ list.capacity \in Nat /\ list.capacity >= INITIAL_CAPACITY
  /\ list.data \in [0..(list.capacity - 1) -> Object \union {NULL}]

(* The elements fit in the block whatever was added and removed in between *)
(* (arraylist.c:46, 78), and NULL, which only fresh memory holds, is no    *)
(* element.                                                                *)
ElementsFit ==
  /\ list.size <= list.capacity
  /\ \A i \in 0..(list.size - 1) : list.data[i] \in Object

(* The elements are those of a sequence: growing, shrinking and moving them *)
(* together loses none and brings none back (arraylist.c:39-88).           *)
ElementsOf(l) == [i \in 1..l.size |-> l.data[i - 1]]
L == INSTANCE List WITH elements <- ElementsOf(list)
ListSpec == L!Spec
=============================================================================
