---------------------------- MODULE TypeRegistry ----------------------------
(***************************************************************************)
(* The collector's types.  Each constructor registers its type at its      *)
(* first call and keeps the number it got in a static variable; gc_alloc,  *)
(* and later every collection that meets the object, finds the type's size *)
(* and callbacks under that number in an array list that grows meanwhile.  *)
(***************************************************************************)
EXTENDS Integers, FiniteSets

CONSTANTS
  Type,              (* the types, each standing for its definition        *)
  NoType,            (* NULL, which an unused place of the list holds        *)
  ARRAYLIST_INITIAL_CAPACITY, ARRAYLIST_CAPACITY_DELTA

ASSUME TypeAssumption ==
  /\ IsFiniteSet(Type) /\ NoType \notin Type
  /\ ARRAYLIST_INITIAL_CAPACITY \in Nat \ {0}
  /\ ARRAYLIST_CAPACITY_DELTA \in Nat \ {0}
  /\ ARRAYLIST_INITIAL_CAPACITY <= ARRAYLIST_CAPACITY_DELTA

VARIABLES
  type_list,         (* the collector's array list                         *)
  has_inited,        (* the types whose constructor has been called        *)
  type_id            (* the static variables, 0 before that                *)

type_vars == <<type_list, has_inited, type_id>>

Unordered(s, t) == FALSE
A == INSTANCE ArrayList WITH
       list <- type_list, result <- 0, Object <- Type, Precedes <- Unordered,
       INITIAL_CAPACITY <- ARRAYLIST_INITIAL_CAPACITY,
       CAPACITY_DELTA <- ARRAYLIST_CAPACITY_DELTA,
       MaxSize <- Cardinality(Type), NULL <- NoType

TypesInit ==
  /\ type_list = A!arraylist_create
  /\ has_inited = {}
  /\ type_id = [t \in Type |-> 0]

(* Mutant: the size after the addition. *)
new_id_After == type_list.size + 1
new_id == type_list.size

gc_register_type(t) ==
  /\ type_list' = A!Added(type_list, t)
  /\ has_inited' = has_inited \union {t}
  /\ type_id' = [type_id EXCEPT ![t] = new_id]

MustRegister(t) == t \notin has_inited

(* A constructor is called: cons, make_symbol, vm_get, ... *)
Construct(t) ==
  IF MustRegister(t) THEN gc_register_type(t) ELSE UNCHANGED type_vars

get_type(id) == type_list.data[id]

TypesNext == \E t \in Type : Construct(t)
TypesSpec == TypesInit /\ [][TypesNext]_type_vars

-----------------------------------------------------------------------------

TypesTypeOK ==
  /\ A!ArrayListTypeOK
  /\ has_inited \subseteq Type
  /\ type_id \in [Type -> Nat]

(* A number, once given, leads to the definition of its own type, however   *)
(* many types were registered since: an object is allocated, marked and     *)
(* freed with its own size and callbacks (gc.c:81, 86, 92).                *)
IdsLeadHome ==
  \A t \in has_inited : type_id[t] < type_list.size /\ get_type(type_id[t]) = t

(* No type is registered twice: the list is as long as there are types.     *)
RegisteredOnce == type_list.size = Cardinality(has_inited)
=============================================================================
