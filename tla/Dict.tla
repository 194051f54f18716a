-------------------------------- MODULE Dict --------------------------------
(***************************************************************************)
(* What the hash table promises its users, the environments and the symbol *)
(* table: a finite map, without a word about buckets, collisions or sizes. *)
(* As in the C interface, NULL stands both for a value and for the absence *)
(* of one.  HashTable.tla is shown to implement this specification.        *)
(***************************************************************************)
CONSTANTS Key, Value, NULL

VARIABLES
  map,      (* from the keys that were put to their latest values          *)
  result,   (* what the latest call returned                               *)
  visited,  (* the bindings the latest call passed to a callback           *)
  open      (* whether the map can still be used                           *)

vars == <<map, result, visited, open>>

Lookup(k) == IF k \in DOMAIN map THEN map[k] ELSE NULL

Init == map = << >> /\ result = NULL /\ visited = {} /\ open = TRUE

(* The value replaced is returned.  Putting may end the process. *)
Put(k, v) ==
  /\ open
  /\ map' = [x \in DOMAIN map \union {k} |-> IF x = k THEN v ELSE map[x]]
  /\ result' = Lookup(k) /\ visited' = {}
  /\ open' \in BOOLEAN

Get(k) ==
  /\ open
  /\ result' = Lookup(k) /\ visited' = {}
  /\ UNCHANGED <<map, open>>

Contains(k) ==
  /\ open
  /\ result' = (Lookup(k) # NULL) /\ visited' = {}
  /\ UNCHANGED <<map, open>>

(* Every key is visited, once, with its value. *)
ForEach ==
  /\ open
  /\ visited' = {[key |-> k, value |-> map[k]] : k \in DOMAIN map} /\ result' = NULL
  /\ UNCHANGED <<map, open>>

Destroy ==
  /\ open
  /\ map' = << >> /\ open' = FALSE
  /\ result' = NULL /\ visited' = {}

Next ==
  \/ \E k \in Key, v \in Value : Put(k, v)
  \/ \E k \in Key : Get(k) \/ Contains(k)
  \/ ForEach
  \/ Destroy

Spec == Init /\ [][Next]_vars

=============================================================================
