------------------------------ MODULE HashTable ------------------------------
(***************************************************************************)
(* The chained hash table of src/util/hashtable.c, which holds every       *)
(* environment's bindings and the symbol table.  An operation is atomic:   *)
(* nothing runs during it.  A chain is the set of its entries; their order *)
(* is visible to no caller.                                                *)
(***************************************************************************)
EXTENDS Integers, FiniteSets

CONSTANTS
  Key,
  Value,          (* what is stored, NULL included if somebody stores it   *)
  NULL,
  hash_func,      (* the hash function of the table, as a function         *)
  sizes           (* the array of table sizes, numbered from 0             *)

NUM_SIZES == Cardinality(DOMAIN sizes)

ASSUME HashAssumption == hash_func \in [Key -> Nat]
ASSUME SizesAssumption ==
  /\ DOMAIN sizes = 0..(NUM_SIZES - 1) /\ NUM_SIZES \in Nat /\ NUM_SIZES > 1
  /\ \A i \in DOMAIN sizes : sizes[i] \in Nat \ {0}
(* The next size holds one entry more than this one's three quarters.       *)
ASSUME OneStepIsEnough ==
  \A i \in 0..(NUM_SIZES - 2) : 4 * ((3 * sizes[i]) \div 4 + 1) <= 3 * sizes[i + 1]

VARIABLES
  table,              (* the chain of each bucket, a set of entries        *)
  table_size_index,
  num_keys,
  result,             (* what the latest call returned                     *)
  visited,            (* the entries the latest call passed to a callback  *)
  pc                  (* "open", or how the table's life ended             *)

vars == <<table, table_size_index, num_keys, result, visited, pc>>

Entry == [key : Key, value : Value]
Buckets(index) == 0..(sizes[index] - 1)
Entries == UNION {table[b] : b \in DOMAIN table}

TypeOK ==
  /\ table_size_index \in 0..(NUM_SIZES - 1)
  /\ table \in [Buckets(table_size_index) -> SUBSET Entry]
  /\ num_keys \in Nat
  /\ pc \in {"open", "exit", "destroyed", "undefined"}

(* hashtable_create *)
Init ==
  /\ table_size_index = 0
  /\ table = [b \in Buckets(0) |-> {}]
  /\ num_keys = 0
  /\ result = NULL
  /\ visited = {}
  /\ pc = "open"

hash(k, index) == hash_func[k] % sizes[index]

(* The entries that find_key stops at, in the chain of the key's bucket. *)
find_key(k) == {e \in table[hash(k, table_size_index)] : e.key = k}
hashtable_get(k) ==
  IF find_key(k) = {} THEN NULL ELSE (CHOOSE e \in find_key(k) : TRUE).value

-----------------------------------------------------------------------------
(* hashtable_put *)

(* insert_key: the value of the key's entry is overwritten, or an entry is *)
(* added to the chain.  Mutant: an entry is added in any case.             *)
insert_key_AddsAlways(k, v) ==
  [table EXCEPT ![hash(k, table_size_index)] = @ \union {[key |-> k, value |-> v]}]
insert_key(k, v) ==
  [table EXCEPT ![hash(k, table_size_index)] =
     (@ \ find_key(k)) \union {[key |-> k, value |-> v]}]

(* change_table_size: the entries of tab, each in its bucket of the new    *)
(* size.  Mutant: chains move as they are.                                 *)
rehash_ByChain(tab, new_size_index) ==
  [b \in Buckets(new_size_index) |-> IF b \in DOMAIN tab THEN tab[b] ELSE {}]
rehash(tab, new_size_index) ==
  LET entries == UNION {tab[b] : b \in DOMAIN tab}
  IN  [b \in Buckets(new_size_index) |-> {e \in entries : hash(e.key, new_size_index) = b}]

(* Where change_table_size gives up.  Mutant: after the last size. *)
TooBig_AfterLast(new_size_index) == new_size_index = NUM_SIZES
TooBig(new_size_index) == new_size_index = NUM_SIZES - 1

(* More than three quarters full.  Mutants: half full; completely full. *)
AboveHighWaterMark_Half(n) == 2 * n > sizes[table_size_index]
AboveHighWaterMark_Full(n) == n > sizes[table_size_index]
AboveHighWaterMark(n) == 4 * n > 3 * sizes[table_size_index]

(* A put counts the key if the lookup returned NULL.  Mutant: it counts     *)
(* every put.                                                               *)
CountAfter_Always(k, v) == num_keys + 1
CountAfter(k, v) == num_keys + (IF hashtable_get(k) = NULL THEN 1 ELSE 0)

hashtable_put(k, v) ==
  LET inserted == insert_key(k, v)
      grows == hashtable_get(k) = NULL /\ AboveHighWaterMark(CountAfter(k, v))
  IN  /\ pc = "open"
      /\ result' = hashtable_get(k) /\ visited' = {}
      /\ num_keys' = CountAfter(k, v)
      /\ IF ~ grows
           THEN table' = inserted /\ UNCHANGED <<table_size_index, pc>>
           ELSE IF TooBig(table_size_index + 1)
           THEN table' = inserted /\ pc' = "exit" /\ UNCHANGED table_size_index
           ELSE /\ table_size_index' = table_size_index + 1
                /\ table' = rehash(inserted, table_size_index + 1)
                /\ UNCHANGED pc

-----------------------------------------------------------------------------
(* The other operations *)

Get(k) ==
  /\ pc = "open"
  /\ result' = hashtable_get(k) /\ visited' = {}
  /\ UNCHANGED <<table, table_size_index, num_keys, pc>>

hashtable_contains_key(k) ==
  /\ pc = "open"
  /\ result' = (hashtable_get(k) # NULL) /\ visited' = {}
  /\ UNCHANGED <<table, table_size_index, num_keys, pc>>

hashtable_foreach ==
  /\ pc = "open"
  /\ visited' = Entries /\ result' = NULL
  /\ UNCHANGED <<table, table_size_index, num_keys, pc>>

hashtable_destroy ==
  /\ pc = "open"
  /\ table' = [b \in DOMAIN table |-> {}]
  /\ pc' = "destroyed"
  /\ result' = NULL /\ visited' = {}
  /\ UNCHANGED <<table_size_index, num_keys>>

(***************************************************************************)
(* hashtable_remove, which nothing calls.  Its prev is declared inside the *)
(* loop and so is NULL at every test: the bucket's head becomes NULL,      *)
(* whatever else is in the chain.  At the first size, shrinking reads      *)
(* sizes[-1]: anything may follow, and nothing is said about it here.      *)
(***************************************************************************)
hashtable_remove(k) ==
  LET emptied == [table EXCEPT ![hash(k, table_size_index)] = {}]
      shrinks == 4 * (num_keys - 1) < sizes[table_size_index]
  IN  /\ pc = "open"
      /\ result' = hashtable_get(k) /\ visited' = {}
      /\ IF find_key(k) = {}
           THEN UNCHANGED <<table, table_size_index, num_keys, pc>>
           ELSE /\ num_keys' = num_keys - 1
                /\ IF ~ shrinks
                     THEN table' = emptied /\ UNCHANGED <<table_size_index, pc>>
                     ELSE IF table_size_index = 0
                     THEN table' = emptied /\ pc' = "undefined" /\ UNCHANGED table_size_index
                     ELSE /\ table_size_index' = table_size_index - 1
                          /\ table' = rehash(emptied, table_size_index - 1)
                          /\ UNCHANGED pc

Next ==
  \/ \E k \in Key, v \in Value : hashtable_put(k, v)
  \/ \E k \in Key : Get(k)
  \/ \E k \in Key : hashtable_contains_key(k)
  \/ hashtable_foreach
  \/ hashtable_destroy

(* The operations the interpreter uses; and all those the header offers. *)
Spec == Init /\ [][Next]_vars
SpecWithRemove == Init /\ [][Next \/ \E k \in Key : hashtable_remove(k)]_vars

-----------------------------------------------------------------------------
(* Properties *)

(* Every entry is in the bucket where a lookup of its key looks, under the  *)
(* size the table has now, and there is one entry per key: growing the      *)
(* table (hashtable.c:129-142) neither strands nor doubles a binding.       *)
EntriesAreFound ==
  /\ \A b \in DOMAIN table : \A e \in table[b] : hash(e.key, table_size_index) = b
  /\ \A e, f \in Entries : e.key = f.key => e = f

(* num_keys, which decides when the table grows, is the number of entries   *)
(* unless some value is NULL: storing over NULL counts the key once more    *)
(* (hashtable.c:149-153), so it never falls behind, but it runs ahead.      *)
CountIsExact ==
  pc = "open" =>
    /\ num_keys >= Cardinality(Entries)
    /\ NULL \notin Value => num_keys = Cardinality(Entries)

(* The load stays under the high water mark, so chains stay short, for as   *)
(* long as the table works: one step up the sizes, which about double, is   *)
(* enough for the put that needed it.                                       *)
LoadIsBounded == pc = "open" => 4 * Cardinality(Entries) <= 3 * sizes[table_size_index]

(* The table is never larger than its keys need, whatever the calls and     *)
(* their order: they did not fit in any smaller size.  In particular,       *)
(* storing new values for the same names for ever, or looking names up,     *)
(* never makes it grow (hashtable.c:96-108, 147-162).                       *)
SizeIsNeeded ==
  NULL \notin Value /\ pc # "destroyed" =>
    \A i \in 0..(table_size_index - 1) : 4 * Cardinality(Entries) > 3 * sizes[i]

(* The process ends for the first key that does not fit in the last size but *)
(* one, and for no other call: the test at hashtable.c:112 gives up one size *)
(* early, so the last of the sizes of hashtable.c:9-24 adds nothing to what *)
(* a table can hold.                                                        *)
Fits == 4 * Cardinality(Entries) <= 3 * sizes[NUM_SIZES - 2]
CapacityIsExact ==
  /\ pc = "open" => Fits
  /\ NULL \notin Value /\ pc = "exit" => ~ Fits

(* The table is a map: Dict.tla, with the map that a lookup of each key     *)
(* reveals.                                                                 *)
AbstractMap == [k \in {e.key : e \in Entries} |-> hashtable_get(k)]
D == INSTANCE Dict WITH map <- AbstractMap, open <- pc = "open"
DictSpec == D!Spec

(* hashtable.c:192 says of the emptied bucket: "this is the only thing in   *)
(* the list so just free it".  So removing a key loses no other key.        *)
RemoveKeepsTheOthers ==
  [][\A k \in Key : hashtable_remove(k) =>
       \A e \in Entries : e.key # k => e \in Entries']_vars

=============================================================================
