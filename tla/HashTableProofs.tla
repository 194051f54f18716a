--------------------------- MODULE HashTableProofs ---------------------------
(***************************************************************************)
(* The hash table is a map, for every set of keys, every hash function and *)
(* every array of sizes.  The lemmas speak of any table tab of size number *)
(* i, so that they apply before and after a step.                          *)
(***************************************************************************)
EXTENDS HashTable, Facts

Contents(tab) == UNION {tab[b] : b \in DOMAIN tab}

(* Entries are in their buckets, one per key. *)
WellFormed(tab, i) ==
  /\ tab \in [Buckets(i) -> SUBSET Entry]
  /\ \A b \in DOMAIN tab : \A e \in tab[b] : hash(e.key, i) = b
  /\ \A e, f \in Contents(tab) : e.key = f.key => e = f

(* The test at hashtable.c:112 keeps the last size out of use. *)
BeforeLast == table_size_index # NUM_SIZES - 1

IInv ==
  /\ TypeOK
  /\ EntriesAreFound
  /\ BeforeLast

LEMMA IInvWellFormed ==
  IInv <=> /\ table_size_index \in 0..(NUM_SIZES - 2)
           /\ num_keys \in Nat
           /\ pc \in {"open", "exit", "destroyed", "undefined"}
           /\ WellFormed(table, table_size_index)
BY SizesAssumption DEF IInv, TypeOK, EntriesAreFound, BeforeLast, WellFormed,
     Contents, Entries

LEMMA HashInRange ==
  ASSUME NEW k \in Key, NEW i \in 0..(NUM_SIZES - 1)
  PROVE  hash(k, i) \in Buckets(i)
<1>1. sizes[i] \in Nat \ {0} /\ hash_func[k] \in Nat
  BY SizesAssumption, HashAssumption
<1>2. hash_func[k] % sizes[i] \in 0..(sizes[i] - 1)
  BY <1>1
<1> QED BY <1>2 DEF hash, Buckets

(* A chain holds exactly what find_key looks for. *)
LEMMA ChainOfKey ==
  ASSUME NEW i \in 0..(NUM_SIZES - 1), NEW tab, WellFormed(tab, i), NEW k \in Key
  PROVE  {e \in tab[hash(k, i)] : e.key = k} = {e \in Contents(tab) : e.key = k}
<1>1. hash(k, i) \in DOMAIN tab
  BY HashInRange DEF WellFormed
<1>2. ASSUME NEW e \in Contents(tab), e.key = k PROVE e \in tab[hash(k, i)]
  BY <1>2 DEF WellFormed, Contents
<1>3. tab[hash(k, i)] \subseteq Contents(tab)
  BY <1>1 DEF Contents
<1> QED BY <1>2, <1>3

(* What a lookup returns depends on the contents only. *)
LEMMA LookupFound ==
  ASSUME NEW i \in 0..(NUM_SIZES - 1), NEW tab, WellFormed(tab, i),
         NEW e \in Contents(tab)
  PROVE  {f \in tab[hash(e.key, i)] : f.key = e.key} = {e}
<1>1. e \in Entry
  BY DEF WellFormed, Contents
<1>2. {f \in tab[hash(e.key, i)] : f.key = e.key} = {f \in Contents(tab) : f.key = e.key}
  BY <1>1, ChainOfKey DEF Entry
<1> QED BY <1>2 DEF WellFormed

LEMMA LookupMissing ==
  ASSUME NEW i \in 0..(NUM_SIZES - 1), NEW tab, WellFormed(tab, i), NEW k \in Key,
         \A e \in Contents(tab) : e.key # k
  PROVE  {f \in tab[hash(k, i)] : f.key = k} = {}
BY ChainOfKey

(* Inserting replaces the key's entry, in the right bucket. *)
Inserted(tab, i, k, v) ==
  [tab EXCEPT ![hash(k, i)] =
     {e \in tab[hash(k, i)] : e.key # k} \union {[key |-> k, value |-> v]}]

LEMMA InsertWellFormed ==
  ASSUME NEW i \in 0..(NUM_SIZES - 1), NEW tab, WellFormed(tab, i),
         NEW k \in Key, NEW v \in Value
  PROVE  /\ WellFormed(Inserted(tab, i, k, v), i)
         /\ Contents(Inserted(tab, i, k, v)) =
              {e \in Contents(tab) : e.key # k} \union {[key |-> k, value |-> v]}
<1> DEFINE h == hash(k, i)
           new == Inserted(tab, i, k, v)
           new_e == [key |-> k, value |-> v]
<1>1. h \in Buckets(i) /\ DOMAIN tab = Buckets(i) /\ new_e \in Entry /\ new_e.key = k
  BY HashInRange DEF WellFormed, Entry
<1> HIDE DEF h, new_e, new
<1>2. /\ DOMAIN new = Buckets(i)
      /\ new[h] = {e \in tab[h] : e.key # k} \union {new_e}
      /\ \A b \in Buckets(i) : b # h => new[b] = tab[b]
  BY <1>1 DEF h, new_e, new, Inserted, WellFormed
<1>3. \A b \in Buckets(i) : \A e \in tab[b] : e \in Entry /\ hash(e.key, i) = b
  BY <1>1 DEF WellFormed
<1>4. Contents(new) = {e \in Contents(tab) : e.key # k} \union {new_e}
  <2>1. ASSUME NEW e \in Contents(new)
        PROVE  e \in {x \in Contents(tab) : x.key # k} \union {new_e}
    <3>1. PICK b \in Buckets(i) : e \in new[b]
      BY <1>2 DEF Contents
    <3>2. CASE b = h
      BY <1>1, <1>2, <3>1, <3>2 DEF Contents
    <3>3. CASE b # h
      <4>1. e \in tab[b] /\ hash(e.key, i) = b
        BY <1>2, <1>3, <3>1, <3>3
      <4>2. e.key # k
        BY <4>1, <3>3 DEF h
      <4> QED BY <1>1, <4>1, <4>2 DEF Contents
    <3> QED BY <3>2, <3>3
  <2>2. ASSUME NEW e \in Contents(tab), e.key # k PROVE e \in Contents(new)
    <3>1. PICK b \in Buckets(i) : e \in tab[b]
      BY <1>1 DEF Contents
    <3>2. e \in new[b]
      BY <1>2, <2>2, <3>1
    <3> QED BY <1>2, <3>2 DEF Contents
  <2>3. new_e \in Contents(new)
    BY <1>1, <1>2 DEF Contents
  <2> QED BY <2>1, <2>2, <2>3
<1>5. \A b \in DOMAIN new : \A e \in new[b] : e \in Entry /\ hash(e.key, i) = b
  BY <1>1, <1>2, <1>3 DEF h
<1>6. \A e, f \in Contents(new) : e.key = f.key => e = f
  BY <1>1, <1>4 DEF WellFormed
<1>7. new \in [Buckets(i) -> SUBSET Entry]
  <2>1. {e \in tab[h] : e.key # k} \union {new_e} \in SUBSET Entry
    BY <1>1, <1>3
  <2> QED BY <1>1, <2>1 DEF WellFormed, new, Inserted, h, new_e
<1> QED BY <1>4, <1>5, <1>6, <1>7 DEF WellFormed, new_e, new

(* Growing moves the entries to their new buckets and loses none. *)
LEMMA RehashWellFormed ==
  ASSUME NEW i \in 0..(NUM_SIZES - 1), NEW j \in 0..(NUM_SIZES - 1),
         NEW tab, WellFormed(tab, i)
  PROVE  WellFormed(rehash(tab, j), j) /\ Contents(rehash(tab, j)) = Contents(tab)
<1> DEFINE new == rehash(tab, j)
<1>1. new = [b \in Buckets(j) |-> {e \in Contents(tab) : hash(e.key, j) = b}]
  BY DEF rehash, Contents
<1> HIDE DEF new
<1>2. Contents(tab) \subseteq Entry
  BY DEF WellFormed, Contents
<1>3. \A e \in Contents(tab) : hash(e.key, j) \in Buckets(j)
  BY <1>2, HashInRange DEF Entry
<1>4. Contents(new) = Contents(tab)
  <2>1. Contents(new) \subseteq Contents(tab)
    BY <1>1 DEF Contents
  <2>2. ASSUME NEW e \in Contents(tab) PROVE e \in Contents(new)
    <3>1. e \in new[hash(e.key, j)] /\ hash(e.key, j) \in DOMAIN new
      BY <1>1, <1>3
    <3> QED BY <3>1 DEF Contents
  <2> QED BY <2>1, <2>2
<1>5. new \in [Buckets(j) -> SUBSET Entry]
  BY <1>1, <1>2
<1> QED BY <1>1, <1>4, <1>5 DEF WellFormed, new

-----------------------------------------------------------------------------
(* What a put does, whether or not the table grows *)

LEMMA PutEffect ==
  ASSUME IInv, NEW k \in Key, NEW v \in Value, hashtable_put(k, v)
  PROVE  /\ IInv'
         /\ Entries' = {e \in Entries : e.key # k} \union {[key |-> k, value |-> v]}
<1> DEFINE i == table_size_index
           new == insert_key(k, v)
<1>1. i \in 0..(NUM_SIZES - 2) /\ NUM_SIZES \in Nat /\ WellFormed(table, i)
      /\ num_keys \in Nat /\ pc = "open"
  BY IInvWellFormed, SizesAssumption DEF hashtable_put
<1>2. WellFormed(new, i)
      /\ Contents(new) = {e \in Entries : e.key # k} \union {[key |-> k, value |-> v]}
  <2>1. Contents(table) = Entries
    BY DEF Contents, Entries
  <2>2. new = Inserted(table, i, k, v)
    <3>1. hash(k, i) \in DOMAIN table
      BY <1>1, HashInRange DEF WellFormed
    <3>2. table[hash(k, i)] \ find_key(k) = {e \in table[hash(k, i)] : e.key # k}
      BY DEF find_key
    <3> QED BY <3>1, <3>2 DEF insert_key, Inserted
  <2>3. i \in 0..(NUM_SIZES - 1) /\ WellFormed(table, i)
    BY <1>1
  <2> HIDE DEF i, new
  <2>4. WellFormed(new, i)
        /\ Contents(new) = {e \in Contents(table) : e.key # k} \union {[key |-> k, value |-> v]}
    BY <2>2, <2>3, InsertWellFormed
  <2> QED BY <2>1, <2>4
<1>3. num_keys' \in Nat
  BY <1>1 DEF hashtable_put, CountAfter
<1> HIDE DEF new
<1>4. CASE table' = new /\ table_size_index' = i
  BY <1>1, <1>2, <1>3, <1>4
     DEF hashtable_put, IInv, TypeOK, EntriesAreFound, BeforeLast, WellFormed,
         Contents, Entries
<1>5. CASE table' = rehash(new, i + 1) /\ table_size_index' = i + 1 /\ ~ TooBig(i + 1)
  <2>1. i + 1 \in 0..(NUM_SIZES - 2)
    BY <1>1, <1>5 DEF TooBig
  <2>2. WellFormed(table', i + 1) /\ Contents(table') = Contents(new)
    BY <1>1, <1>2, <1>5, <2>1, RehashWellFormed
  <2> QED BY <1>1, <1>2, <1>3, <1>5, <2>1, <2>2
          DEF hashtable_put, IInv, TypeOK, EntriesAreFound, BeforeLast, WellFormed,
              Contents, Entries
<1> QED BY <1>4, <1>5 DEF hashtable_put, new

LEMMA IInvInit == Init => IInv
<1> SUFFICES ASSUME Init PROVE IInv
  OBVIOUS
<1>1. table = [b \in Buckets(0) |-> {}] /\ Contents(table) = {}
  BY DEF Init, Contents
<1>2. WellFormed(table, 0)
  BY <1>1 DEF WellFormed
<1> QED BY <1>2, IInvWellFormed, SizesAssumption DEF Init

LEMMA IInvStep == IInv /\ [Next]_vars => IInv'
<1> SUFFICES ASSUME IInv, [Next]_vars PROVE IInv'
  OBVIOUS
<1>1. ASSUME NEW k \in Key, NEW v \in Value, hashtable_put(k, v) PROVE IInv'
  BY <1>1, PutEffect
<1>2. ASSUME UNCHANGED <<table, table_size_index, num_keys, pc>> PROVE IInv'
  BY <1>2 DEF IInv, TypeOK, EntriesAreFound, BeforeLast, Entries
<1>3. CASE hashtable_destroy
  BY <1>3 DEF hashtable_destroy, IInv, TypeOK, EntriesAreFound, BeforeLast, Entries
<1> QED BY <1>1, <1>2, <1>3
        DEF Next, vars, Get, hashtable_contains_key, hashtable_foreach

(* The table's type, for any sizes (hashtable.c:33-40). *)
THEOREM TypeCorrect == Spec => []TypeOK
<1>1. IInv => TypeOK
  BY DEF IInv
<1> QED BY <1>1, IInvInit, IInvStep, PTL DEF Spec

(* Growing the table keeps every entry where lookups find it, once per key  *)
(* (hashtable.c:110-145).                                                   *)
THEOREM EntriesAlwaysFound == Spec => []EntriesAreFound
<1>1. IInv => EntriesAreFound
  BY DEF IInv
<1> QED BY <1>1, IInvInit, IInvStep, PTL DEF Spec

-----------------------------------------------------------------------------
(* The number of keys *)

(* Entries are finitely many; none is counted twice unless NULL is stored. *)
Counted ==
  /\ num_keys >= Cardinality(Entries)
  /\ NULL \notin Value => num_keys = Cardinality(Entries)
CountInv ==
  /\ IsFiniteSet(Entries)
  /\ pc # "destroyed" => Counted

LEMMA LookupNull ==
  ASSUME IInv, NEW k \in Key
  PROVE  /\ (\A e \in Entries : e.key # k) => hashtable_get(k) = NULL
         /\ \A e \in Entries : e.key = k => hashtable_get(k) = e.value
<1>1. table_size_index \in 0..(NUM_SIZES - 1) /\ WellFormed(table, table_size_index)
  BY IInvWellFormed, SizesAssumption
<1>2. find_key(k) = {e \in table[hash(k, table_size_index)] : e.key = k}
      /\ Contents(table) = Entries
  BY DEF find_key, Contents, Entries
<1>3. ASSUME \A e \in Entries : e.key # k PROVE hashtable_get(k) = NULL
  <2>1. find_key(k) = {}
    BY <1>1, <1>2, <1>3, LookupMissing
  <2> QED BY <2>1 DEF hashtable_get
<1>4. ASSUME NEW e \in Entries, e.key = k PROVE hashtable_get(k) = e.value
  <2>1. find_key(k) = {e}
    BY <1>1, <1>2, <1>4, LookupFound
  <2> QED BY <2>1 DEF hashtable_get
<1> QED BY <1>3, <1>4

LEMMA CountPut ==
  ASSUME IInv, CountInv, NEW k \in Key, NEW v \in Value, hashtable_put(k, v)
  PROVE  CountInv'
<1> DEFINE others == {e \in Entries : e.key # k}
           new_e == [key |-> k, value |-> v]
<1>1. Entries' = others \union {new_e} /\ new_e \notin others
  BY PutEffect
<1>2. num_keys' = CountAfter(k, v) /\ pc = "open" /\ num_keys \in Nat
  BY DEF hashtable_put, IInv, TypeOK
<1>3. IsFiniteSet(others) /\ Cardinality(others) \in Nat /\ Cardinality(Entries) \in Nat
  BY FS_Subset, FS_CardinalityType DEF CountInv
<1> HIDE DEF new_e
<1>4. IsFiniteSet(Entries') /\ Cardinality(Entries') = Cardinality(others) + 1
  <2> HIDE DEF others
  <2> QED BY <1>1, <1>3, FS_AddElement
<1>5. num_keys >= Cardinality(Entries) /\ (NULL \notin Value => num_keys = Cardinality(Entries))
  BY <1>2 DEF CountInv, Counted
<1>6. CASE \A e \in Entries : e.key # k
  <2>1. others = Entries /\ hashtable_get(k) = NULL
    BY <1>6, LookupNull
  <2>2. num_keys' = num_keys + 1 /\ Cardinality(Entries') = Cardinality(Entries) + 1
    BY <1>2, <1>4, <2>1 DEF CountAfter
  <2> QED BY <1>2, <1>3, <1>4, <1>5, <2>2 DEF CountInv, Counted
<1>7. ASSUME NEW e \in Entries, e.key = k PROVE CountInv'
  <2>1. others = Entries \ {e}
    BY <1>7 DEF IInv, EntriesAreFound
  <2>2. Cardinality(others) = Cardinality(Entries) - 1
    <3> HIDE DEF others
    <3> QED BY <1>7, <2>1, FS_RemoveElement DEF CountInv
  <2>3. hashtable_get(k) = e.value /\ e.value \in Value
    BY <1>7, LookupNull DEF IInv, TypeOK, Entry, Entries
  <2>4. CASE hashtable_get(k) = NULL
    BY <1>2, <1>3, <1>4, <1>5, <2>2, <2>3, <2>4 DEF CountInv, Counted, CountAfter
  <2>5. CASE hashtable_get(k) # NULL
    BY <1>2, <1>3, <1>4, <1>5, <2>2, <2>5 DEF CountInv, Counted, CountAfter
  <2> QED BY <2>4, <2>5
<1> QED BY <1>6, <1>7

LEMMA CountInit == Init => CountInv
<1> SUFFICES ASSUME Init PROVE CountInv
  OBVIOUS
<1>1. Entries = {} /\ num_keys = 0
  BY DEF Init, Entries
<1> QED BY <1>1, FS_EmptySet DEF CountInv, Counted

LEMMA CountStep == IInv /\ CountInv /\ [Next]_vars => CountInv'
<1> SUFFICES ASSUME IInv, CountInv, [Next]_vars PROVE CountInv'
  OBVIOUS
<1>1. ASSUME NEW k \in Key, NEW v \in Value, hashtable_put(k, v) PROVE CountInv'
  BY <1>1, CountPut
<1>2. ASSUME UNCHANGED <<table, num_keys, pc>> PROVE CountInv'
  BY <1>2 DEF CountInv, Counted, Entries
<1>3. CASE hashtable_destroy
  <2>1. Entries' = {} /\ pc' = "destroyed"
    BY <1>3 DEF hashtable_destroy, Entries
  <2> QED BY <2>1, FS_EmptySet DEF CountInv, Counted
<1> QED BY <1>1, <1>2, <1>3 DEF Next, vars, Get, hashtable_contains_key, hashtable_foreach

(* The number of keys is right when no NULL is stored, and never too small *)
(* (hashtable.c:147-162).                                                  *)
THEOREM KeysAreCounted == Spec => []CountIsExact
<1>1. CountInv => CountIsExact
  BY DEF CountInv, Counted, CountIsExact
<1> QED BY <1>1, CountInit, CountStep, IInvInit, IInvStep, PTL DEF Spec

-----------------------------------------------------------------------------
(* The load and the size *)

(* The load is bounded for the counter, which never falls behind.           *)
LoadInv == pc = "open" => 4 * num_keys <= 3 * sizes[table_size_index]

LEMMA OneStepHolds ==
  ASSUME NEW i \in 0..(NUM_SIZES - 2), NEW m \in Nat, 4 * m <= 3 * sizes[i]
  PROVE  4 * (m + 1) <= 3 * sizes[i + 1]
<1>1. /\ sizes[i] \in Nat /\ sizes[i + 1] \in Nat
      /\ 4 * ((3 * sizes[i]) \div 4 + 1) <= 3 * sizes[i + 1]
  <2>1. i \in DOMAIN sizes /\ i + 1 \in DOMAIN sizes
    BY SizesAssumption
  <2> QED BY <2>1, SizesAssumption, OneStepIsEnough
<1>2. \A x, y \in Nat : 4 * ((3 * x) \div 4 + 1) <= 3 * y /\ 4 * m <= 3 * x => 4 * (m + 1) <= 3 * y
  OBVIOUS
<1> QED BY <1>1, <1>2

LEMMA LoadPut ==
  ASSUME IInv, LoadInv, NEW k \in Key, NEW v \in Value, hashtable_put(k, v)
  PROVE  LoadInv'
<1> DEFINE i == table_size_index
<1>1. /\ i \in 0..(NUM_SIZES - 2) /\ num_keys \in Nat /\ sizes[i] \in Nat
      /\ 4 * num_keys <= 3 * sizes[i] /\ num_keys' = CountAfter(k, v)
  BY IInvWellFormed, SizesAssumption DEF hashtable_put, LoadInv
<1>2. CASE hashtable_get(k) # NULL
  BY <1>1, <1>2 DEF hashtable_put, CountAfter, LoadInv
<1>3. CASE hashtable_get(k) = NULL
  <2>1. num_keys' = num_keys + 1
    BY <1>1, <1>3 DEF CountAfter
  <2>2. CASE ~ AboveHighWaterMark(num_keys + 1)
    BY <1>1, <1>3, <2>1, <2>2 DEF hashtable_put, AboveHighWaterMark, LoadInv
  <2>3. CASE AboveHighWaterMark(num_keys + 1)
    <3>1. pc' = "exit" \/ i' = i + 1
      BY <1>1, <1>3, <2>1, <2>3 DEF hashtable_put
    <3>2. 4 * (num_keys + 1) <= 3 * sizes[i + 1]
      <4> HIDE DEF i
      <4> QED BY <1>1, OneStepHolds
    <3> QED BY <2>1, <3>1, <3>2 DEF LoadInv
  <2> QED BY <2>2, <2>3
<1> QED BY <1>2, <1>3

(* One step up the sizes is enough for the entry that needed it, so the     *)
(* load never passes the high water mark between two calls                  *)
(* (hashtable.c:108-162).                                                   *)
THEOREM LoadIsAlwaysBounded == Spec => []LoadIsBounded
<1>1. Init => LoadInv
  BY SizesAssumption DEF Init, LoadInv
<1>2. IInv /\ LoadInv /\ [Next]_vars => LoadInv'
  <2> SUFFICES ASSUME IInv, LoadInv, [Next]_vars PROVE LoadInv'
    OBVIOUS
  <2>1. ASSUME NEW k \in Key, NEW v \in Value, hashtable_put(k, v) PROVE LoadInv'
    BY <2>1, LoadPut
  <2>2. ASSUME UNCHANGED <<table_size_index, num_keys, pc>> PROVE LoadInv'
    BY <2>2 DEF LoadInv
  <2>3. CASE hashtable_destroy
    BY <2>3 DEF hashtable_destroy, LoadInv
  <2> QED BY <2>1, <2>2, <2>3 DEF Next, vars, Get, hashtable_contains_key, hashtable_foreach
<1>3. IInv /\ CountInv /\ LoadInv => LoadIsBounded
  <2> SUFFICES ASSUME IInv, CountInv, LoadInv, pc = "open"
               PROVE  4 * Cardinality(Entries) <= 3 * sizes[table_size_index]
    BY DEF LoadIsBounded
  <2>1. Cardinality(Entries) \in Nat /\ num_keys \in Nat /\ sizes[table_size_index] \in Nat
    BY FS_CardinalityType, SizesAssumption DEF CountInv, IInv, TypeOK
  <2>2. num_keys >= Cardinality(Entries) /\ 4 * num_keys <= 3 * sizes[table_size_index]
    BY DEF CountInv, Counted, LoadInv
  <2> QED BY <2>1, <2>2
<1> QED BY <1>1, <1>2, <1>3, IInvInit, IInvStep, CountInit, CountStep, PTL DEF Spec

(* Sizes that grow by a step grow by any number of steps. *)
LEMMA SizesGrow ==
  ASSUME NEW i \in 0..(NUM_SIZES - 2)
  PROVE  sizes[i] <= sizes[NUM_SIZES - 2]
<1> DEFINE last == NUM_SIZES - 2
           Larger == {j \in 0..last : sizes[last] < sizes[j]}
           Distance == {last - j : j \in Larger}
<1>1. last \in Nat /\ sizes[last] \in Nat /\ \A j \in 0..last : sizes[j] \in Nat
  BY SizesAssumption
<1>2. ASSUME NEW j \in 0..last, j # last PROVE j + 1 \in 0..last /\ sizes[j] <= sizes[j + 1]
  <2>1. j \in 0..(NUM_SIZES - 2) /\ j + 1 \in 0..last
    BY <1>1, <1>2
  <2>2. 4 * ((3 * sizes[j]) \div 4 + 1) <= 3 * sizes[j + 1]
    BY <2>1, OneStepIsEnough
  <2>3. sizes[j] \in Nat /\ sizes[j + 1] \in Nat
    BY <1>1, <2>1
  <2>4. \A x, y \in Nat : 4 * ((3 * x) \div 4 + 1) <= 3 * y => x <= y
    OBVIOUS
  <2> QED BY <2>1, <2>2, <2>3, <2>4
<1> HIDE DEF last
<1>3. SUFFICES ASSUME Larger # {} PROVE FALSE
  BY <1>1 DEF last
<1>4. Distance \in SUBSET Nat /\ Distance # {}
  BY <1>1, <1>3
<1>5. PICK least \in Distance : \A n \in Distance : least <= n
  <2> HIDE DEF Distance
  <2> QED BY <1>4, LeastNat
<1>6. PICK j \in Larger : least = last - j
  OBVIOUS
<1>7. j \in 0..last /\ sizes[last] < sizes[j] /\ j # last
  BY <1>1, <1>6
<1>8. j + 1 \in 0..last /\ sizes[j] <= sizes[j + 1] /\ sizes[j + 1] \in Nat /\ sizes[j] \in Nat
  BY <1>1, <1>2, <1>7
<1>9. j + 1 \in Larger
  BY <1>1, <1>7, <1>8
<1>10. last - (j + 1) \in Distance
  BY <1>9
<1>11. least <= last - (j + 1)
  BY <1>5, <1>10
<1> QED BY <1>1, <1>6, <1>7, <1>11

(* The size was stepped up from sizes that the keys had filled. *)
Outgrown(i) == 4 * num_keys > 3 * sizes[i]
SizeInv ==
  NULL \notin Value /\ pc # "destroyed" =>
    /\ \A i \in 0..(table_size_index - 1) : Outgrown(i)
    /\ pc = "exit" => Outgrown(NUM_SIZES - 2)

LEMMA SizePut ==
  ASSUME IInv, SizeInv, NULL \notin Value, NEW k \in Key, NEW v \in Value, hashtable_put(k, v)
  PROVE  SizeInv'
<1> DEFINE n == table_size_index
<1>1. /\ n \in 0..(NUM_SIZES - 2) /\ num_keys \in Nat /\ pc = "open" /\ NUM_SIZES \in Nat
      /\ \A i \in 0..(n - 1) : Outgrown(i)
  BY IInvWellFormed, SizesAssumption DEF SizeInv, hashtable_put
<1>2. num_keys' \in Nat /\ num_keys <= num_keys'
  BY <1>1 DEF hashtable_put, CountAfter
<1>3. \A i \in 0..(n - 1) : Outgrown(i)'
  <2>1. ASSUME NEW i \in 0..(n - 1) PROVE Outgrown(i)'
    <3>1. i \in 0..(NUM_SIZES - 1) /\ Outgrown(i)
      BY <1>1
    <3>2. sizes[i] \in Nat
      BY <3>1, SizesAssumption
    <3> QED BY <1>1, <1>2, <3>1, <3>2 DEF Outgrown
  <2> QED BY <2>1
<1>4. CASE n' = n /\ pc' = "open"
  BY <1>3, <1>4 DEF SizeInv
<1>5. CASE n' = n /\ pc' = "exit" /\ AboveHighWaterMark(num_keys') /\ TooBig(n + 1)
  <2>1. n = NUM_SIZES - 2
    BY <1>1, <1>5 DEF TooBig
  <2>2. Outgrown(n)'
    BY <1>5 DEF AboveHighWaterMark, Outgrown
  <2> QED BY <1>3, <1>5, <2>1, <2>2 DEF SizeInv
<1>6. CASE n' = n + 1 /\ pc' = "open" /\ AboveHighWaterMark(num_keys')
  <2>1. 4 * num_keys' > 3 * sizes[n]
    BY <1>6 DEF AboveHighWaterMark
  <2>2. \A i \in 0..(n' - 1) : i = n \/ i \in 0..(n - 1)
    BY <1>1, <1>6
  <2>3. \A i \in 0..(n' - 1) : Outgrown(i)'
    BY <1>3, <2>1, <2>2 DEF Outgrown
  <2>4. pc' # "exit"
    BY <1>6
  <2> QED BY <2>3, <2>4 DEF SizeInv
<1>7. num_keys' = CountAfter(k, v)
  BY DEF hashtable_put
<1> QED BY <1>1, <1>4, <1>5, <1>6, <1>7 DEF hashtable_put

LEMMA SizeStep == IInv /\ SizeInv /\ [Next]_vars => SizeInv'
<1> SUFFICES ASSUME IInv, SizeInv, [Next]_vars, NULL \notin Value PROVE SizeInv'
  BY DEF SizeInv
<1>1. ASSUME NEW k \in Key, NEW v \in Value, hashtable_put(k, v) PROVE SizeInv'
  BY <1>1, SizePut
<1>2. ASSUME UNCHANGED <<table_size_index, num_keys, pc>> PROVE SizeInv'
  BY <1>2 DEF SizeInv, Outgrown
<1>3. CASE hashtable_destroy
  BY <1>3 DEF hashtable_destroy, SizeInv
<1> QED BY <1>1, <1>2, <1>3 DEF Next, vars, Get, hashtable_contains_key, hashtable_foreach

LEMMA SizeInit == Init => SizeInv
<1> SUFFICES ASSUME Init PROVE SizeInv
  OBVIOUS
<1>1. table_size_index = 0 /\ pc = "open" /\ \A i \in 0..(0 - 1) : FALSE
  BY DEF Init
<1> QED BY <1>1 DEF SizeInv

(* Whatever the order of the calls, the keys did not fit in any smaller     *)
(* size; putting values for the same names again never makes the table     *)
(* grow (hashtable.c:96-108, 147-162).                                      *)
THEOREM SizeIsAlwaysNeeded == Spec => []SizeIsNeeded
<1>1. IInv /\ CountInv /\ SizeInv => SizeIsNeeded
  BY DEF CountInv, Counted, SizeInv, Outgrown, SizeIsNeeded
<1> QED BY <1>1, IInvInit, IInvStep, CountInit, CountStep, SizeInit, SizeStep, PTL DEF Spec

(* A table holds what fits in the last size but one, and the process ends   *)
(* for the first key more, and for nothing else (hashtable.c:110-116).      *)
THEOREM CapacityIsAlwaysExact == Spec => []CapacityIsExact
<1>1. IInv /\ CountInv /\ LoadIsBounded /\ SizeInv => CapacityIsExact
  <2> SUFFICES ASSUME IInv, CountInv, LoadIsBounded, SizeInv PROVE CapacityIsExact
    OBVIOUS
  <2>1. ASSUME pc = "open" PROVE Fits
    <3>1. table_size_index \in 0..(NUM_SIZES - 2)
      BY IInvWellFormed
    <3>2. sizes[table_size_index] <= sizes[NUM_SIZES - 2]
      BY <3>1, SizesGrow
    <3>3. sizes[table_size_index] \in Nat /\ sizes[NUM_SIZES - 2] \in Nat
          /\ Cardinality(Entries) \in Nat
      BY <3>1, SizesAssumption, FS_CardinalityType DEF CountInv
    <3> QED BY <2>1, <3>2, <3>3 DEF LoadIsBounded, Fits
  <2>2. ASSUME NULL \notin Value, pc = "exit" PROVE ~ Fits
    <3>1. num_keys = Cardinality(Entries) /\ Outgrown(NUM_SIZES - 2)
      BY <2>2 DEF CountInv, Counted, SizeInv
    <3>2. sizes[NUM_SIZES - 2] \in Nat /\ num_keys \in Nat
      BY SizesAssumption DEF IInv, TypeOK
    <3> QED BY <3>1, <3>2 DEF Outgrown, Fits
  <2> QED BY <2>1, <2>2 DEF CapacityIsExact
<1> QED BY <1>1, LoadIsAlwaysBounded, IInvInit, IInvStep, CountInit, CountStep, SizeInit,
           SizeStep, PTL DEF Spec

-----------------------------------------------------------------------------
(* The table implements the map *)

(* The abstract map looked up is the table looked up. *)
LEMMA AbstractLookup ==
  ASSUME IInv, NEW k \in Key
  PROVE  D!Lookup(k) = hashtable_get(k)
<1>1. CASE \A e \in Entries : e.key # k
  BY <1>1, LookupNull DEF D!Lookup, AbstractMap
<1>2. CASE \E e \in Entries : e.key = k
  BY <1>2 DEF D!Lookup, AbstractMap
<1> QED BY <1>1, <1>2

(* It is made of the entries. *)
MapIsEntries ==
  /\ DOMAIN AbstractMap = {e.key : e \in Entries}
  /\ \A e \in Entries : e.key \in Key /\ AbstractMap[e.key] = e.value
  /\ Entries = {[key |-> k, value |-> AbstractMap[k]] : k \in DOMAIN AbstractMap}

LEMMA AbstractMapIsEntries == IInv => MapIsEntries
<1> SUFFICES ASSUME IInv PROVE MapIsEntries
  OBVIOUS
<1>1. \A e \in Entries : e \in Entry
  BY DEF IInv, TypeOK, Entries
<1>2. \A e \in Entries : e.key \in Key /\ e = [key |-> e.key, value |-> e.value]
  BY <1>1 DEF Entry
<1>3. \A e \in Entries : AbstractMap[e.key] = e.value
  BY <1>2, LookupNull DEF AbstractMap
<1>4. DOMAIN AbstractMap = {e.key : e \in Entries}
  BY DEF AbstractMap
<1>5. Entries = {[key |-> k, value |-> AbstractMap[k]] : k \in {e.key : e \in Entries}}
  BY <1>2, <1>3
<1> QED BY <1>2, <1>3, <1>4, <1>5 DEF MapIsEntries

LEMMA PutImplements ==
  ASSUME IInv, MapIsEntries, MapIsEntries', NEW k \in Key, NEW v \in Value, hashtable_put(k, v)
  PROVE  D!Put(k, v)
<1> DEFINE old == AbstractMap
           new_e == [key |-> k, value |-> v]
           updated == [x \in DOMAIN old \union {k} |-> IF x = k THEN v ELSE old[x]]
<1>1. Entries' = {e \in Entries : e.key # k} \union {new_e}
      /\ new_e.key = k /\ new_e.value = v
  BY PutEffect
<1>2. DOMAIN AbstractMap' = DOMAIN old \union {k}
  <2> HIDE DEF new_e
  <2> QED BY <1>1, ZenonT(30) DEF MapIsEntries
<1>3. ASSUME NEW x \in DOMAIN AbstractMap' PROVE AbstractMap'[x] = updated[x]
  <2>0. DOMAIN AbstractMap' = {e.key : e \in Entries'}
    BY DEF MapIsEntries
  <2>1. PICK e \in Entries' : e.key = x
    BY <1>3, <2>0
  <2>2. AbstractMap'[x] = e.value
    BY <2>1 DEF MapIsEntries
  <2>3. CASE e = new_e
    BY <1>1, <1>2, <1>3, <2>1, <2>2, <2>3
  <2>4. CASE e \in Entries /\ e.key # k
    <3>1. x \in DOMAIN old /\ x # k /\ old[x] = e.value
      BY <2>1, <2>4 DEF MapIsEntries
    <3> QED BY <3>1, <2>2
  <2> QED BY <1>1, <2>1, <2>3, <2>4
<1>4. AbstractMap' = [x \in DOMAIN AbstractMap' |-> AbstractMap'[x]]
  BY DEF AbstractMap
<1>5. AbstractMap' = updated
  BY <1>2, <1>3, <1>4
<1>6. result' = D!Lookup(k)
  BY AbstractLookup DEF hashtable_put
<1> QED BY <1>5, <1>6 DEF hashtable_put, D!Put

LEMMA StepImplements ==
  IInv /\ MapIsEntries /\ MapIsEntries' /\ [Next]_vars => [D!Next]_(D!vars)
<1> SUFFICES ASSUME IInv, MapIsEntries, MapIsEntries', [Next]_vars
             PROVE  [D!Next]_(D!vars)
  OBVIOUS
<1>1. ASSUME UNCHANGED <<table, table_size_index>> PROVE AbstractMap' = AbstractMap
  BY <1>1 DEF AbstractMap, Entries, hashtable_get, find_key
<1>2. ASSUME NEW k \in Key, NEW v \in Value, hashtable_put(k, v) PROVE D!Next
  BY <1>2, PutImplements DEF D!Next
<1>3. ASSUME NEW k \in Key, Get(k) PROVE D!Next
  <2>1. D!Get(k)
    BY <1>1, <1>3, AbstractLookup DEF Get, D!Get
  <2> QED BY <2>1 DEF D!Next
<1>4. ASSUME NEW k \in Key, hashtable_contains_key(k) PROVE D!Next
  <2>1. D!Contains(k)
    BY <1>1, <1>4, AbstractLookup DEF hashtable_contains_key, D!Contains
  <2> QED BY <2>1 DEF D!Next
<1>5. CASE hashtable_foreach
  <2>1. D!ForEach
    BY <1>1, <1>5 DEF hashtable_foreach, D!ForEach, MapIsEntries
  <2> QED BY <2>1 DEF D!Next
<1>6. CASE hashtable_destroy
  <2>1. Entries' = {}
    BY <1>6 DEF hashtable_destroy, Entries
  <2>2. AbstractMap' = << >>
    BY <2>1 DEF AbstractMap
  <2>3. D!Destroy
    BY <1>6, <2>2 DEF hashtable_destroy, D!Destroy
  <2> QED BY <2>3 DEF D!Next
<1>7. CASE UNCHANGED vars
  BY <1>1, <1>7 DEF vars, D!vars
<1> QED BY <1>2, <1>3, <1>4, <1>5, <1>6, <1>7 DEF Next

(* hashtable.c is a map to those who use it (environments, symbol table).   *)
THEOREM TableImplementsDict == Spec => DictSpec
<1>1. Init => D!Init
  <2> SUFFICES ASSUME Init PROVE D!Init
    OBVIOUS
  <2>1. Entries = {}
    BY DEF Init, Entries
  <2>2. AbstractMap = << >>
    BY <2>1 DEF AbstractMap
  <2> QED BY <2>2 DEF Init, D!Init
<1>2. Spec => []IInv
  BY IInvInit, IInvStep, PTL DEF Spec
<1>3. Spec => []MapIsEntries
  BY <1>2, AbstractMapIsEntries, PTL
<1> QED BY <1>1, <1>2, <1>3, StepImplements, PTL DEF Spec, DictSpec, D!Spec

=============================================================================
