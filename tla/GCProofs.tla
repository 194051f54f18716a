------------------------------ MODULE GCProofs ------------------------------
(***************************************************************************)
(* The collector is safe for every set of addresses, every table of types, *)
(* all limits and every number of roots.  CollectionInvariant of GC.tla is *)
(* inductive: a lemma shows for each action that it preserves the types,   *)
(* then one for each action that it preserves the rest.                    *)
(***************************************************************************)
EXTENDS GC, SequenceTheorems, FiniteSetTheorems, TLAPS

-----------------------------------------------------------------------------
(* The elements of a sequence *)

(* The head of a list and the elements of its tail are all of its elements. *)
LEMMA RangeHeadTail ==
  ASSUME NEW S, NEW s \in Seq(S), s # << >>
  PROVE  Range(s) = {Head(s)} \union Range(Tail(s))
<1>1. /\ DOMAIN s = 1..Len(s) /\ Len(s) \in Nat \ {0}
      /\ Tail(s) \in Seq(S) /\ Len(Tail(s)) = Len(s) - 1
      /\ DOMAIN Tail(s) = 1..(Len(s) - 1)
      /\ Head(s) = s[1]
      /\ \A i \in 1..(Len(s) - 1) : Tail(s)[i] = s[i + 1]
  BY HeadTailProperties, EmptySeq, LenProperties
<1>2. ASSUME NEW x \in Range(s) PROVE x \in {Head(s)} \union Range(Tail(s))
  <2>1. PICK i \in 1..Len(s) : x = s[i]
    BY <1>1 DEF Range
  <2>2. CASE i = 1
    BY <2>1, <2>2, <1>1
  <2>3. CASE i # 1
    <3>1. i - 1 \in 1..(Len(s) - 1) /\ x = Tail(s)[i - 1]
      BY <2>1, <2>3, <1>1
    <3> QED BY <3>1, <1>1 DEF Range
  <2> QED BY <2>2, <2>3
<1>3. Head(s) \in Range(s)
  BY <1>1 DEF Range
<1>4. ASSUME NEW x \in Range(Tail(s)) PROVE x \in Range(s)
  <2>1. PICK i \in 1..(Len(s) - 1) : x = Tail(s)[i]
    BY <1>1 DEF Range
  <2>2. i + 1 \in 1..Len(s) /\ x = s[i + 1]
    BY <2>1, <1>1
  <2> QED BY <2>2, <1>1 DEF Range
<1> QED BY <1>2, <1>3, <1>4

LEMMA RangeConcat ==
  ASSUME NEW S, NEW s \in Seq(S), NEW t \in Seq(S)
  PROVE  Range(s \o t) = Range(s) \union Range(t)
<1>1. /\ Len(s) \in Nat /\ Len(t) \in Nat
      /\ DOMAIN s = 1..Len(s) /\ DOMAIN t = 1..Len(t)
      /\ DOMAIN (s \o t) = 1..(Len(s) + Len(t))
      /\ \A i \in 1..(Len(s) + Len(t)) :
           (s \o t)[i] = IF i <= Len(s) THEN s[i] ELSE t[i - Len(s)]
  BY ConcatProperties, LenProperties
<1>2. ASSUME NEW x \in Range(s \o t) PROVE x \in Range(s) \union Range(t)
  <2>1. PICK i \in 1..(Len(s) + Len(t)) : x = (s \o t)[i]
    BY <1>1 DEF Range
  <2>2. CASE i <= Len(s)
    BY <2>1, <2>2, <1>1 DEF Range
  <2>3. CASE ~ (i <= Len(s))
    <3>1. i - Len(s) \in 1..Len(t) /\ x = t[i - Len(s)]
      BY <2>1, <2>3, <1>1
    <3> QED BY <3>1, <1>1 DEF Range
  <2> QED BY <2>2, <2>3
<1>3. ASSUME NEW x \in Range(s) PROVE x \in Range(s \o t)
  <2>1. PICK i \in 1..Len(s) : x = s[i]
    BY <1>1 DEF Range
  <2>2. i \in 1..(Len(s) + Len(t)) /\ x = (s \o t)[i]
    BY <2>1, <1>1
  <2> QED BY <2>2, <1>1 DEF Range
<1>4. ASSUME NEW x \in Range(t) PROVE x \in Range(s \o t)
  <2>1. PICK i \in 1..Len(t) : x = t[i]
    BY <1>1 DEF Range
  <2>2. i + Len(s) \in 1..(Len(s) + Len(t)) /\ x = (s \o t)[i + Len(s)]
    BY <2>1, <1>1
  <2> QED BY <2>2, <1>1 DEF Range
<1> QED BY <1>2, <1>3, <1>4

(* Putting an element at the head adds it to the elements. *)
LEMMA RangeCons ==
  ASSUME NEW S, NEW s \in Seq(S), NEW x \in S
  PROVE  /\ <<x>> \o s \in Seq(S)
         /\ Len(<<x>> \o s) = Len(s) + 1
         /\ Range(<<x>> \o s) = {x} \union Range(s)
<1> DEFINE t == <<x>>
<1>1. t \in Seq(S) /\ Len(t) = 1 /\ Range(t) = {x}
  BY DEF Range
<1> HIDE DEF t
<1>2. Range(t \o s) = {x} \union Range(s)
  BY <1>1, RangeConcat
<1>3. t \o s \in Seq(S) /\ Len(t \o s) = 1 + Len(s)
  BY <1>1, ConcatProperties, ZenonT(30)
<1> QED BY <1>2, <1>3, LenProperties DEF t

(* A list without repetitions, put before one it shares nothing with. *)
LEMMA InjectiveConcat ==
  ASSUME NEW S, NEW s \in Seq(S), NEW t \in Seq(S)
  PROVE  IsInjective(s \o t) <=>
           IsInjective(s) /\ IsInjective(t) /\ Range(s) \intersect Range(t) = {}
<1>1. /\ Len(s) \in Nat /\ Len(t) \in Nat
      /\ DOMAIN s = 1..Len(s) /\ DOMAIN t = 1..Len(t)
      /\ DOMAIN (s \o t) = 1..(Len(s) + Len(t))
  BY ConcatProperties, LenProperties
<1>2. /\ \A i \in 1..Len(s) : i \in 1..(Len(s) + Len(t)) /\ (s \o t)[i] = s[i]
      /\ \A i \in 1..Len(t) : /\ i + Len(s) \in 1..(Len(s) + Len(t))
                              /\ (s \o t)[i + Len(s)] = t[i]
      /\ \A i \in 1..(Len(s) + Len(t)) :
           i \in 1..Len(s) \/ \E j \in 1..Len(t) : i = j + Len(s)
  <2>1. ASSUME NEW i \in 1..(Len(s) + Len(t)), i \notin 1..Len(s)
        PROVE  i - Len(s) \in 1..Len(t) /\ i = (i - Len(s)) + Len(s)
    BY <2>1, <1>1
  <2>2. \A i \in 1..(Len(s) + Len(t)) :
           i \in 1..Len(s) \/ \E j \in 1..Len(t) : i = j + Len(s)
    BY <2>1
  <2>3. \A i \in 1..Len(s) : i \in 1..(Len(s) + Len(t)) /\ (s \o t)[i] = s[i]
    BY <1>1, ConcatProperties
  <2>4. ASSUME NEW i \in 1..Len(t)
        PROVE  i + Len(s) \in 1..(Len(s) + Len(t)) /\ (s \o t)[i + Len(s)] = t[i]
    <3>1. i + Len(s) \in 1..(Len(s) + Len(t)) /\ ~ (i + Len(s) <= Len(s))
      BY <1>1
    <3>2. (s \o t)[i + Len(s)] = t[(i + Len(s)) - Len(s)]
      BY <3>1, ConcatProperties
    <3> QED BY <3>1, <3>2, <1>1
  <2> QED BY <2>2, <2>3, <2>4
<1>3. ASSUME IsInjective(s \o t)
      PROVE  IsInjective(s) /\ IsInjective(t) /\ Range(s) \intersect Range(t) = {}
  <2>1. IsInjective(s)
    BY <1>1, <1>2, <1>3 DEF IsInjective
  <2>2. ASSUME NEW i \in 1..Len(t), NEW j \in 1..Len(t), t[i] = t[j]
        PROVE  i = j
    <3>1. (s \o t)[i + Len(s)] = (s \o t)[j + Len(s)]
      BY <2>2, <1>2
    <3>2. i + Len(s) \in DOMAIN (s \o t) /\ j + Len(s) \in DOMAIN (s \o t)
      BY <1>1, <1>2
    <3>3. i + Len(s) = j + Len(s)
      BY <3>1, <3>2, <1>3 DEF IsInjective
    <3> QED BY <3>3, <1>1
  <2>3. ASSUME NEW x \in Range(s), x \in Range(t) PROVE FALSE
    <3>1. PICK i \in 1..Len(s) : x = s[i]
      BY <1>1 DEF Range
    <3>2. PICK j \in 1..Len(t) : x = t[j]
      BY <1>1, <2>3 DEF Range
    <3>3. i = j + Len(s)
      BY <3>1, <3>2, <1>1, <1>2, <1>3, ZenonT(30) DEF IsInjective
    <3> QED BY <3>3, <1>1
  <2> QED BY <2>1, <2>2, <2>3, <1>1 DEF IsInjective
<1>4. ASSUME IsInjective(s), IsInjective(t), Range(s) \intersect Range(t) = {},
             NEW i \in 1..(Len(s) + Len(t)), NEW j \in 1..(Len(s) + Len(t)),
             (s \o t)[i] = (s \o t)[j]
      PROVE  i = j
  <2>1. CASE i \in 1..Len(s) /\ j \in 1..Len(s)
    BY <2>1, <1>1, <1>2, <1>4 DEF IsInjective
  <2>2. ASSUME NEW k \in 1..Len(s), NEW l \in 1..Len(t) PROVE s[k] # t[l]
    BY <1>1, <1>4 DEF Range
  <2>3. CASE i \in 1..Len(s) /\ \E l \in 1..Len(t) : j = l + Len(s)
    BY <2>2, <2>3, <1>2, <1>4
  <2>4. CASE j \in 1..Len(s) /\ \E l \in 1..Len(t) : i = l + Len(s)
    BY <2>2, <2>4, <1>2, <1>4
  <2>5. ASSUME NEW k \in 1..Len(t), i = k + Len(s), NEW l \in 1..Len(t), j = l + Len(s)
        PROVE  i = j
    <3>1. t[k] = t[l]
      BY <2>5, <1>2, <1>4
    <3> QED BY <3>1, <2>5, <1>1, <1>4 DEF IsInjective
  <2> QED BY <2>1, <2>3, <2>4, <2>5, <1>2
<1> QED BY <1>1, <1>3, <1>4 DEF IsInjective

LEMMA InjectiveCons ==
  ASSUME NEW S, NEW s \in Seq(S), NEW x \in S, IsInjective(s), x \notin Range(s)
  PROVE  IsInjective(<<x>> \o s)
<1> DEFINE t == <<x>>
<1>1. t \in Seq(S) /\ Range(t) = {x} /\ IsInjective(t)
  BY DEF Range, IsInjective
<1>2. Range(t) \intersect Range(s) = {}
  BY <1>1
<1> HIDE DEF t
<1>3. IsInjective(t \o s)
  BY <1>1, <1>2, InjectiveConcat
<1> QED BY <1>3 DEF t

LEMMA InjectiveTail ==
  ASSUME NEW S, NEW s \in Seq(S), s # << >>, IsInjective(s)
  PROVE  IsInjective(Tail(s)) /\ Head(s) \notin Range(Tail(s))
<1>1. /\ DOMAIN s = 1..Len(s) /\ Len(s) \in Nat \ {0}
      /\ DOMAIN Tail(s) = 1..(Len(s) - 1)
      /\ Head(s) = s[1]
      /\ \A i \in 1..(Len(s) - 1) : Tail(s)[i] = s[i + 1] /\ i + 1 \in 1..Len(s)
  BY HeadTailProperties, EmptySeq, LenProperties
<1>2. ASSUME NEW i \in 1..(Len(s) - 1), NEW j \in 1..(Len(s) - 1), Tail(s)[i] = Tail(s)[j]
      PROVE  i = j
  <2>1. i + 1 = j + 1
    BY <1>1, <1>2 DEF IsInjective
  <2> QED BY <2>1
<1>3. ASSUME NEW i \in 1..(Len(s) - 1), Head(s) = Tail(s)[i] PROVE FALSE
  <2>1. 1 = i + 1
    BY <1>1, <1>3 DEF IsInjective
  <2> QED BY <2>1
<1> QED BY <1>1, <1>2, <1>3 DEF IsInjective, Range

-----------------------------------------------------------------------------
(* Targets *)

LEMMA TargetsHeadTail ==
  ASSUME NEW s \in Seq(Ptr), s # << >>
  PROVE  Targets(s) = Targets(Tail(s)) \union ({Head(s)} \ {NULL})
BY RangeHeadTail DEF Targets

LEMMA TargetsConcat ==
  ASSUME NEW s \in Seq(Ptr), NEW t \in Seq(Ptr)
  PROVE  Targets(s \o t) = Targets(s) \union Targets(t)
BY RangeConcat DEF Targets

LEMMA TargetsCons ==
  ASSUME NEW s \in Seq(Ptr), NEW p \in Ptr
  PROVE  Targets(<<p>> \o s) = Targets(s) \union ({p} \ {NULL})
<1>1. Range(<<p>> \o s) = {p} \union Range(s)
  BY RangeCons
<1> QED BY <1>1 DEF Targets

LEMMA TargetsAreAddresses ==
  ASSUME NEW s \in Seq(Ptr)
  PROVE  Targets(s) \subseteq Addr
BY LenProperties, ElementOfSeq DEF Targets, Range, Ptr

(* Overwriting one pointer of an object adds at most the new one. *)
LEMMA TargetsExcept ==
  ASSUME NEW s \in Seq(Ptr), NEW i \in DOMAIN s, NEW p \in Ptr
  PROVE  /\ [s EXCEPT ![i] = p] \in Seq(Ptr)
         /\ Len([s EXCEPT ![i] = p]) = Len(s)
         /\ Targets([s EXCEPT ![i] = p]) \subseteq Targets(s) \union ({p} \ {NULL})
<1>1. DOMAIN s = 1..Len(s)
  BY LenProperties
<1>2. /\ [s EXCEPT ![i] = p] \in Seq(Ptr)
      /\ Len([s EXCEPT ![i] = p]) = Len(s)
  BY <1>1, ExceptSeq
<1> QED BY <1>1, <1>2 DEF Targets, Range

(* The pointers of a fresh object, all of them NULL, lead nowhere. *)
LEMMA TargetsOfZeroes ==
  ASSUME NEW n \in Nat
  PROVE  /\ [i \in 1..n |-> NULL] \in Seq(Ptr)
         /\ Targets([i \in 1..n |-> NULL]) = {}
<1>1. [i \in 1..n |-> NULL] \in [1..n -> Ptr]
  BY DEF Ptr
<1> QED BY <1>1, SeqDef DEF Targets, Range

-----------------------------------------------------------------------------
(* Reachability *)

(* The reachable objects are closed and contain the targets of the start. *)
LEMMA ReachableClosed ==
  ASSUME NEW edges \in [Addr -> Seq(Ptr)], NEW start \in Seq(Ptr)
  PROVE  /\ Targets(start) \subseteq Reachable(edges, start)
         /\ Closed(edges, Reachable(edges, start))
         /\ Reachable(edges, start) \subseteq Addr
<1>1. Targets(start) \subseteq Reachable(edges, start)
  BY TargetsAreAddresses DEF Reachable
<1>2. ASSUME NEW a \in Reachable(edges, start) PROVE Targets(edges[a]) \subseteq Reachable(edges, start)
  <2>1. a \in Addr /\ Targets(edges[a]) \subseteq Addr
    BY TargetsAreAddresses DEF Reachable
  <2> QED BY <2>1 DEF Reachable, Closed
<1> QED BY <1>1, <1>2 DEF Closed, Reachable

(* They are the least such set. *)
LEMMA ReachableLeast ==
  ASSUME NEW edges, NEW start, NEW S \in SUBSET Addr,
         Targets(start) \subseteq S, Closed(edges, S)
  PROVE  Reachable(edges, start) \subseteq S
BY DEF Reachable

(* Only the pointers of reachable objects matter to what is reachable. *)
LEMMA ReachableLocal ==
  ASSUME NEW edges \in [Addr -> Seq(Ptr)], NEW others \in [Addr -> Seq(Ptr)],
         NEW start \in Seq(Ptr),
         \A a \in Reachable(edges, start) : others[a] = edges[a]
  PROVE  Reachable(others, start) = Reachable(edges, start)
<1> DEFINE R == Reachable(edges, start)
           O == Reachable(others, start)
<1>1. O \subseteq R
  <2>1. Closed(others, R)
    BY ReachableClosed DEF Closed
  <2> QED BY <2>1, ReachableClosed, ReachableLeast
<1>2. R \subseteq O
  <2>1. Targets(start) \subseteq O /\ Closed(others, O) /\ O \subseteq Addr
    BY ReachableClosed
  <2>2. Closed(edges, O)
    BY <1>1, <2>1 DEF Closed
  <2> HIDE DEF O, R
  <2>3. Reachable(edges, start) \subseteq O
    BY <2>1, <2>2, ReachableLeast
  <2> QED BY <2>3 DEF R
<1> QED BY <1>1, <1>2

-----------------------------------------------------------------------------
(* Types *)

LEMMA TypeInit == Init => TypeOK
<1> SUFFICES ASSUME Init PROVE TypeOK
  OBVIOUS
<1>1. << >> \in Seq(Ptr) /\ << >> \in Seq(Addr)
  OBVIOUS
<1> QED BY <1>1 DEF Init, TypeOK, mem_mix

LEMMA TypeStep ==
  ASSUME CollectionInvariant, [Next]_vars
  PROVE  TypeOK'
<1> USE DEF CollectionInvariant
<1>1. TypeOK
  OBVIOUS
<1>2. ASSUME NEW t \in Types, AllocDirect(t) PROVE TypeOK'
  BY <1>1, <1>2 DEF TypeOK, AllocDirect, objects, counters, scratch
<1>3. ASSUME NEW t \in Types, AllocCollect(t) PROVE TypeOK'
  BY <1>1, <1>3 DEF TypeOK, AllocCollect, objects, counters
<1>4. CASE MarkReturn
  BY <1>1, <1>4, HeadTailProperties DEF TypeOK, MarkReturn, objects, counters
<1>5. CASE MarkEntry
  <2>1. Head(todo) \in Addr /\ Tail(todo) \in Seq(Ptr)
    BY <1>1, <1>5, HeadTailProperties DEF TypeOK, MarkEntry, Ptr
  <2>2. ptrs[Head(todo)] \o Tail(todo) \in Seq(Ptr)
    BY <1>1, <2>1, ConcatProperties DEF TypeOK
  <2> QED BY <1>1, <1>5, <2>1, <2>2 DEF TypeOK, MarkEntry, counters
<1>6. CASE SweepStart
  BY <1>1, <1>6 DEF TypeOK, SweepStart, objects, counters
<1>7. CASE SweepFree
  <2>1. Head(le) \in Addr /\ Tail(le) \in Seq(Addr)
    BY <1>1, <1>7, HeadTailProperties DEF TypeOK, SweepFree
  <2>2. Head(le) \in Range(le \o new_list)
    BY <1>1, <1>7, RangeHeadTail, RangeConcat DEF TypeOK, SweepFree
  <2>3. kind[Head(le)] \in Types
    BY <1>7, <2>2 DEF SweepFree, ListsHoldTheObjects, HeadersAreValid
  <2>4. Size[kind[Head(le)]] \in Nat
    BY <2>3, TypesAssumption
  <2>5. << >> \in Seq(Ptr)
    OBVIOUS
  <2> QED BY <1>1, <1>7, <2>1, <2>4, <2>5, SMTT(30) DEF TypeOK, SweepFree
<1>8. CASE SweepKeep
  <2>1. Head(le) \in Addr /\ Tail(le) \in Seq(Addr)
    BY <1>1, <1>8, HeadTailProperties DEF TypeOK, SweepKeep
  <2>2. <<Head(le)>> \o new_list \in Seq(Addr)
    BY <1>1, <2>1, RangeCons DEF TypeOK
  <2> QED BY <1>1, <1>8, <2>1, <2>2 DEF TypeOK, SweepKeep, objects, counters
<1>9. CASE SweepDone
  BY <1>1, <1>9 DEF TypeOK, SweepDone, swap_marks, unmarked, objects, counters
<1>10. ASSUME NEW a \in Addr, NewObject(a) PROVE TypeOK'
  <2>1. request \in Types
    BY <1>10 DEF NewObject, CallIsValid
  <2>2. Size[request] \in Nat /\ Fields[request] \in Nat
    BY <2>1, TypesAssumption
  <2>3. [i \in 1..Fields[request] |-> NULL] \in Seq(Ptr)
    BY <2>2, TargetsOfZeroes
  <2>4. <<a>> \o active_list \in Seq(Addr)
    BY <1>1, RangeCons DEF TypeOK
  <2> QED BY <1>1, <1>10, <2>1, <2>2, <2>3, <2>4 DEF TypeOK, NewObject, unmarked, scratch
<1>11. CASE OutOfMemory
  BY <1>1, <1>11 DEF TypeOK, OutOfMemory, objects, counters, scratch
<1>12. ASSUME NEW p \in Ptr, gc_push_root(p) PROVE TypeOK'
  <2>1. <<p>> \o roots \in Seq(Ptr)
    BY <1>1, RangeCons DEF TypeOK
  <2> QED BY <1>1, <1>12, <2>1 DEF TypeOK, gc_push_root, objects, counters, scratch
<1>13. CASE gc_pop_root
  <2>1. Len(roots) \in Nat \ {0} /\ num_roots = Len(roots)
    BY <1>1, <1>13, EmptySeq DEF TypeOK, gc_pop_root, CountsAreExact
  <2>2. Tail(roots) \in Seq(Ptr)
    BY <1>1, <1>13, HeadTailProperties DEF TypeOK, gc_pop_root
  <2> QED BY <1>1, <1>13, <2>1, <2>2 DEF TypeOK, gc_pop_root, objects, counters, scratch
<1>14. ASSUME NEW p \in Ptr, NEW i \in DOMAIN roots, AssignRoot(i, p) PROVE TypeOK'
  <2>1. [roots EXCEPT ![i] = p] \in Seq(Ptr)
    BY <1>1, TargetsExcept DEF TypeOK
  <2> QED BY <1>1, <1>14, <2>1 DEF TypeOK, AssignRoot, objects, counters, scratch
<1>15. ASSUME NEW a \in Addr, NEW p \in Ptr, NEW i \in DOMAIN ptrs[a], WriteField(a, i, p)
       PROVE  TypeOK'
  <2>1. [ptrs[a] EXCEPT ![i] = p] \in Seq(Ptr)
    BY <1>1, TargetsExcept DEF TypeOK
  <2> QED BY <1>1, <1>15, <2>1 DEF TypeOK, WriteField, counters, scratch
<1>16. CASE UNCHANGED vars
  BY <1>1, <1>16 DEF TypeOK, vars
<1> QED BY <1>2, <1>3, <1>4, <1>5, <1>6, <1>7, <1>8, <1>9, <1>10, <1>11, <1>12,
           <1>13, <1>14, <1>15, <1>16 DEF Next, Collector, Client

-----------------------------------------------------------------------------
(* What the invariant says outside a sweep and during one *)

LEMMA InvariantOutsideSweep ==
  ASSUME CollectionInvariant, pc # "sweep"
  PROVE  /\ Range(active_list) = Allocated /\ IsInjective(active_list)
         /\ Closed(ptrs, Allocated)
         /\ Targets(roots) \subseteq Allocated
BY DEF CollectionInvariant, ListsHoldTheObjects, NoPointerDangles

LEMMA InvariantInSweep ==
  ASSUME CollectionInvariant, pc = "sweep"
  PROVE  /\ Range(le) \union Range(new_list) = Allocated
         /\ Range(le) \intersect Range(new_list) = {}
         /\ IsInjective(le) /\ IsInjective(new_list)
         /\ Marked = Reachable(ptrs, roots)
         /\ Range(new_list) \subseteq Marked
BY RangeConcat, InjectiveConcat
   DEF CollectionInvariant, TypeOK, ListsHoldTheObjects, SweepingIsSafe

(* Marked objects are allocated: no mark is the value checked_free leaves. *)
LEMMA MarkedIsAllocated ==
  ASSUME TypeOK
  PROVE  Marked \subseteq Allocated
BY DEF TypeOK, Marked, Allocated, mem_mix

LEMMA AllocatedIsFinite ==
  ASSUME CollectionInvariant
  PROVE  IsFiniteSet(Allocated)
<1> DEFINE list == IF pc = "sweep" THEN le \o new_list ELSE active_list
<1>1. list \in Seq(Addr) /\ Range(list) = Allocated
  BY ConcatProperties DEF CollectionInvariant, TypeOK, ListsHoldTheObjects
<1> HIDE DEF list
<1>2. DOMAIN list = 1..Len(list) /\ Len(list) \in Nat
  BY <1>1, LenProperties
<1>3. list \in [1..Len(list) -> Range(list)]
  BY <1>1, LenProperties DEF Range
<1>4. list \in Seq(Range(list))
  BY <1>2, <1>3, SeqDef
<1> QED BY <1>1, <1>2, <1>4 DEF IsFiniteSet, Range

-----------------------------------------------------------------------------
(* The steps of the collector *)

LEMMA AllocDirectStep ==
  ASSUME CollectionInvariant, TypeOK', NEW t \in Types, AllocDirect(t)
  PROVE  CollectionInvariant'
BY DEF CollectionInvariant, AllocDirect, objects, counters, scratch, Allocated, Marked,
       HeadersAreValid, CallIsValid, ListsHoldTheObjects, CountsAreExact,
       NoneMarkedBetweenCollections, NoPointerDangles, MarkingIsOnTrack, SweepingIsSafe

(* No object is marked and all the roots are still to be visited. *)
LEMMA AllocCollectStep ==
  ASSUME CollectionInvariant, TypeOK', NEW t \in Types, AllocCollect(t)
  PROVE  CollectionInvariant'
<1>1. pc = "client" /\ pc' = "mark" /\ request' = t /\ todo' = roots
      /\ UNCHANGED <<mark, kind, ptrs, current_mark, active_list, roots, num_roots,
                     num_active_objs>>
  BY DEF AllocCollect, objects, counters
<1>2. Marked = {} /\ Marked' = {} /\ Allocated' = Allocated
  BY <1>1 DEF CollectionInvariant, NoneMarkedBetweenCollections, Marked, Allocated
<1>3. MarkingIsOnTrack'
  <2>1. Targets(roots) \subseteq Allocated
    BY <1>1, InvariantOutsideSweep
  <2>2. Targets(roots) \subseteq Reachable(ptrs, roots)
    BY ReachableClosed DEF CollectionInvariant, TypeOK
  <2> QED BY <1>1, <1>2, <2>1, <2>2 DEF MarkingIsOnTrack
<1> QED BY <1>1, <1>2, <1>3 DEF CollectionInvariant, HeadersAreValid, CallIsValid,
      ListsHoldTheObjects, CountsAreExact, NoneMarkedBetweenCollections,
      NoPointerDangles, SweepingIsSafe

LEMMA MarkReturnStep ==
  ASSUME CollectionInvariant, TypeOK', MarkReturn
  PROVE  CollectionInvariant'
<1>1. pc = "mark" /\ todo # << >> /\ todo' = Tail(todo)
      /\ Head(todo) \in Marked \union {NULL}
      /\ UNCHANGED <<mark, kind, ptrs, current_mark, active_list, roots, num_roots,
                     num_active_objs, pc, request, le, new_list>>
  BY DEF MarkReturn, objects, counters
<1>2. Marked' = Marked /\ Allocated' = Allocated
  BY <1>1 DEF Marked, Allocated
<1>3. Targets(todo) = Targets(Tail(todo)) \union ({Head(todo)} \ {NULL})
  BY <1>1, TargetsHeadTail DEF CollectionInvariant, TypeOK
<1>4. Marked' \union Targets(todo') = Marked \union Targets(todo)
  BY <1>1, <1>2, <1>3
<1>5. MarkingIsOnTrack'
  BY <1>1, <1>2, <1>3, <1>4 DEF CollectionInvariant, MarkingIsOnTrack
<1> QED BY <1>1, <1>2, <1>5 DEF CollectionInvariant, HeadersAreValid, CallIsValid,
      ListsHoldTheObjects, CountsAreExact, NoneMarkedBetweenCollections,
      NoPointerDangles, SweepingIsSafe

(* The object goes from the work to the marked, and its pointers join the *)
(* work: what is covered grows by targets of a reachable object only.     *)
LEMMA MarkEntryStep ==
  ASSUME CollectionInvariant, TypeOK', MarkEntry
  PROVE  CollectionInvariant' /\ Allocated' = Allocated
<1> DEFINE e == Head(todo)
<1>1. pc = "mark" /\ todo # << >> /\ todo' = ptrs[e] \o Tail(todo)
      /\ e # NULL /\ mark[e] # current_mark
      /\ mark' = [mark EXCEPT ![e] = current_mark]
      /\ UNCHANGED <<kind, ptrs, current_mark, active_list, roots, num_roots,
                     num_active_objs, pc, request, le, new_list>>
  BY DEF MarkEntry, objects, counters
<1>2. TypeOK
  BY DEF CollectionInvariant
<1>3. e \in Addr /\ Tail(todo) \in Seq(Ptr) /\ ptrs[e] \in Seq(Ptr)
  BY <1>1, <1>2, HeadTailProperties DEF TypeOK, Ptr
<1>4. Targets(todo) = Targets(Tail(todo)) \union {e}
  BY <1>1, <1>2, TargetsHeadTail DEF TypeOK
<1>5. Targets(todo') = Targets(ptrs[e]) \union Targets(Tail(todo))
  BY <1>1, <1>3, TargetsConcat
<1>6. Targets(todo) \subseteq Allocated /\ Targets(roots) \subseteq Marked \union Targets(todo)
      /\ (\A a \in Marked : Targets(ptrs[a]) \subseteq Marked \union Targets(todo))
      /\ Marked \union Targets(todo) \subseteq Reachable(ptrs, roots)
  BY <1>1 DEF CollectionInvariant, MarkingIsOnTrack
<1>7. Marked' = Marked \union {e} /\ Allocated' = Allocated
  <2>1. e \in Allocated
    BY <1>4, <1>6
  <2>2. current_mark # mem_mix
    BY <1>2 DEF TypeOK, mem_mix
  <2> HIDE DEF e
  <2>3. \A a \in Addr : mark'[a] = IF a = e THEN current_mark ELSE mark[a]
    BY <1>1, <1>2, <1>3 DEF TypeOK
  <2> QED BY <1>1, <1>3, <2>1, <2>2, <2>3 DEF Marked, Allocated
<1>8. Targets(ptrs[e]) \subseteq Allocated
  BY <1>1, <1>4, <1>6, InvariantOutsideSweep DEF Closed
<1>9. Targets(ptrs[e]) \subseteq Reachable(ptrs, roots)
  BY <1>2, <1>4, <1>6, ReachableClosed DEF Closed, TypeOK
<1>10. MarkingIsOnTrack'
  <2> HIDE DEF e
  <2>1. Targets(todo') \subseteq Allocated'
    BY <1>4, <1>5, <1>6, <1>7, <1>8
  <2>2. Targets(roots') \subseteq Marked' \union Targets(todo')
    BY <1>1, <1>4, <1>5, <1>6, <1>7
  <2>3. \A a \in Marked' : Targets(ptrs'[a]) \subseteq Marked' \union Targets(todo')
    BY <1>1, <1>4, <1>5, <1>6, <1>7
  <2>4. Marked' \union Targets(todo') \subseteq Reachable(ptrs', roots')
    BY <1>1, <1>4, <1>5, <1>6, <1>7, <1>9
  <2> QED BY <2>1, <2>2, <2>3, <2>4 DEF MarkingIsOnTrack
<1> QED BY <1>1, <1>7, <1>10 DEF CollectionInvariant, HeadersAreValid, CallIsValid,
      ListsHoldTheObjects, CountsAreExact, NoneMarkedBetweenCollections,
      NoPointerDangles, SweepingIsSafe

(* No work is left, so the marked objects are closed: they are exactly the *)
(* reachable ones.                                                         *)
LEMMA SweepStartStep ==
  ASSUME CollectionInvariant, TypeOK', SweepStart
  PROVE  CollectionInvariant'
<1>1. pc = "mark" /\ todo = << >> /\ pc' = "sweep" /\ le' = active_list /\ new_list' = << >>
      /\ UNCHANGED <<mark, kind, ptrs, current_mark, active_list, roots, num_roots,
                     num_active_objs, request, todo>>
  BY DEF SweepStart, objects, counters
<1>2. Marked' = Marked /\ Allocated' = Allocated
  BY <1>1 DEF Marked, Allocated
<1>3. Range(<< >>) = {} /\ Targets(<< >>) = {}
  BY DEF Range, Targets
<1>4. Marked = Reachable(ptrs, roots)
  <2>1. /\ Targets(roots) \subseteq Marked
        /\ Closed(ptrs, Marked)
        /\ Marked \subseteq Reachable(ptrs, roots)
    BY <1>1, <1>3 DEF CollectionInvariant, MarkingIsOnTrack, Closed
  <2>2. Marked \in SUBSET Addr
    BY DEF Marked
  <2> QED BY <2>1, <2>2, ReachableLeast
<1>5. ListsHoldTheObjects'
  <2>1. le' \o new_list' = active_list
    BY <1>1, ConcatEmptySeq DEF CollectionInvariant, TypeOK
  <2> QED BY <1>1, <1>2, <2>1, InvariantOutsideSweep DEF ListsHoldTheObjects
<1> QED BY <1>1, <1>2, <1>3, <1>4, <1>5 DEF CollectionInvariant, HeadersAreValid,
      CallIsValid, CountsAreExact, NoneMarkedBetweenCollections, NoPointerDangles,
      MarkingIsOnTrack, SweepingIsSafe

(* What is freed is unmarked, hence unreachable, so that nothing reachable *)
(* changes.                                                                *)
LEMMA SweepFreeStep ==
  ASSUME CollectionInvariant, TypeOK', SweepFree
  PROVE  /\ CollectionInvariant'
         /\ Marked' = Marked
         /\ \A a \in Marked : ptrs'[a] = ptrs[a]
<1> DEFINE e == Head(le)
<1>1. pc = "sweep" /\ le # << >> /\ mark[e] # current_mark
      /\ mark' = [mark EXCEPT ![e] = mem_mix]
      /\ kind' = [kind EXCEPT ![e] = NULL]
      /\ ptrs' = [ptrs EXCEPT ![e] = << >>]
      /\ num_active_objs' = num_active_objs - 1
      /\ le' = Tail(le)
      /\ UNCHANGED <<current_mark, active_list, roots, num_roots, pc, request, todo, new_list>>
  BY DEF SweepFree
<1>2. TypeOK
  BY DEF CollectionInvariant
<1>3. e \in Addr /\ Tail(le) \in Seq(Addr) /\ Range(le) = {e} \union Range(Tail(le))
  BY <1>1, <1>2, HeadTailProperties, RangeHeadTail DEF TypeOK
<1>4. IsInjective(Tail(le)) /\ e \notin Range(Tail(le))
  BY <1>1, <1>2, InvariantInSweep, InjectiveTail DEF TypeOK
<1>5. /\ Range(le) \union Range(new_list) = Allocated
      /\ Range(le) \intersect Range(new_list) = {}
      /\ IsInjective(new_list)
      /\ Marked = Reachable(ptrs, roots)
      /\ Range(new_list) \subseteq Marked
  BY <1>1, InvariantInSweep
<1> HIDE DEF e
<1>6. /\ \A a \in Addr : mark'[a] = IF a = e THEN mem_mix ELSE mark[a]
      /\ \A a \in Addr : kind'[a] = IF a = e THEN NULL ELSE kind[a]
      /\ \A a \in Addr : ptrs'[a] = IF a = e THEN << >> ELSE ptrs[a]
  BY <1>1, <1>2, <1>3 DEF TypeOK
<1>7. current_mark # mem_mix
  BY <1>2 DEF TypeOK, mem_mix
<1>8. Marked' = Marked /\ e \notin Marked
  BY <1>1, <1>3, <1>6, <1>7 DEF Marked
<1>9. Allocated' = Allocated \ {e} /\ e \in Allocated
  BY <1>1, <1>3, <1>5, <1>6 DEF Allocated
<1>10. Reachable(ptrs', roots') = Reachable(ptrs, roots)
  <2>1. \A a \in Reachable(ptrs, roots) : ptrs'[a] = ptrs[a]
    BY <1>5, <1>6, <1>8 DEF Marked
  <2>2. roots' = roots
    BY <1>1
  <2> QED BY <1>2, <2>1, <2>2, ReachableLocal DEF TypeOK
<1>11. ListsHoldTheObjects'
  <2>1. Range(le') \union Range(new_list') = Allocated'
    BY <1>1, <1>3, <1>4, <1>5, <1>9
  <2>2. Range(le') \intersect Range(new_list') = {}
    BY <1>1, <1>3, <1>5
  <2>3. le' \in Seq(Addr) /\ new_list' \in Seq(Addr)
        /\ IsInjective(le') /\ IsInjective(new_list')
    BY <1>1, <1>2, <1>3, <1>4, <1>5 DEF TypeOK
  <2>4. Range(le' \o new_list') = Range(le') \union Range(new_list')
    BY <2>3, RangeConcat
  <2>5. IsInjective(le' \o new_list')
    BY <2>2, <2>3, InjectiveConcat
  <2> QED BY <1>1, <2>1, <2>4, <2>5 DEF ListsHoldTheObjects
<1>12. CountsAreExact'
  <2>1. Cardinality(Allocated') = Cardinality(Allocated) - 1
    BY <1>9, AllocatedIsFinite, FS_RemoveElement
  <2> QED BY <1>1, <2>1 DEF CollectionInvariant, CountsAreExact
<1>13. HeadersAreValid'
  BY <1>6, <1>9 DEF CollectionInvariant, HeadersAreValid, Allocated
<1>14. SweepingIsSafe'
  BY <1>1, <1>5, <1>8, <1>10 DEF SweepingIsSafe
<1>15. \A a \in Marked : ptrs'[a] = ptrs[a]
  BY <1>6, <1>8 DEF Marked
<1> QED BY <1>1, <1>8, <1>11, <1>12, <1>13, <1>14, <1>15 DEF CollectionInvariant,
      CallIsValid, NoneMarkedBetweenCollections, NoPointerDangles, MarkingIsOnTrack

LEMMA SweepKeepStep ==
  ASSUME CollectionInvariant, TypeOK', SweepKeep
  PROVE  CollectionInvariant'
<1> DEFINE e == Head(le)
<1>1. pc = "sweep" /\ le # << >> /\ mark[e] = current_mark
      /\ new_list' = <<e>> \o new_list /\ le' = Tail(le)
      /\ UNCHANGED <<mark, kind, ptrs, current_mark, active_list, roots, num_roots,
                     num_active_objs, pc, request, todo>>
  BY DEF SweepKeep, objects, counters
<1>2. Marked' = Marked /\ Allocated' = Allocated
  BY <1>1 DEF Marked, Allocated
<1>3. TypeOK
  BY DEF CollectionInvariant
<1>4. e \in Addr /\ Tail(le) \in Seq(Addr) /\ Range(le) = {e} \union Range(Tail(le))
      /\ e \in Marked
  BY <1>1, <1>3, HeadTailProperties, RangeHeadTail DEF TypeOK, Marked
<1>5. IsInjective(Tail(le)) /\ e \notin Range(Tail(le))
  BY <1>1, <1>3, InvariantInSweep, InjectiveTail DEF TypeOK
<1>6. /\ Range(le) \union Range(new_list) = Allocated
      /\ Range(le) \intersect Range(new_list) = {}
      /\ IsInjective(new_list)
      /\ Marked = Reachable(ptrs, roots)
      /\ Range(new_list) \subseteq Marked
  BY <1>1, InvariantInSweep
<1> HIDE DEF e
<1>7. /\ new_list' \in Seq(Addr) /\ Range(new_list') = {e} \union Range(new_list)
      /\ IsInjective(new_list')
  BY <1>1, <1>3, <1>4, <1>6, RangeCons, InjectiveCons DEF TypeOK
<1>8. ListsHoldTheObjects'
  <2>1. /\ Range(le') \union Range(new_list') = Allocated'
        /\ Range(le') \intersect Range(new_list') = {}
    BY <1>1, <1>2, <1>4, <1>5, <1>6, <1>7
  <2>2. le' \in Seq(Addr) /\ new_list' \in Seq(Addr)
        /\ IsInjective(le') /\ IsInjective(new_list')
    BY <1>1, <1>4, <1>5, <1>7
  <2>3. Range(le' \o new_list') = Range(le') \union Range(new_list')
    BY <2>2, RangeConcat
  <2>4. IsInjective(le' \o new_list')
    BY <2>1, <2>2, InjectiveConcat
  <2> QED BY <1>1, <2>1, <2>3, <2>4 DEF ListsHoldTheObjects
<1>9. SweepingIsSafe'
  BY <1>1, <1>2, <1>4, <1>6, <1>7 DEF SweepingIsSafe
<1> QED BY <1>1, <1>2, <1>8, <1>9 DEF CollectionInvariant, HeadersAreValid, CallIsValid,
      CountsAreExact, NoneMarkedBetweenCollections, NoPointerDangles, MarkingIsOnTrack

(* All that is left is marked and on the new list; swapping the meaning of *)
(* the two marks unmarks it.                                               *)
LEMMA SweepDoneStep ==
  ASSUME CollectionInvariant, TypeOK', SweepDone
  PROVE  CollectionInvariant' /\ Allocated' = Allocated /\ Marked = Allocated
<1>1. pc = "sweep" /\ le = << >> /\ pc' = "alloc" /\ active_list' = new_list
      /\ current_mark' = unmarked(current_mark)
      /\ UNCHANGED <<mark, kind, ptrs, roots, num_roots, num_active_objs, request, todo, le>>
  BY DEF SweepDone, swap_marks, objects, counters
<1>2. TypeOK
  BY DEF CollectionInvariant
<1>3. Allocated' = Allocated
  BY <1>1 DEF Allocated
<1>4. Range(<< >>) = {}
  BY DEF Range
<1>5. Range(new_list) = Allocated /\ IsInjective(new_list) /\ Marked = Allocated
      /\ Marked = Reachable(ptrs, roots)
  BY <1>1, <1>2, <1>4, InvariantInSweep, MarkedIsAllocated
<1>6. Marked' = {}
  <2>1. \A a \in Addr : mark[a] = current_mark \/ mark[a] = mem_mix
    BY <1>5 DEF Marked, Allocated
  <2>2. current_mark' # current_mark /\ current_mark' # mem_mix
    BY <1>1, <1>2 DEF TypeOK, unmarked, mem_mix
  <2> QED BY <1>1, <2>1, <2>2 DEF Marked
<1>7. NoPointerDangles'
  BY <1>1, <1>2, <1>3, <1>5, ReachableClosed DEF NoPointerDangles, TypeOK
<1>8. ListsHoldTheObjects'
  BY <1>1, <1>3, <1>5 DEF ListsHoldTheObjects
<1> QED BY <1>1, <1>3, <1>5, <1>6, <1>7, <1>8 DEF CollectionInvariant, HeadersAreValid,
      CallIsValid, CountsAreExact, NoneMarkedBetweenCollections, MarkingIsOnTrack,
      SweepingIsSafe

(* A new object carries the other mark and points nowhere. *)
LEMMA NewObjectStep ==
  ASSUME CollectionInvariant, TypeOK', NEW a \in Addr, NewObject(a)
  PROVE  CollectionInvariant' /\ Allocated' = Allocated \union {a}
<1>1. pc = "alloc" /\ pc' = "client" /\ a \notin Allocated
      /\ mark' = [mark EXCEPT ![a] = unmarked(current_mark)]
      /\ kind' = [kind EXCEPT ![a] = request]
      /\ ptrs' = [ptrs EXCEPT ![a] = [i \in 1..Fields[request] |-> NULL]]
      /\ active_list' = <<a>> \o active_list
      /\ num_active_objs' = num_active_objs + 1
      /\ UNCHANGED <<current_mark, roots, num_roots, todo, le, new_list>>
  BY DEF NewObject, scratch
<1>2. TypeOK /\ request \in Types /\ Fields[request] \in Nat
  BY <1>1, TypesAssumption DEF CollectionInvariant, CallIsValid
<1>3. unmarked(current_mark) # current_mark /\ unmarked(current_mark) # mem_mix
      /\ current_mark # mem_mix
  BY <1>2 DEF TypeOK, unmarked, mem_mix
<1>4. /\ \A b \in Addr : mark'[b] = IF b = a THEN unmarked(current_mark) ELSE mark[b]
      /\ \A b \in Addr : kind'[b] = IF b = a THEN request ELSE kind[b]
      /\ \A b \in Addr : ptrs'[b] = IF b = a THEN [i \in 1..Fields[request] |-> NULL]
                                             ELSE ptrs[b]
  BY <1>1, <1>2 DEF TypeOK
<1>5. Allocated' = Allocated \union {a}
  BY <1>3, <1>4 DEF Allocated
<1>6. Marked = {} /\ Marked' = {}
  <2>1. Marked = {}
    BY <1>1 DEF CollectionInvariant, NoneMarkedBetweenCollections
  <2> QED BY <2>1, <1>1, <1>3, <1>4 DEF Marked
<1>7. Targets(ptrs'[a]) = {}
  BY <1>2, <1>4, TargetsOfZeroes
<1>8. NoPointerDangles'
  <2>1. \A b \in Allocated : Targets(ptrs'[b]) \subseteq Allocated
    BY <1>1, <1>4, InvariantOutsideSweep DEF Closed, Allocated
  <2> QED BY <1>1, <1>5, <1>7, <2>1, InvariantOutsideSweep DEF NoPointerDangles, Closed
<1>9. ListsHoldTheObjects'
  <2>1. Range(active_list) = Allocated /\ IsInjective(active_list)
    BY <1>1, InvariantOutsideSweep
  <2>2. Range(active_list') = {a} \union Range(active_list) /\ IsInjective(active_list')
    BY <1>1, <1>2, <2>1, RangeCons, InjectiveCons DEF TypeOK
  <2> QED BY <1>1, <1>5, <2>1, <2>2 DEF ListsHoldTheObjects
<1>10. CountsAreExact'
  <2>1. Cardinality(Allocated') = Cardinality(Allocated) + 1
    BY <1>1, <1>5, AllocatedIsFinite, FS_AddElement
  <2> QED BY <1>1, <2>1 DEF CollectionInvariant, CountsAreExact
<1>11. HeadersAreValid'
  BY <1>2, <1>4, <1>5 DEF CollectionInvariant, HeadersAreValid, Allocated
<1> QED BY <1>1, <1>5, <1>6, <1>8, <1>9, <1>10, <1>11 DEF CollectionInvariant,
      CallIsValid, NoneMarkedBetweenCollections, MarkingIsOnTrack, SweepingIsSafe

LEMMA OutOfMemoryStep ==
  ASSUME CollectionInvariant, TypeOK', OutOfMemory
  PROVE  CollectionInvariant'
BY DEF CollectionInvariant, OutOfMemory, objects, counters, scratch, Allocated, Marked,
       HeadersAreValid, CallIsValid, ListsHoldTheObjects, CountsAreExact,
       NoneMarkedBetweenCollections, NoPointerDangles, MarkingIsOnTrack, SweepingIsSafe

-----------------------------------------------------------------------------
(* The steps of the client *)

(* All of them leave the objects' headers and the list alone. *)
LEMMA ClientStep ==
  ASSUME CollectionInvariant, TypeOK', pc = "client",
         UNCHANGED <<mark, kind, current_mark, active_list, num_active_objs, pc, request>>,
         num_roots' = Len(roots'),
         Targets(roots') \subseteq Allocated, Closed(ptrs', Allocated)
  PROVE  CollectionInvariant' /\ Allocated' = Allocated
<1>1. Allocated' = Allocated /\ Marked' = Marked
  BY DEF Allocated, Marked
<1> QED BY <1>1 DEF CollectionInvariant, HeadersAreValid, CallIsValid, ListsHoldTheObjects,
      CountsAreExact, NoneMarkedBetweenCollections, NoPointerDangles, MarkingIsOnTrack,
      SweepingIsSafe

LEMMA PushStep ==
  ASSUME CollectionInvariant, TypeOK', NEW p \in Ptr, gc_push_root(p)
  PROVE  CollectionInvariant' /\ Allocated' = Allocated
<1>1. pc = "client" /\ p \in Allocated \union {NULL} /\ roots' = <<p>> \o roots
      /\ num_roots' = num_roots + 1
      /\ UNCHANGED <<mark, kind, ptrs, current_mark, active_list, num_active_objs, pc, request>>
  BY DEF gc_push_root, objects, counters
<1>2. roots \in Seq(Ptr) /\ num_roots = Len(roots)
  BY DEF CollectionInvariant, TypeOK, CountsAreExact
<1>3. Len(roots') = Len(roots) + 1 /\ Targets(roots') = Targets(roots) \union ({p} \ {NULL})
  BY <1>1, <1>2, RangeCons, TargetsCons
<1> QED BY <1>1, <1>2, <1>3, InvariantOutsideSweep, ClientStep

LEMMA PopStep ==
  ASSUME CollectionInvariant, TypeOK', gc_pop_root
  PROVE  CollectionInvariant' /\ Allocated' = Allocated
<1>1. pc = "client" /\ roots # << >> /\ roots' = Tail(roots) /\ num_roots' = num_roots - 1
      /\ UNCHANGED <<mark, kind, ptrs, current_mark, active_list, num_active_objs, pc, request>>
  BY DEF gc_pop_root, objects, counters
<1>2. roots \in Seq(Ptr) /\ num_roots = Len(roots)
  BY DEF CollectionInvariant, TypeOK, CountsAreExact
<1>3. Len(roots') = Len(roots) - 1 /\ Targets(roots') \subseteq Targets(roots)
  BY <1>1, <1>2, HeadTailProperties, TargetsHeadTail
<1> QED BY <1>1, <1>2, <1>3, InvariantOutsideSweep, ClientStep

LEMMA AssignRootStep ==
  ASSUME CollectionInvariant, TypeOK', NEW p \in Ptr, NEW i \in DOMAIN roots, AssignRoot(i, p)
  PROVE  CollectionInvariant' /\ Allocated' = Allocated
<1>1. pc = "client" /\ p \in Allocated \union {NULL} /\ roots' = [roots EXCEPT ![i] = p]
      /\ UNCHANGED <<mark, kind, ptrs, current_mark, active_list, num_roots, num_active_objs,
                     pc, request>>
  BY DEF AssignRoot, objects, counters
<1>2. roots \in Seq(Ptr) /\ num_roots = Len(roots)
  BY DEF CollectionInvariant, TypeOK, CountsAreExact
<1>3. Len(roots') = Len(roots) /\ Targets(roots') \subseteq Targets(roots) \union ({p} \ {NULL})
  BY <1>1, <1>2, TargetsExcept
<1> QED BY <1>1, <1>2, <1>3, InvariantOutsideSweep, ClientStep

LEMMA WriteFieldStep ==
  ASSUME CollectionInvariant, TypeOK', NEW a \in Addr, NEW p \in Ptr,
         NEW i \in DOMAIN ptrs[a], WriteField(a, i, p)
  PROVE  CollectionInvariant' /\ Allocated' = Allocated
<1>1. pc = "client" /\ a \in Allocated /\ p \in Allocated \union {NULL}
      /\ ptrs' = [ptrs EXCEPT ![a] = [ptrs[a] EXCEPT ![i] = p]]
      /\ UNCHANGED <<mark, kind, current_mark, active_list, roots, num_roots, num_active_objs,
                     pc, request>>
  BY DEF WriteField, counters
<1>2. TypeOK /\ num_roots = Len(roots)
  BY DEF CollectionInvariant, CountsAreExact
<1>3. Targets([ptrs[a] EXCEPT ![i] = p]) \subseteq Targets(ptrs[a]) \union ({p} \ {NULL})
  BY <1>2, TargetsExcept DEF TypeOK
<1>4. Closed(ptrs', Allocated)
  <2>1. \A b \in Addr : ptrs'[b] = IF b = a THEN [ptrs[a] EXCEPT ![i] = p] ELSE ptrs[b]
    BY <1>1, <1>2 DEF TypeOK
  <2> QED BY <1>1, <1>3, <2>1, InvariantOutsideSweep DEF Closed, Allocated
<1> QED BY <1>1, <1>2, <1>4, InvariantOutsideSweep, ClientStep

-----------------------------------------------------------------------------
(* The theorems *)

LEMMA InvariantInit == Init => CollectionInvariant
<1> SUFFICES ASSUME Init PROVE CollectionInvariant
  OBVIOUS
<1>1. TypeOK
  BY TypeInit
<1>2. Allocated = {} /\ Marked = {}
  BY DEF Init, Allocated, Marked, mem_mix
<1>3. Range(<< >>) = {} /\ IsInjective(<< >>) /\ Targets(<< >>) = {} /\ Len(<< >>) = 0
  BY DEF Range, IsInjective, Targets
<1>4. Cardinality({}) = 0
  BY FS_EmptySet
<1> QED BY <1>1, <1>2, <1>3, <1>4 DEF Init, CollectionInvariant, HeadersAreValid,
      CallIsValid, ListsHoldTheObjects, CountsAreExact, NoneMarkedBetweenCollections,
      NoPointerDangles, MarkingIsOnTrack, SweepingIsSafe, Closed

LEMMA InvariantStep == CollectionInvariant /\ [Next]_vars => CollectionInvariant'
<1> SUFFICES ASSUME CollectionInvariant, [Next]_vars PROVE CollectionInvariant'
  OBVIOUS
<1>1. TypeOK'
  BY TypeStep
<1>2. CASE Collector
  BY <1>1, <1>2, MarkReturnStep, MarkEntryStep, SweepStartStep, SweepFreeStep,
     SweepKeepStep, SweepDoneStep, NewObjectStep, OutOfMemoryStep DEF Collector
<1>3. CASE Client
  BY <1>1, <1>3, AllocDirectStep, AllocCollectStep, PushStep, PopStep, AssignRootStep,
     WriteFieldStep DEF Client
<1>4. CASE UNCHANGED vars
  BY <1>1, <1>4 DEF vars, CollectionInvariant, Allocated, Marked, HeadersAreValid,
     CallIsValid, ListsHoldTheObjects, CountsAreExact, NoneMarkedBetweenCollections,
     NoPointerDangles, MarkingIsOnTrack, SweepingIsSafe
<1> QED BY <1>2, <1>3, <1>4 DEF Next

(* The invariant of the collection holds in every reachable state of gc.c,  *)
(* and with it the types of all its variables.                              *)
THEOREM CollectionIsInvariant == Spec => []CollectionInvariant
BY InvariantInit, InvariantStep, PTL DEF Spec

THEOREM TypeCorrect == Spec => []TypeOK
<1>1. CollectionInvariant => TypeOK
  BY DEF CollectionInvariant
<1> QED BY <1>1, CollectionIsInvariant, PTL

(* Nothing the program can still reach is ever freed (gc.c:187-224). *)
THEOREM ReachableNeverFreed == Spec => []ReachableIsAllocated
<1>1. ASSUME CollectionInvariant PROVE ReachableIsAllocated
  <2>1. CASE pc = "sweep"
    BY <1>1, <2>1, InvariantInSweep, MarkedIsAllocated
       DEF ReachableIsAllocated, CollectionInvariant
  <2>2. CASE pc # "sweep"
    <3>1. Allocated \in SUBSET Addr
      BY DEF Allocated
    <3> QED BY <1>1, <2>2, <3>1, InvariantOutsideSweep, ReachableLeast
            DEF ReachableIsAllocated
  <2> QED BY <2>1, <2>2
<1> QED BY <1>1, CollectionIsInvariant, PTL

(* Swapping the meaning of the marks does unmark every survivor (gc.c:222). *)
THEOREM MarksAreCleared == Spec => []NoneMarkedBetweenCollections
<1>1. CollectionInvariant => NoneMarkedBetweenCollections
  BY DEF CollectionInvariant
<1> QED BY <1>1, CollectionIsInvariant, PTL

(* The object list neither loses nor repeats an object (gc.c:194-221). *)
THEOREM ListsAreRight == Spec => []ListsHoldTheObjects
<1>1. CollectionInvariant => ListsHoldTheObjects
  BY DEF CollectionInvariant
<1> QED BY <1>1, CollectionIsInvariant, PTL

-----------------------------------------------------------------------------
(* Sums over finite sets *)

(* Any nonempty collection of finite sets has a least one.                 *)
LEMMA LeastSubset ==
  ASSUME NEW C, C # {}, \A T \in C : IsFiniteSet(T)
  PROVE  \E T \in C : \A U \in C : U \subseteq T => U = T
<1>1. C \subseteq FiniteSubsetsOf(UNION C)  BY DEF FiniteSubsetsOf
<1>2. PICK T \in C : \A U \in C : ~ (<<U, T>> \in StrictSubsetOrdering(UNION C))
  BY <1>1, WFMin, FS_StrictSubsetOrderingWellFounded
<1>3. ASSUME NEW U \in C, U \subseteq T PROVE U = T
  BY <1>2, <1>3 DEF StrictSubsetOrdering
<1> QED BY <1>3

(* How SumFunctionOnSet goes through a set.                                 *)
Pick(s) == CHOOSE x \in s : TRUE
IsSum(f, S, g) ==
  g = [s \in SUBSET S |-> IF s = {} THEN 0 ELSE f[Pick(s)] + g[s \ {Pick(s)}]]

LEMMA SumIsFold ==
  ASSUME NEW f, NEW S
  PROVE  SumFunctionOnSet(f, S) = (CHOOSE g : IsSum(f, S, g))[S]
BY DEF SumFunctionOnSet, FoldFunctionOnSet, MapThenFoldSet, IsSum, Pick

LEMMA SumsAgree ==
  ASSUME NEW f, NEW S, NEW g, IsSum(f, S, g), NEW T, NEW h, IsSum(f, T, h),
         NEW s, s \subseteq S, s \subseteq T, IsFiniteSet(s)
  PROVE  g[s] = h[s]
<1> DEFINE Bad == {t \in SUBSET s : g[t] # h[t]}
<1> SUFFICES ASSUME Bad # {} PROVE FALSE
  OBVIOUS
<1>1. \A t \in Bad : t \subseteq s /\ IsFiniteSet(t)  BY FS_Subset
<1>2. PICK t \in Bad : \A u \in Bad : u \subseteq t => u = t
  <2>1. Bad # {}  OBVIOUS
  <2> HIDE DEF Bad
  <2> QED BY <1>1, <2>1, LeastSubset
<1>3. /\ t \in SUBSET S /\ t \in SUBSET T /\ g[t] # h[t]
      /\ g[t] = IF t = {} THEN 0 ELSE f[Pick(t)] + g[t \ {Pick(t)}]
      /\ h[t] = IF t = {} THEN 0 ELSE f[Pick(t)] + h[t \ {Pick(t)}]
  BY <1>1 DEF IsSum
<1>4. t # {}  BY <1>3
<1>5. Pick(t) \in t  BY <1>4 DEF Pick
<1>6. t \ {Pick(t)} \in SUBSET s /\ t \ {Pick(t)} \subseteq t /\ t \ {Pick(t)} # t  BY <1>5
<1>7. t \ {Pick(t)} \notin Bad
  <2> HIDE DEF Bad
  <2> QED BY <1>2, <1>6
<1> QED BY <1>3, <1>4, <1>6, <1>7

LEMMA SumExists ==
  ASSUME NEW f, NEW S, IsFiniteSet(S)
  PROVE  \E g : IsSum(f, S, g)
<1> DEFINE Bad == {t \in SUBSET S : ~ \E g : IsSum(f, t, g)}
           V(s) == SumFunctionOnSet(f, s)
<1> SUFFICES ASSUME S \in Bad PROVE FALSE
  OBVIOUS
<1>1. \A t \in Bad : t \subseteq S /\ IsFiniteSet(t)  BY FS_Subset
<1>2. PICK t \in Bad : \A u \in Bad : u \subseteq t => u = t
  <2>1. Bad # {}  OBVIOUS
  <2> HIDE DEF Bad
  <2> QED BY <1>1, <2>1, LeastSubset
<1>3. ASSUME NEW s \in SUBSET t, s # t
      PROVE  \E g : IsSum(f, s, g) /\ V(s) = g[s]
  <2>1. \E g : IsSum(f, s, g)  BY <1>1, <1>2, <1>3
  <2> QED BY <2>1, SumIsFold
<1>4. ASSUME NEW s \in SUBSET t, s # t, s # {}
      PROVE  V(s) = f[Pick(s)] + V(s \ {Pick(s)})
  <2>1. PICK g : IsSum(f, s, g) /\ V(s) = g[s]  BY <1>3, <1>4
  <2>2. Pick(s) \in s  BY <1>4 DEF Pick
  <2> DEFINE r == s \ {Pick(s)}
  <2>3. r \in SUBSET t /\ r # t /\ r \in SUBSET s /\ IsFiniteSet(r)  BY <1>1, <1>4, <2>2, FS_Subset
  <2>4. PICK h : IsSum(f, r, h) /\ V(r) = h[r]
    <3> HIDE DEF r
    <3> QED BY <1>3, <2>3
  <2>5. g[r] = h[r]
    <3> HIDE DEF r
    <3> QED BY <2>1, <2>3, <2>4, SumsAgree
  <2>6. g[s] = f[Pick(s)] + g[r]  BY <1>4, <2>1 DEF IsSum
  <2> QED BY <2>1, <2>4, <2>5, <2>6
<1>5. t # {} => V({}) = 0
  <2> SUFFICES ASSUME t # {} PROVE V({}) = 0
    OBVIOUS
  <2>1. PICK g : IsSum(f, {}, g) /\ V({}) = g[{}]  BY <1>3
  <2> QED BY <2>1 DEF IsSum
<1> DEFINE top == IF t = {} THEN 0 ELSE f[Pick(t)] + V(t \ {Pick(t)})
           g == [s \in SUBSET t |-> IF s = t THEN top ELSE V(s)]
<1>6. ASSUME NEW s \in SUBSET t
      PROVE  g[s] = IF s = {} THEN 0 ELSE f[Pick(s)] + g[s \ {Pick(s)}]
  <2>1. CASE s = {}
    <3>1. s = t => top = 0  BY <2>1
    <3>2. s # t => V(s) = 0  BY <1>5, <2>1
    <3> HIDE DEF V, top
    <3> QED BY <2>1, <3>1, <3>2
  <2>2. CASE s # {}
    <3>1. Pick(s) \in s  BY <2>2 DEF Pick
    <3>2. s \ {Pick(s)} \in SUBSET t /\ s \ {Pick(s)} # t  BY <3>1
    <3>3. g[s \ {Pick(s)}] = V(s \ {Pick(s)})
      <4> HIDE DEF V, top
      <4> QED BY <3>2
    <3>4. s = t => top = f[Pick(s)] + V(s \ {Pick(s)})  BY <2>2
    <3>5. s # t => V(s) = f[Pick(s)] + V(s \ {Pick(s)})  BY <1>4, <2>2
    <3>6. g[s] = IF s = t THEN top ELSE V(s)
      <4> HIDE DEF V, top
      <4> QED OBVIOUS
    <3> HIDE DEF V, top, g
    <3> QED BY <2>2, <3>3, <3>4, <3>5, <3>6
  <2> QED BY <2>1, <2>2
<1>7. IsSum(f, t, g)
  <2>1. g = [s \in SUBSET t |-> g[s]]
    <3> HIDE DEF V, top
    <3> QED OBVIOUS
  <2> HIDE DEF g
  <2> QED BY <1>6, <2>1 DEF IsSum
<1> QED BY <1>2, <1>7

(* The sum over a set is one of its values and the sum over the others.     *)
LEMMA SumUnfolds ==
  ASSUME NEW f, NEW S, IsFiniteSet(S)
  PROVE  /\ S = {} => SumFunctionOnSet(f, S) = 0
         /\ S # {} => SumFunctionOnSet(f, S) = f[Pick(S)] + SumFunctionOnSet(f, S \ {Pick(S)})
<1>1. PICK g : IsSum(f, S, g) /\ SumFunctionOnSet(f, S) = g[S]  BY SumExists, SumIsFold
<1>2. g[S] = IF S = {} THEN 0 ELSE f[Pick(S)] + g[S \ {Pick(S)}]  BY <1>1 DEF IsSum
<1>3. ASSUME S # {} PROVE SumFunctionOnSet(f, S \ {Pick(S)}) = g[S \ {Pick(S)}]
  <2> DEFINE r == S \ {Pick(S)}
  <2>1. IsFiniteSet(r) /\ r \subseteq S  BY FS_Subset
  <2> HIDE DEF r
  <2>2. PICK h : IsSum(f, r, h) /\ SumFunctionOnSet(f, r) = h[r]  BY <2>1, SumExists, SumIsFold
  <2>3. g[r] = h[r]  BY <1>1, <2>1, <2>2, SumsAgree
  <2> QED BY <2>2, <2>3 DEF r
<1> QED BY <1>1, <1>2, <1>3

LEMMA SumIsInteger ==
  ASSUME NEW f, NEW S, IsFiniteSet(S), \A x \in S : f[x] \in Int
  PROVE  SumFunctionOnSet(f, S) \in Int
<1> DEFINE V(s) == SumFunctionOnSet(f, s)
           Bad == {t \in SUBSET S : V(t) \notin Int}
<1> SUFFICES ASSUME S \in Bad PROVE FALSE
  OBVIOUS
<1>1. \A t \in Bad : t \subseteq S /\ IsFiniteSet(t)  BY FS_Subset
<1>2. PICK t \in Bad : \A u \in Bad : u \subseteq t => u = t
  <2>1. Bad # {}  OBVIOUS
  <2> HIDE DEF Bad
  <2> QED BY <1>1, <2>1, LeastSubset
<1>3. t # {}
  <2>1. V(t) \notin Int /\ IsFiniteSet(t)  BY <1>1, <1>2
  <2>2. t = {} => V(t) = 0  BY <2>1, SumUnfolds
  <2> HIDE DEF V
  <2> QED BY <2>1, <2>2
<1>4. Pick(t) \in t  BY <1>3 DEF Pick
<1>5. t \ {Pick(t)} \notin Bad
  <2>1. t \ {Pick(t)} \subseteq t /\ t \ {Pick(t)} # t  BY <1>4
  <2> HIDE DEF Bad
  <2> QED BY <1>2, <2>1
<1>6. V(t \ {Pick(t)}) \in Int  BY <1>1, <1>5
<1>7. V(t) = f[Pick(t)] + V(t \ {Pick(t)})  BY <1>1, <1>3, SumUnfolds
<1>8. V(t) \in Int
  <2> HIDE DEF V
  <2> QED BY <1>1, <1>4, <1>6, <1>7
<1> QED BY <1>8

(* Functions that agree on a set have the same sum over it.                 *)
LEMMA SumsOfEquals ==
  ASSUME NEW f, NEW g, NEW S, IsFiniteSet(S), \A x \in S : f[x] = g[x]
  PROVE  SumFunctionOnSet(f, S) = SumFunctionOnSet(g, S)
<1> DEFINE V(s) == SumFunctionOnSet(f, s)
           W(s) == SumFunctionOnSet(g, s)
           Bad == {t \in SUBSET S : V(t) # W(t)}
<1> SUFFICES ASSUME S \in Bad PROVE FALSE
  OBVIOUS
<1>1. \A t \in Bad : t \subseteq S /\ IsFiniteSet(t)  BY FS_Subset
<1>2. PICK t \in Bad : \A u \in Bad : u \subseteq t => u = t
  <2>1. Bad # {}  OBVIOUS
  <2> HIDE DEF Bad
  <2> QED BY <1>1, <2>1, LeastSubset
<1>3. t # {}  BY <1>1, SumUnfolds
<1>4. Pick(t) \in t  BY <1>3 DEF Pick
<1>5. t \ {Pick(t)} \notin Bad
  <2>1. t \ {Pick(t)} \subseteq t /\ t \ {Pick(t)} # t  BY <1>4
  <2> HIDE DEF Bad
  <2> QED BY <1>2, <2>1
<1>6. V(t \ {Pick(t)}) = W(t \ {Pick(t)})  BY <1>1, <1>5
<1>7. V(t) = f[Pick(t)] + V(t \ {Pick(t)})  BY <1>1, <1>3, SumUnfolds
<1>8. W(t) = g[Pick(t)] + W(t \ {Pick(t)})  BY <1>1, <1>3, SumUnfolds
<1> QED BY <1>1, <1>4, <1>6, <1>7, <1>8

(* Whichever value is taken first.                                          *)
LEMMA SumWithout ==
  ASSUME NEW f, NEW S, IsFiniteSet(S), \A x \in S : f[x] \in Int, NEW y \in S
  PROVE  SumFunctionOnSet(f, S) = f[y] + SumFunctionOnSet(f, S \ {y})
<1> DEFINE V(s) == SumFunctionOnSet(f, s)
           Bad == {t \in SUBSET S : \E z \in t : V(t) # f[z] + V(t \ {z})}
<1> SUFFICES ASSUME S \in Bad PROVE FALSE
  OBVIOUS
<1>1. \A t \in SUBSET S : t \subseteq S /\ IsFiniteSet(t)  BY FS_Subset
<1>2. PICK t \in Bad : \A u \in Bad : u \subseteq t => u = t
  <2>1. Bad # {} /\ \A t \in Bad : t \subseteq S /\ IsFiniteSet(t)  BY <1>1
  <2> HIDE DEF Bad
  <2> QED BY <2>1, LeastSubset
<1>3. PICK z \in t : V(t) # f[z] + V(t \ {z})  BY <1>2
<1> DEFINE x == Pick(t)
<1>4. x \in t  BY <1>3 DEF Pick
<1>5. V(t) = f[x] + V(t \ {x})  BY <1>1, <1>3, SumUnfolds
<1>6. x # z  BY <1>3, <1>5
<1>7. \A u \in SUBSET S : \A w \in u : u \subseteq t /\ u # t => V(u) = f[w] + V(u \ {w})
  <2>1. \A u \in SUBSET S : u \subseteq t /\ u # t => u \notin Bad
    <3> HIDE DEF Bad
    <3> QED BY <1>2
  <2> QED BY <2>1
<1>8. V(t \ {x}) = f[z] + V((t \ {x}) \ {z})
  <2>1. t \ {x} \in SUBSET S /\ z \in t \ {x} /\ t \ {x} \subseteq t /\ t \ {x} # t
    BY <1>2, <1>4, <1>6
  <2> HIDE DEF x, V
  <2> QED BY <1>7, <2>1
<1>9. V(t \ {z}) = f[x] + V((t \ {z}) \ {x})
  <2>1. t \ {z} \in SUBSET S /\ x \in t \ {z} /\ t \ {z} \subseteq t /\ t \ {z} # t
    BY <1>2, <1>4, <1>6
  <2> HIDE DEF x, V
  <2> QED BY <1>7, <2>1
<1>10. (t \ {z}) \ {x} = (t \ {x}) \ {z}  OBVIOUS
<1>11. V((t \ {x}) \ {z}) \in Int
  <2>1. (t \ {x}) \ {z} \in SUBSET S  BY <1>2
  <2>2. IsFiniteSet((t \ {x}) \ {z}) /\ \A w \in (t \ {x}) \ {z} : f[w] \in Int
    BY <1>1, <2>1
  <2> QED BY <2>2, SumIsInteger
<1>12. f[x] \in Int /\ f[z] \in Int  BY <1>2, <1>4
<1>13. \A a, b, c, v, w \in Int : v = a + (b + c) /\ w = a + c => v = b + w  OBVIOUS
<1>14. V(t) = f[x] + (f[z] + V((t \ {x}) \ {z})) /\ V(t \ {z}) = f[x] + V((t \ {x}) \ {z})
  BY <1>5, <1>8, <1>9, <1>10
<1>15. V(t) \in Int /\ V(t \ {z}) \in Int
  <2> HIDE DEF V, x, Bad
  <2> QED BY <1>11, <1>12, <1>14
<1> HIDE DEF V, x, Bad
<1> QED BY <1>3, <1>11, <1>12, <1>13, <1>14, <1>15

-----------------------------------------------------------------------------
(* The counters *)

(* The space of what is allocated changes with one object at a time.        *)
LEMMA SpaceAdded ==
  ASSUME NEW f, NEW g, NEW S, IsFiniteSet(S), NEW x, x \notin S,
         DOMAIN f = S, DOMAIN g = S \union {x}, \A y \in S : g[y] = f[y],
         \A y \in S \union {x} : g[y] \in Int
  PROVE  SumFunction(g) = g[x] + SumFunction(f) /\ SumFunction(f) \in Int
<1> DEFINE T == S \union {x}
<1>1. IsFiniteSet(T) /\ x \in T /\ T \ {x} = S  BY FS_AddElement
<1>2. SumFunctionOnSet(g, T) = g[x] + SumFunctionOnSet(g, T \ {x})
  <2> HIDE DEF T
  <2>1. \A y \in T : g[y] \in Int  BY DEF T
  <2> QED BY <1>1, <2>1, SumWithout
<1>3. SumFunctionOnSet(f, S) = SumFunctionOnSet(g, S)  BY SumsOfEquals
<1>4. SumFunctionOnSet(f, S) \in Int  BY SumIsInteger
<1> QED BY <1>1, <1>2, <1>3, <1>4 DEF SumFunction

LEMMA MemoryStep ==
  ASSUME CollectionInvariant, CollectionInvariant', MemoryIsExact, [Next]_vars
  PROVE  MemoryIsExact'
<1>1. ASSUME UNCHANGED <<kind, total_alloced_mem>>, Allocated' = Allocated PROVE MemoryIsExact'
  BY <1>1 DEF MemoryIsExact, Space
<1>2. IsFiniteSet(Allocated)  BY AllocatedIsFinite
<1>3. /\ \A a \in Allocated : Space[a] = Size[kind[a]] /\ Space[a] \in Int
      /\ \A a \in Allocated' : Space'[a] = Size[kind'[a]] /\ Space'[a] \in Int
      /\ DOMAIN Space = Allocated /\ DOMAIN Space' = Allocated'
  BY TypesAssumption DEF CollectionInvariant, HeadersAreValid, Space
<1>4. TypeOK  BY DEF CollectionInvariant
<1>5. ASSUME NEW a \in Addr, NewObject(a) PROVE MemoryIsExact'
  <2>1. /\ a \notin Allocated /\ Allocated' = Allocated \union {a}
        /\ total_alloced_mem' = total_alloced_mem + Size[request]
        /\ kind' = [kind EXCEPT ![a] = request]
    BY <1>5, NewObjectStep DEF NewObject, CollectionInvariant
  <2>2. \A b \in Allocated : Space'[b] = Space[b]
    BY <1>3, <1>4, <2>1 DEF TypeOK, Allocated
  <2>3. Space'[a] = Size[request]
    BY <1>3, <1>4, <2>1 DEF TypeOK
  <2>4. SumFunction(Space') = Space'[a] + SumFunction(Space) /\ SumFunction(Space) \in Int
    BY <1>2, <1>3, <2>1, <2>2, SpaceAdded
  <2>5. Space'[a] \in Int  BY <1>3, <2>1
  <2> QED BY <2>1, <2>3, <2>4, <2>5 DEF MemoryIsExact
<1>6. CASE SweepFree
  <2> DEFINE e == Head(le)
  <2>1. /\ kind' = [kind EXCEPT ![e] = NULL] /\ mark' = [mark EXCEPT ![e] = mem_mix]
        /\ total_alloced_mem' = total_alloced_mem - Size[kind[e]]
        /\ le # << >> /\ pc = "sweep"
    BY <1>6 DEF SweepFree
  <2>2. e \in Range(le) /\ Range(le) \subseteq Allocated
    BY <1>4, <2>1, RangeHeadTail, InvariantInSweep DEF TypeOK
  <2> HIDE DEF e
  <2>3. e \in Addr /\ e \in Allocated /\ Allocated' = Allocated \ {e}
    BY <1>4, <2>1, <2>2 DEF Allocated, TypeOK
  <2>4. \A b \in Allocated' : Space'[b] = Space[b]
    BY <1>3, <1>4, <2>1, <2>3 DEF TypeOK, Allocated
  <2>5. /\ e \notin Allocated' /\ Allocated = Allocated' \union {e}
        /\ IsFiniteSet(Allocated')
    BY <1>2, <2>3, FS_Subset
  <2>6. SumFunction(Space) = Space[e] + SumFunction(Space') /\ SumFunction(Space') \in Int
    BY <1>3, <2>4, <2>5, SpaceAdded
  <2>7. Space[e] = Size[kind[e]] /\ Space[e] \in Int  BY <1>3, <2>3
  <2> QED BY <2>1, <2>6, <2>7 DEF MemoryIsExact
<1>7. CASE MarkEntry
  <2>1. Allocated' = Allocated
    BY <1>7, MarkEntryStep DEF CollectionInvariant
  <2> QED BY <1>1, <1>7, <2>1 DEF MarkEntry, counters
<1>8. CASE UNCHANGED <<mark, kind, counters>>
  BY <1>1, <1>8 DEF Allocated, counters
<1>9. \/ \E a \in Addr : NewObject(a)
      \/ SweepFree \/ MarkEntry \/ UNCHANGED <<mark, kind, counters>>
  BY DEF Next, Collector, Client, AllocDirect, AllocCollect, MarkReturn, SweepStart, SweepKeep,
         SweepDone, OutOfMemory, gc_push_root, gc_pop_root, AssignRoot, WriteField, objects, vars,
         counters
<1> QED BY <1>5, <1>6, <1>7, <1>8, <1>9

(* What gc.c:126 compares with the limit is what the objects occupy, and    *)
(* the counts of objects and roots are right, in mid-sweep too              *)
(* (gc.c:126-135, 199-212).                                                 *)
THEOREM CountersAreAlwaysExact == Spec => []CountersAreExact
<1>1. Init => MemoryIsExact
  <2> SUFFICES ASSUME Init PROVE MemoryIsExact
    OBVIOUS
  <2>1. Allocated = {} /\ total_alloced_mem = 0  BY DEF Init, Allocated, mem_mix
  <2>2. DOMAIN Space = {}  BY <2>1 DEF Space
  <2>3. SumFunctionOnSet(Space, {}) = 0  BY SumUnfolds, FS_EmptySet
  <2> QED BY <2>1, <2>2, <2>3 DEF MemoryIsExact, SumFunction
<1>2. CollectionInvariant /\ MemoryIsExact => CountersAreExact
  BY DEF CollectionInvariant, CountersAreExact
<1>3. CollectionInvariant /\ CollectionInvariant' /\ MemoryIsExact /\ [Next]_vars => MemoryIsExact'
  BY MemoryStep
<1> QED BY <1>1, <1>2, <1>3, CollectionIsInvariant, PTL DEF Spec

-----------------------------------------------------------------------------
(* The memory limit *)

(* On its way to an allocation, gc_alloc has room or has just collected. *)
RoomOrNoGarbage ==
  pc = "alloc" =>
    \/ total_alloced_mem + Size[request] <= MAX_MEM_USE
    \/ Allocated = Reachable(ptrs, roots)

LEMMA RoomOrNoGarbageStep ==
  ASSUME CollectionInvariant, RoomOrNoGarbage, [Next]_vars
  PROVE  RoomOrNoGarbage'
<1>1. ASSUME NEW t \in Types, AllocDirect(t) PROVE RoomOrNoGarbage'
  <2>1. total_alloced_mem \in Int /\ Size[t] \in Int /\ MAX_MEM_USE \in Int
    BY TypesAssumption, LimitsAssumption DEF CollectionInvariant, TypeOK
  <2>2. total_alloced_mem + Size[t] <= MAX_MEM_USE
    BY <1>1, <2>1 DEF AllocDirect, NeedsCollect
  <2> QED BY <1>1, <2>2 DEF AllocDirect, counters, RoomOrNoGarbage
<1>2. CASE SweepDone
  <2>1. pc = "sweep" /\ UNCHANGED <<mark, ptrs, roots>>
    BY <1>2 DEF SweepDone, objects
  <2>2. Marked = Reachable(ptrs, roots)
    BY <2>1, InvariantInSweep
  <2>3. TypeOK'
    BY TypeStep
  <2>4. Allocated' = Allocated /\ Marked = Allocated
    BY <1>2, <2>3, SweepDoneStep
  <2> QED BY <2>1, <2>2, <2>4 DEF RoomOrNoGarbage
<1>3. CASE UNCHANGED vars
  BY <1>3 DEF vars, RoomOrNoGarbage, Allocated
<1>4. CASE pc' # "alloc"
  BY <1>4 DEF RoomOrNoGarbage
<1>5. [Next]_vars => \/ SweepDone \/ \E t \in Types : AllocDirect(t)
                     \/ pc' # "alloc" \/ UNCHANGED vars
  BY DEF Next, Collector, Client, AllocCollect, MarkReturn, MarkEntry, SweepStart, SweepFree,
         SweepKeep, NewObject, OutOfMemory, gc_push_root, gc_pop_root, AssignRoot, WriteField
<1> QED BY <1>1, <1>2, <1>3, <1>4, <1>5

(* The soft limit of gc.c:126 is passed only by data the program can reach. *)
THEOREM LimitHolds == Spec => OverLimitOnlyWithLiveData
<1> DEFINE Step == total_alloced_mem' > MAX_MEM_USE /\ total_alloced_mem' > total_alloced_mem
                     => Allocated = Reachable(ptrs, roots)
<1>1. Init => RoomOrNoGarbage
  BY DEF Init, RoomOrNoGarbage
<1>2. CollectionInvariant /\ RoomOrNoGarbage /\ [Next]_vars => RoomOrNoGarbage'
  BY RoomOrNoGarbageStep
<1>3. CollectionInvariant /\ RoomOrNoGarbage /\ [Next]_vars => [Step]_vars
  <2> SUFFICES ASSUME CollectionInvariant, RoomOrNoGarbage, [Next]_vars,
                      total_alloced_mem' > MAX_MEM_USE, total_alloced_mem' > total_alloced_mem
               PROVE  Allocated = Reachable(ptrs, roots)
    OBVIOUS
  <2>1. total_alloced_mem \in Int /\ MAX_MEM_USE \in Int
    BY LimitsAssumption DEF CollectionInvariant, TypeOK
  <2>2. ASSUME NEW a \in Addr, NewObject(a) PROVE Allocated = Reachable(ptrs, roots)
    <3>1. Size[request] \in Int
      BY <2>2, TypesAssumption DEF NewObject, CollectionInvariant, CallIsValid
    <3> QED BY <2>1, <2>2, <3>1 DEF NewObject, RoomOrNoGarbage
  <2>3. CASE SweepFree
    <3>1. le \in Seq(Addr) /\ new_list \in Seq(Addr) /\ le # << >> /\ pc = "sweep"
      BY <2>3 DEF CollectionInvariant, TypeOK, SweepFree
    <3>2. Head(le) \in Allocated
      BY <3>1, InvariantInSweep, RangeHeadTail
    <3>3. Size[kind[Head(le)]] \in Nat
      BY <3>2, TypesAssumption DEF CollectionInvariant, HeadersAreValid
    <3> QED BY <2>1, <2>3, <3>3 DEF SweepFree
  <2>4. CASE total_alloced_mem' = total_alloced_mem
    BY <2>1, <2>4
  <2>5. \/ \E a \in Addr : NewObject(a)
        \/ SweepFree
        \/ total_alloced_mem' = total_alloced_mem
    BY DEF Next, Collector, Client, vars, counters, AllocDirect, AllocCollect, MarkReturn,
           MarkEntry, SweepStart, SweepKeep, SweepDone, OutOfMemory, gc_push_root,
           gc_pop_root, AssignRoot, WriteField
  <2> QED BY <2>2, <2>3, <2>4, <2>5
<1>4. Spec => []RoomOrNoGarbage
  BY <1>1, <1>2, CollectionIsInvariant, PTL DEF Spec
<1> QED BY <1>3, <1>4, CollectionIsInvariant, PTL DEF Spec, OverLimitOnlyWithLiveData

-----------------------------------------------------------------------------
(* The collector implements the abstract heap *)

LEMMA SameReachable ==
  ASSUME NEW p, NEW r
  PROVE  H!Reachable(p, r) = Reachable(p, r)
BY DEF H!Reachable, Reachable, H!Targets, Targets, H!Closed, Closed, H!Range, Range

(* Hiding the objects that are not live hides nothing reachable. *)
LEMMA ReachableAmongLive ==
  ASSUME CollectionInvariant
  PROVE  Reachable(LivePtrs, roots) = Reachable(ptrs, roots)
<1>1. TypeOK
  BY DEF CollectionInvariant
<1>2. Reachable(ptrs, roots) \subseteq LiveObjects
  <2>1. CASE pc = "sweep"
    BY <2>1, InvariantInSweep DEF LiveObjects
  <2>2. CASE pc # "sweep"
    <3>1. Allocated \in SUBSET Addr
      BY DEF Allocated
    <3> QED BY <2>2, <3>1, InvariantOutsideSweep, ReachableLeast DEF LiveObjects
  <2> QED BY <2>1, <2>2
<1>3. << >> \in Seq(Ptr)
  OBVIOUS
<1>4. LivePtrs \in [Addr -> Seq(Ptr)]
  BY <1>1, <1>3 DEF LivePtrs, TypeOK
<1>5. \A a \in Reachable(ptrs, roots) : LivePtrs[a] = ptrs[a]
  BY <1>2 DEF LivePtrs, Reachable
<1> QED BY <1>1, <1>4, <1>5, ReachableLocal DEF TypeOK

LEMMA InitImplements == Init => H!Init
<1> SUFFICES ASSUME Init PROVE H!Init
  OBVIOUS
<1>1. Allocated = {} /\ LiveObjects = {}
  BY DEF Init, Allocated, LiveObjects, mem_mix
<1>2. LivePtrs = [a \in Addr |-> << >>]
  BY <1>1 DEF LivePtrs
<1> QED BY <1>1, <1>2 DEF Init, H!Init

(* The steps that change neither the live objects, their pointers nor the  *)
(* roots are invisible.                                                    *)
LEMMA InvisibleStep ==
  ASSUME LiveObjects' = LiveObjects, \A a \in LiveObjects : ptrs'[a] = ptrs[a],
         roots' = roots
  PROVE  [H!Next]_(H!vars)
<1>1. LivePtrs' = LivePtrs
  BY DEF LivePtrs
<1> QED BY <1>1 DEF H!vars

(* The sweep's first step makes all the garbage disappear. *)
LEMMA SweepStartImplements ==
  ASSUME CollectionInvariant, CollectionInvariant', SweepStart
  PROVE  H!Collect
<1>1. pc = "mark" /\ pc' = "sweep" /\ UNCHANGED <<mark, ptrs, current_mark, roots>>
  BY DEF SweepStart, objects
<1>2. LiveObjects' = Marked' /\ LiveObjects = Allocated /\ Marked' = Marked
  BY <1>1 DEF LiveObjects, Marked
<1>3. Marked' = Reachable(ptrs', roots')
  BY <1>1 DEF CollectionInvariant, SweepingIsSafe
<1>4. LiveObjects' = H!Reachable(LivePtrs, roots)
  BY <1>1, <1>2, <1>3, ReachableAmongLive, SameReachable
<1>5. Marked \subseteq Allocated
  BY MarkedIsAllocated DEF CollectionInvariant
<1>6. LivePtrs' = [a \in Addr |-> IF a \in LiveObjects' THEN LivePtrs[a] ELSE << >>]
  BY <1>1, <1>2, <1>5 DEF LivePtrs
<1> QED BY <1>1, <1>4, <1>6 DEF H!Collect

LEMMA CollectorImplements ==
  ASSUME CollectionInvariant, CollectionInvariant', Collector
  PROVE  [H!Next]_(H!vars)
<1>1. CASE MarkReturn
  BY <1>1, InvisibleStep DEF MarkReturn, objects, LiveObjects, Allocated, Marked
<1>2. CASE MarkEntry
  <2>1. pc = "mark" /\ pc' = pc /\ ptrs' = ptrs /\ roots' = roots
    BY <1>2 DEF MarkEntry
  <2>2. Allocated' = Allocated
    <3>1. Head(todo) \in Allocated
      <4>1. Head(todo) \in Targets(todo) /\ Targets(todo) \subseteq Allocated
        BY <1>2, <2>1, TargetsHeadTail
           DEF MarkEntry, CollectionInvariant, TypeOK, MarkingIsOnTrack
      <4> QED BY <4>1
    <3>2. current_mark # mem_mix /\ mark' = [mark EXCEPT ![Head(todo)] = current_mark]
      BY <1>2 DEF MarkEntry, CollectionInvariant, TypeOK, mem_mix
    <3> QED BY <3>1, <3>2 DEF Allocated, CollectionInvariant, TypeOK
  <2> QED BY <2>1, <2>2, InvisibleStep DEF LiveObjects
<1>3. CASE SweepStart
  BY <1>3, SweepStartImplements DEF H!Next
<1>4. CASE SweepFree
  <2>1. pc = "sweep" /\ pc' = pc /\ roots' = roots
    BY <1>4 DEF SweepFree
  <2>2. Marked' = Marked /\ \A a \in Marked : ptrs'[a] = ptrs[a]
    BY <1>4, SweepFreeStep DEF CollectionInvariant
  <2> QED BY <2>1, <2>2, InvisibleStep DEF LiveObjects
<1>5. CASE SweepKeep
  BY <1>5, InvisibleStep DEF SweepKeep, objects, LiveObjects, Allocated, Marked
<1>6. CASE SweepDone
  <2>1. pc = "sweep" /\ pc' = "alloc" /\ roots' = roots /\ ptrs' = ptrs
    BY <1>6 DEF SweepDone, objects
  <2>2. Allocated' = Allocated /\ Marked = Allocated
    BY <1>6, SweepDoneStep DEF CollectionInvariant
  <2> QED BY <2>1, <2>2, InvisibleStep DEF LiveObjects
<1>7. ASSUME NEW a \in Addr, NewObject(a) PROVE [H!Next]_(H!vars)
  <2>1. pc = "alloc" /\ pc' = "client" /\ roots' = roots /\ request \in Types
        /\ a \notin Allocated
        /\ ptrs' = [ptrs EXCEPT ![a] = [i \in 1..Fields[request] |-> NULL]]
    BY <1>7 DEF NewObject, CollectionInvariant, CallIsValid
  <2>2. LiveObjects = Allocated /\ LiveObjects' = Allocated \union {a}
    BY <1>7, <2>1, NewObjectStep DEF LiveObjects, CollectionInvariant
  <2>3. LivePtrs' = [LivePtrs EXCEPT ![a] = [i \in 1..Fields[request] |-> NULL]]
    BY <2>1, <2>2 DEF LivePtrs, CollectionInvariant, TypeOK
  <2>4. H!New(a, request)
    BY <2>1, <2>2, <2>3 DEF H!New
  <2> QED BY <2>1, <2>4 DEF H!Next
<1>8. CASE OutOfMemory
  BY <1>8, InvisibleStep DEF OutOfMemory, objects, LiveObjects, Allocated, Marked
<1> QED BY <1>1, <1>2, <1>3, <1>4, <1>5, <1>6, <1>7, <1>8 DEF Collector, CollectionInvariant

LEMMA ClientImplements ==
  ASSUME CollectionInvariant, CollectionInvariant', Client
  PROVE  [H!Next]_(H!vars)
<1>1. ASSUME NEW t \in Types, AllocDirect(t) PROVE [H!Next]_(H!vars)
  BY <1>1, InvisibleStep DEF AllocDirect, objects, LiveObjects, Allocated, Marked
<1>2. ASSUME NEW t \in Types, AllocCollect(t) PROVE [H!Next]_(H!vars)
  BY <1>2, InvisibleStep DEF AllocCollect, objects, LiveObjects, Allocated, Marked
<1>3. ASSUME NEW p \in Ptr, gc_push_root(p) PROVE [H!Next]_(H!vars)
  <2>1. LiveObjects' = LiveObjects /\ LiveObjects = Allocated /\ LivePtrs' = LivePtrs
    BY <1>3 DEF gc_push_root, objects, LiveObjects, LivePtrs, Allocated
  <2>2. H!Push(p)
    BY <1>3, <2>1 DEF gc_push_root, H!Push
  <2> QED BY <2>2 DEF H!Next, H!Ptr, Ptr
<1>4. CASE gc_pop_root
  <2>1. LiveObjects' = LiveObjects /\ LivePtrs' = LivePtrs
    BY <1>4 DEF gc_pop_root, objects, LiveObjects, LivePtrs, Allocated
  <2>2. H!Pop
    BY <1>4, <2>1 DEF gc_pop_root, H!Pop
  <2> QED BY <2>2 DEF H!Next
<1>5. ASSUME NEW p \in Ptr, NEW i \in DOMAIN roots, AssignRoot(i, p)
      PROVE  [H!Next]_(H!vars)
  <2>1. LiveObjects' = LiveObjects /\ LiveObjects = Allocated /\ LivePtrs' = LivePtrs
    BY <1>5 DEF AssignRoot, objects, LiveObjects, LivePtrs, Allocated
  <2>2. H!Assign(i, p)
    BY <1>5, <2>1 DEF AssignRoot, H!Assign
  <2> QED BY <1>5, <2>2 DEF H!Next, H!Ptr, Ptr
<1>6. ASSUME NEW a \in Addr, NEW p \in Ptr, NEW i \in DOMAIN ptrs[a], WriteField(a, i, p)
      PROVE  [H!Next]_(H!vars)
  <2>1. LiveObjects' = LiveObjects /\ LiveObjects = Allocated /\ a \in Allocated
    BY <1>6 DEF WriteField, LiveObjects, Allocated
  <2>2. ptrs' = [ptrs EXCEPT ![a] = [ptrs[a] EXCEPT ![i] = p]]
    BY <1>6 DEF WriteField
  <2>3. LivePtrs[a] = ptrs[a]
        /\ LivePtrs' = [LivePtrs EXCEPT ![a] = [LivePtrs[a] EXCEPT ![i] = p]]
    BY <2>1, <2>2 DEF LivePtrs, CollectionInvariant, TypeOK
  <2>4. H!Write(a, i, p)
    BY <1>6, <2>1, <2>3 DEF WriteField, H!Write
  <2> QED BY <2>3, <2>4 DEF H!Next, H!Ptr, Ptr
<1> QED BY <1>1, <1>2, <1>3, <1>4, <1>5, <1>6 DEF Client

(* gc.c keeps the promise of Heap.tla: seen through LiveObjects, all it     *)
(* ever does to the interpreter's data is to remove what is unreachable.    *)
THEOREM CollectorImplementsHeap == Spec => HeapSpec
<1>1. CollectionInvariant /\ CollectionInvariant' /\ [Next]_vars => [H!Next]_(H!vars)
  <2> SUFFICES ASSUME CollectionInvariant, CollectionInvariant', [Next]_vars
               PROVE  [H!Next]_(H!vars)
    OBVIOUS
  <2>1. CASE UNCHANGED vars
    BY <2>1, InvisibleStep DEF vars, LiveObjects, Allocated, Marked
  <2> QED BY <2>1, CollectorImplements, ClientImplements DEF Next
<1> QED BY <1>1, InitImplements, CollectionIsInvariant, PTL DEF Spec, HeapSpec, H!Spec
=============================================================================
