-------------------------------- MODULE Facts -------------------------------
(***************************************************************************)
(* What the proofs about the vm share: facts about sequences, about the    *)
(* collector's list of roots, which every function extends and cuts at its *)
(* end while the blocks that its callers have pushed stay where they are,  *)
(* and about what a collection keeps.                                      *)
(***************************************************************************)
EXTENDS Integers, Sequences, Functions, Marking, SequenceTheorems, FiniteSetTheorems, TLAPS

(* Sequences of anything: the vm's hold pointers, records and names.        *)
IsSeq(s) == s \in Seq(Range(s))

LEMMA WidenSeq ==
  ASSUME NEW s, IsSeq(s), NEW S, Range(s) \subseteq S
  PROVE  s \in Seq(S)
BY SeqMonotonic DEF IsSeq

LEMMA AnySeq ==
  ASSUME NEW S, NEW s \in Seq(S)
  PROVE  /\ IsSeq(s) /\ Len(s) \in Nat /\ DOMAIN s = 1..Len(s)
         /\ \A i \in 1..Len(s) : s[i] \in Range(s)
BY DEF IsSeq, Range

LEMMA SeqFacts ==
  ASSUME NEW s, IsSeq(s)
  PROVE  /\ Len(s) \in Nat /\ DOMAIN s = 1..Len(s)
         /\ \A i \in 1..Len(s) : s[i] \in Range(s)
         /\ s # << >> => Len(s) > 0
BY AnySeq, EmptySeq DEF IsSeq

LEMMA ConcatFacts ==
  ASSUME NEW s, IsSeq(s), NEW t, IsSeq(t)
  PROVE  /\ IsSeq(s \o t) /\ Len(s \o t) = Len(s) + Len(t)
         /\ \A i \in 1..Len(s) : (s \o t)[i] = s[i]
         /\ \A i \in 1..Len(t) : (s \o t)[Len(s) + i] = t[i]
<1> DEFINE S == Range(s) \union Range(t)
<1>1. s \in Seq(S) /\ t \in Seq(S)  BY WidenSeq
<1> HIDE DEF S
<1>2. s \o t \in Seq(S)  BY <1>1, ConcatProperties
<1>3. IsSeq(s \o t)  BY <1>2, AnySeq
<1> QED  BY <1>1, <1>3, ConcatProperties, SeqFacts

LEMMA AppendFacts ==
  ASSUME NEW s, IsSeq(s), NEW e
  PROVE  /\ IsSeq(Append(s, e)) /\ Len(Append(s, e)) = Len(s) + 1
         /\ \A i \in 1..Len(s) : Append(s, e)[i] = s[i]
         /\ Append(s, e)[Len(s) + 1] = e
<1> DEFINE S == Range(s) \union {e}
<1>1. s \in Seq(S) /\ e \in S  BY WidenSeq
<1> HIDE DEF S
<1>2. Append(s, e) \in Seq(S) /\ Len(Append(s, e)) = Len(s) + 1
      /\ (\A i \in 1..Len(s) : Append(s, e)[i] = s[i]) /\ Append(s, e)[Len(s) + 1] = e
  BY <1>1, AppendProperties
<1>3. IsSeq(Append(s, e))  BY <1>2, AnySeq
<1> QED  BY <1>2, <1>3

LEMMA SubSeqFacts ==
  ASSUME NEW s, IsSeq(s), NEW n \in 0..Len(s)
  PROVE  /\ IsSeq(SubSeq(s, 1, n)) /\ Len(SubSeq(s, 1, n)) = n
         /\ \A i \in 1..n : SubSeq(s, 1, n)[i] = s[i]
<1>1. Len(s) \in Nat /\ \A i \in 1..n : s[i] \in Range(s)  BY SeqFacts
<1>2. 1 \in Int /\ n \in Int  BY <1>1
<1> DEFINE t == SubSeq(s, 1, n)
<1>3. /\ t \in Seq(Range(s)) /\ Len(t) = IF 1 <= n THEN n - 1 + 1 ELSE 0
      /\ \A i \in 1..n-1+1 : t[i] = s[1+i-1]
  <2> DEFINE S == Range(s)
  <2>1. \A i \in 1..n : s[i] \in S  BY <1>1
  <2> HIDE DEF S
  <2>2. /\ t \in Seq(S) /\ Len(t) = IF 1 <= n THEN n - 1 + 1 ELSE 0
        /\ \A i \in 1..n-1+1 : t[i] = s[1+i-1]
    BY <1>2, <2>1, SubSeqProperties
  <2> QED BY <2>2 DEF S
<1> HIDE DEF t
<1>4. IsSeq(t)  BY <1>3, AnySeq
<1>5. n \in Nat  BY <1>1
<1>6. Len(t) = n  BY <1>3, <1>5
<1>7. \A i \in 1..n : t[i] = s[i]  BY <1>3, <1>5
<1> QED  BY <1>4, <1>6, <1>7 DEF t

LEMMA ExceptFacts ==
  ASSUME NEW s, IsSeq(s), NEW n \in 1..Len(s), NEW e
  PROVE  /\ IsSeq([s EXCEPT ![n] = e]) /\ Len([s EXCEPT ![n] = e]) = Len(s)
         /\ [s EXCEPT ![n] = e][n] = e
         /\ \A i \in 1..Len(s) : i # n => [s EXCEPT ![n] = e][i] = s[i]
<1> DEFINE S == Range(s) \union {e}
<1>1. s \in Seq(S) /\ e \in S  BY WidenSeq
<1> HIDE DEF S
<1> DEFINE t == [s EXCEPT ![n] = e]
<1>2. t \in Seq(S) /\ Len(t) = Len(s) /\ \A j \in 1..Len(s) : t[j] = IF j = n THEN e ELSE s[j]
  BY <1>1, ExceptSeq
<1> HIDE DEF t
<1>3. IsSeq(t)  BY <1>2, AnySeq
<1> QED  BY <1>2, <1>3 DEF t

LEMMA SameSeq ==
  ASSUME NEW s, IsSeq(s), NEW t, IsSeq(t), Len(s) = Len(t),
         \A i \in 1..Len(s) : s[i] = t[i]
  PROVE  s = t
<1> DEFINE S == Range(s) \union Range(t)
<1>1. s \in Seq(S) /\ t \in Seq(S)  BY WidenSeq
<1> HIDE DEF S
<1> QED  BY <1>1, SeqEqual

LEMMA MadeSeq ==
  ASSUME NEW S, NEW n \in Nat, NEW f \in [1..n -> S]
  PROVE  IsSeq(f) /\ Len(f) = n
<1>1. f \in Seq(S) /\ Len(f) = n  OBVIOUS
<1> QED  BY <1>1, AnySeq

LEMMA AppendToTuple ==
  ASSUME NEW S, NEW x \in S, NEW y \in S, NEW z \in S
  PROVE  Append(<<x>>, y) = <<x, y>> /\ Append(<<x, y>>, z) = <<x, y, z>>
<1>1. Append(<<x>>, y) = <<x, y>>
  <2>1. <<x>> \in Seq(S) /\ <<x, y>> \in Seq(S)  OBVIOUS
  <2>2. Append(<<x>>, y) \in Seq(S) /\ Len(Append(<<x>>, y)) = 2  BY <2>1
  <2>3. \A i \in 1..2 : Append(<<x>>, y)[i] = <<x, y>>[i]  BY <2>1
  <2>4. Len(<<x, y>>) = 2  OBVIOUS
  <2> QED BY <2>1, <2>2, <2>3, <2>4, SeqEqual
<1>2. Append(<<x, y>>, z) = <<x, y, z>>
  <2>1. <<x, y>> \in Seq(S) /\ <<x, y, z>> \in Seq(S)  OBVIOUS
  <2>2. Append(<<x, y>>, z) \in Seq(S) /\ Len(Append(<<x, y>>, z)) = 3  BY <2>1
  <2>3. \A i \in 1..3 : Append(<<x, y>>, z)[i] = <<x, y, z>>[i]  BY <2>1
  <2>4. Len(<<x, y, z>>) = 3  OBVIOUS
  <2> QED BY <2>1, <2>2, <2>3, <2>4, SeqEqual
<1> QED BY <1>1, <1>2

LEMMA Tuples ==
  /\ IsSeq(<< >>) /\ Len(<< >>) = 0
  /\ \A x : IsSeq(<<x>>) /\ Len(<<x>>) = 1 /\ <<x>>[1] = x
  /\ \A x, y : IsSeq(<<x, y>>) /\ Len(<<x, y>>) = 2 /\ <<x>> \o <<y>> = <<x, y>>
  /\ \A x, y, z : /\ IsSeq(<<x, y, z>>) /\ Len(<<x, y, z>>) = 3
                  /\ <<x>> \o <<y, z>> = <<x, y, z>>
<1>1. << >> \in Seq({}) /\ Len(<< >>) = 0  OBVIOUS
<1>2. ASSUME NEW x  PROVE IsSeq(<<x>>) /\ Len(<<x>>) = 1 /\ <<x>>[1] = x
  <2>1. <<x>> \in Seq({x})  OBVIOUS
  <2> QED BY <2>1, AnySeq
<1>3. ASSUME NEW x, NEW y
      PROVE  IsSeq(<<x, y>>) /\ Len(<<x, y>>) = 2 /\ <<x>> \o <<y>> = <<x, y>>
  <2>1. <<x, y>> \in Seq({x, y}) /\ <<x>> \in Seq({x, y}) /\ <<y>> \in Seq({x, y})  OBVIOUS
  <2>2. IsSeq(<<x, y>>)  BY <2>1, AnySeq
  <2>3. <<x>> \o <<y>> = Append(<<x>>, y)  BY <2>1, AppendIsConcat
  <2>4. Append(<<x>>, y) = <<x, y>>  BY x \in {x, y}, y \in {x, y}, AppendToTuple
  <2> QED BY <2>2, <2>3, <2>4
<1>4. ASSUME NEW x, NEW y, NEW z
      PROVE  /\ IsSeq(<<x, y, z>>) /\ Len(<<x, y, z>>) = 3
             /\ <<x>> \o <<y, z>> = <<x, y, z>>
  <2> DEFINE S == {x, y, z}
  <2>1. /\ <<x, y, z>> \in Seq(S) /\ <<x>> \in Seq(S) /\ <<y, z>> \in Seq(S)
        /\ <<y>> \in Seq(S) /\ <<z>> \in Seq(S) /\ <<x, y>> \in Seq(S)
    OBVIOUS
  <2>2. IsSeq(<<x, y, z>>)  BY <2>1, AnySeq
  <2>3. <<y, z>> = <<y>> \o <<z>>  BY <1>3
  <2>4. <<x>> \o (<<y>> \o <<z>>) = (<<x>> \o <<y>>) \o <<z>>  BY <2>1, ConcatAssociative
  <2>5. <<x>> \o <<y>> = <<x, y>>  BY <1>3
  <2>6. <<x, y>> \o <<z>> = Append(<<x, y>>, z)  BY <2>1, AppendIsConcat
  <2>7. Append(<<x, y>>, z) = <<x, y, z>>  BY x \in S, y \in S, z \in S, AppendToTuple
  <2> QED BY <2>2, <2>3, <2>4, <2>5, <2>6, <2>7
<1> QED BY <1>1, <1>2, <1>3, <1>4, AnySeq

(* A function's frame goes on with other variables.                         *)
LEMMA RecordFacts ==
  ASSUME NEW f, f = [fn |-> f.fn, at |-> f.at, var |-> f.var, pops |-> f.pops,
                     entered |-> f.entered, saved |-> f.saved],
         NEW at, NEW v
  PROVE  [f EXCEPT !.at = at, !.var = v]
         = [fn |-> f.fn, at |-> at, var |-> v, pops |-> f.pops, entered |-> f.entered, saved |-> f.saved]
<1> DEFINE g == [f EXCEPT !.at = at]
           h == [g EXCEPT !.var = v]
<1>1. g = [fn |-> f.fn, at |-> at, var |-> f.var, pops |-> f.pops, entered |-> f.entered, saved |-> f.saved]
  OBVIOUS
<1>2. h = [fn |-> f.fn, at |-> at, var |-> v, pops |-> f.pops, entered |-> f.entered, saved |-> f.saved]
  <2> HIDE DEF g
  <2> QED BY <1>1
<1>3. [f EXCEPT !.at = at, !.var = v] = h  OBVIOUS
<1> QED BY <1>2, <1>3

-----------------------------------------------------------------------------
(* The root list is sorted by frames, and what a frame has rooted is a      *)
(* block of it: the running function pushes and pops at its end.            *)
BlockOf(i, names) == [j \in 1..Len(names) |-> [frame |-> i, name |-> names[j]]]

WithBlock(r, i, names) == r \o BlockOf(i, names)
WithoutBlock(r, names) == SubSeq(r, 1, Len(r) - Len(names))

Sorted(r, m) ==
  \A k \in 1..Len(r) :
    /\ r[k] = [frame |-> r[k].frame, name |-> r[k].name]
    /\ r[k].frame \in 1..m
    /\ \A l \in 1..Len(r) : k <= l => r[k].frame <= r[l].frame
Block(r, i, names, before) ==
  /\ \A k \in 1..Len(r) : r[k].frame = i <=> k \in before + 1..before + Len(names)
  /\ \A j \in 1..Len(names) : before + j \in 1..Len(r) /\ r[before + j].name = names[j]
HasBlock(r, i, names) == \E before \in 0..Len(r) : Block(r, i, names, before)

LEMMA BlockOfFacts ==
  ASSUME NEW i, NEW names, IsSeq(names)
  PROVE  /\ IsSeq(BlockOf(i, names)) /\ Len(BlockOf(i, names)) = Len(names)
         /\ \A j \in 1..Len(names) : BlockOf(i, names)[j] = [frame |-> i, name |-> names[j]]
<1> DEFINE S == {[frame |-> i, name |-> names[j]] : j \in 1..Len(names)}
<1>1. Len(names) \in Nat /\ DOMAIN names = 1..Len(names)  BY SeqFacts
<1>2. BlockOf(i, names) \in [1..Len(names) -> S]  BY <1>1 DEF BlockOf
<1> HIDE DEF S
<1>3. IsSeq(BlockOf(i, names)) /\ Len(BlockOf(i, names)) = Len(names)  BY <1>1, <1>2, MadeSeq
<1> QED  BY <1>1, <1>3 DEF BlockOf

(* The blocks of the callers stay when the function that runs roots names.  *)
LEMMA PushBlock ==
  ASSUME NEW r, IsSeq(r), NEW m \in Nat \ {0}, Sorted(r, m - 1), NEW names, IsSeq(names)
  PROVE  /\ IsSeq(WithBlock(r, m, names)) /\ Sorted(WithBlock(r, m, names), m)
         /\ HasBlock(WithBlock(r, m, names), m, names)
         /\ \A i \in 1..(m - 1) : \A old :
              IsSeq(old) /\ HasBlock(r, i, old) => HasBlock(WithBlock(r, m, names), i, old)
<1> DEFINE s == WithBlock(r, m, names)
<1> DEFINE t == BlockOf(m, names)
<1>1. /\ Len(r) \in Nat /\ DOMAIN r = 1..Len(r)
      /\ Len(names) \in Nat /\ DOMAIN names = 1..Len(names)
  BY SeqFacts
<1>2. /\ IsSeq(t) /\ Len(t) = Len(names)
      /\ \A j \in 1..Len(names) : t[j] = [frame |-> m, name |-> names[j]]
  BY BlockOfFacts
<1>0. s = r \o t  BY DEF WithBlock
<1> HIDE DEF s, t
<1>3. /\ IsSeq(s) /\ Len(s) = Len(r) + Len(names)
      /\ \A i \in 1..Len(r) : s[i] = r[i]
      /\ \A i \in 1..Len(names) : s[Len(r) + i] = t[i]
  <2>1. IsSeq(r \o t)  BY <1>2, ConcatFacts
  <2>2. Len(r \o t) = Len(r) + Len(t)  BY <1>2, ConcatFacts
  <2>3. \A i \in 1..Len(r) : (r \o t)[i] = r[i]  BY <1>2, ConcatFacts
  <2>4. \A i \in 1..Len(t) : (r \o t)[Len(r) + i] = t[i]  BY <1>2, ConcatFacts
  <2> QED BY <1>0, <1>2, <2>1, <2>2, <2>3, <2>4
<1>4. DOMAIN s = 1..Len(s)  BY <1>3, SeqFacts
<1>5. \A k \in 1..Len(s) :
        \/ k \in 1..Len(r) /\ s[k] = r[k]
        \/ k - Len(r) \in 1..Len(names) /\ s[k] = [frame |-> m, name |-> names[k - Len(r)]]
  <2> TAKE k \in 1..Len(s)
  <2>1. CASE k \in 1..Len(r)
    <3>1. s[k] = r[k]  BY <2>1, <1>3
    <3> QED BY <2>1, <3>1
  <2>2. CASE k \notin 1..Len(r)
    <3>1. k - Len(r) \in 1..Len(names) /\ k = Len(r) + (k - Len(r))  BY <2>2, <1>1, <1>3, <1>4
    <3> QED BY <3>1, <1>2, <1>3
  <2> QED BY <2>1, <2>2
<1>6. Sorted(s, m)
  <2> SUFFICES ASSUME NEW k \in 1..Len(s)
               PROVE  /\ s[k] = [frame |-> s[k].frame, name |-> s[k].name]
                      /\ s[k].frame \in 1..m
                      /\ \A l \in 1..Len(s) : k <= l => s[k].frame <= s[l].frame
    BY DEF Sorted
  <2>1. \A l \in 1..Len(r) : r[l].frame \in 1..(m-1) /\ r[l].frame <= m  BY <1>1 DEF Sorted
  <2>2. CASE k \in 1..Len(r) /\ s[k] = r[k]
    <3>1. r[k] = [frame |-> r[k].frame, name |-> r[k].name]  BY <1>1, <2>2 DEF Sorted
    <3>2. ASSUME NEW l \in 1..Len(s), k <= l  PROVE s[k].frame <= s[l].frame
      <4>1. CASE l \in 1..Len(r) /\ s[l] = r[l]  BY <4>1, <2>2, <3>2 DEF Sorted
      <4>2. CASE l - Len(r) \in 1..Len(names) /\ s[l] = [frame |-> m, name |-> names[l - Len(r)]]
        <5>1. r[k].frame <= m  BY <2>1, <2>2
        <5> QED BY <5>1, <4>2, <2>2
      <4> QED BY <4>1, <4>2, <1>5
    <3> QED BY <2>1, <2>2, <3>1, <3>2
  <2>3. CASE k - Len(r) \in 1..Len(names) /\ s[k] = [frame |-> m, name |-> names[k - Len(r)]]
    <3>1. ASSUME NEW l \in 1..Len(s), k <= l  PROVE s[k].frame <= s[l].frame
      <4>1. s[l] = [frame |-> m, name |-> names[l - Len(r)]]  BY <1>1, <1>5, <2>3, <3>1, <1>4, <1>3
      <4> QED BY <4>1, <2>3
    <3> QED BY <2>3, <3>1
  <2> QED BY <1>5, <2>2, <2>3
<1>7. HasBlock(s, m, names)
  <2>1. Len(r) \in 0..Len(s)  BY <1>1, <1>3
  <2>2. \A k \in 1..Len(s) : s[k].frame = m <=> k \in Len(r) + 1..Len(r) + Len(names)
    <3> TAKE k \in 1..Len(s)
    <3>1. k \in 1..Len(r) => r[k].frame # m  BY <1>1 DEF Sorted
    <3>2. CASE k \in 1..Len(r) /\ s[k] = r[k]
      <4>1. k \notin Len(r) + 1..Len(r) + Len(names)  BY <3>2, <1>1
      <4> QED BY <4>1, <3>1, <3>2
    <3>3. CASE k - Len(r) \in 1..Len(names) /\ s[k] = [frame |-> m, name |-> names[k - Len(r)]]
      <4>1. k \in Len(r) + 1..Len(r) + Len(names)  BY <3>3, <1>1, <1>3
      <4> QED BY <4>1, <3>3
    <3> QED BY <3>2, <3>3, <1>5
  <2>3. \A j \in 1..Len(names) : Len(r) + j \in 1..Len(s) /\ s[Len(r) + j].name = names[j]
    <3> TAKE j \in 1..Len(names)
    <3>1. Len(r) + j \in 1..Len(s)  BY <1>1, <1>3
    <3>2. s[Len(r) + j] = [frame |-> m, name |-> names[j]]  BY <1>2, <1>3
    <3> QED BY <3>1, <3>2
  <2> QED BY <2>1, <2>2, <2>3 DEF HasBlock, Block
<1>8. ASSUME NEW i \in 1..(m - 1), NEW old, IsSeq(old), HasBlock(r, i, old)
      PROVE  HasBlock(s, i, old)
  <2>1. PICK b \in 0..Len(r) : Block(r, i, old, b)  BY <1>8 DEF HasBlock
  <2>2. b \in 0..Len(s) /\ b \in Int  BY <1>1, <1>3
  <2>3. Len(old) \in Nat /\ DOMAIN old = 1..Len(old)  BY <1>8, SeqFacts
  <2>4. \A j \in 1..Len(old) : b + j \in 1..Len(s) /\ s[b + j].name = old[j]
    BY <1>1, <1>3, <1>4, <2>1 DEF Block
  <2>5. \A k \in 1..Len(s) : s[k].frame = i <=> k \in b + 1..b + Len(old)
    <3> TAKE k \in 1..Len(s)
    <3>1. CASE k \in 1..Len(r) /\ s[k] = r[k]  BY <3>1, <1>1, <2>1 DEF Block
    <3>2. CASE k - Len(r) \in 1..Len(names) /\ s[k] = [frame |-> m, name |-> names[k - Len(r)]]
      <4>1. b + Len(old) <= Len(r)
        <5>1. CASE Len(old) = 0  BY <5>1, <2>2, <1>1
        <5>2. CASE Len(old) # 0
          <6>1. b + Len(old) \in 1..Len(r)  BY <5>2, <2>1, <2>3 DEF Block
          <6> QED BY <6>1, <1>1
        <5> QED BY <5>1, <5>2
      <4>2. k > Len(r) /\ k \in Int  BY <3>2, <1>1, <1>4, <1>3
      <4>3. k \notin b + 1..b + Len(old)  BY <4>1, <4>2, <2>2, <2>3, <1>1
      <4> QED BY <4>3, <3>2
    <3> QED BY <3>1, <3>2, <1>5
  <2> QED BY <2>2, <2>4, <2>5 DEF HasBlock, Block
<1> QED  BY <1>3, <1>6, <1>7, <1>8 DEF s

(* They stay when it pops as many roots as it has pushed.                   *)
LEMMA PopBlock ==
  ASSUME NEW r, IsSeq(r), NEW m \in Nat \ {0}, Sorted(r, m), NEW names, IsSeq(names),
         HasBlock(r, m, names)
  PROVE  /\ Len(names) <= Len(r)
         /\ IsSeq(WithoutBlock(r, names)) /\ Sorted(WithoutBlock(r, names), m - 1)
         /\ r = WithBlock(WithoutBlock(r, names), m, names)
         /\ \A i \in 1..(m - 1) : \A old :
              IsSeq(old) /\ HasBlock(r, i, old) => HasBlock(WithoutBlock(r, names), i, old)
<1> DEFINE s == WithoutBlock(r, names)
<1>0. s = SubSeq(r, 1, Len(r) - Len(names))  BY DEF WithoutBlock
<1> HIDE DEF s
<1>1. /\ Len(r) \in Nat /\ DOMAIN r = 1..Len(r)
      /\ Len(names) \in Nat /\ DOMAIN names = 1..Len(names)
  BY SeqFacts
<1>2. PICK b \in 0..Len(r) : Block(r, m, names, b)  BY DEF HasBlock
<1>3. CASE Len(names) = 0
  <2>1. s = r  BY <1>0, <1>3, <1>1, SubSeqFull DEF IsSeq
  <2>2. \A k \in 1..Len(r) : r[k].frame # m  BY <1>1, <1>2, <1>3 DEF Block
  <2>3. Sorted(s, m - 1)
    <3> SUFFICES ASSUME NEW k \in 1..Len(r)
                 PROVE  /\ r[k] = [frame |-> r[k].frame, name |-> r[k].name]
                        /\ r[k].frame \in 1..(m - 1)
                        /\ \A l \in 1..Len(r) : k <= l => r[k].frame <= r[l].frame
      BY <2>1 DEF Sorted
    <3>1. r[k].frame \in 1..m  BY DEF Sorted
    <3>2. r[k].frame \in 1..(m - 1)  BY <3>1, <2>2
    <3> QED BY <3>2 DEF Sorted
  <2>4. IsSeq(BlockOf(m, names)) /\ Len(BlockOf(m, names)) = 0  BY <1>3, BlockOfFacts
  <2>6. r = s \o BlockOf(m, names)
    <3> DEFINE t == BlockOf(m, names)
               u == s \o t
    <3>0. IsSeq(t) /\ Len(t) = 0  BY <2>4
    <3> HIDE DEF t
    <3>1. IsSeq(u) /\ Len(u) = Len(s) + Len(t) /\ \A k \in 1..Len(s) : u[k] = s[k]
      BY <2>1, <3>0, ConcatFacts
    <3> HIDE DEF u
    <3>3. Len(u) = Len(r) /\ \A k \in 1..Len(r) : r[k] = u[k]  BY <3>0, <3>1, <2>1, <1>1
    <3>2. r = u  BY <3>1, <3>3, SameSeq
    <3> QED BY <3>2 DEF u, t
  <2>7. Len(names) <= Len(r)  BY <1>1, <1>3
  <2>8. IsSeq(s)  BY <2>1
  <2> QED BY <2>1, <2>3, <2>6, <2>7, <2>8 DEF s, WithBlock
<1>4. CASE Len(names) # 0
  <2>1. b + Len(names) = Len(r)
    <3>1. b + Len(names) \in 1..Len(r) /\ r[b + Len(names)].frame = m
      BY <1>1, <1>2, <1>4 DEF Block
    <3>2. Len(r) \in 1..Len(r) /\ r[Len(r)].frame >= m /\ r[Len(r)].frame \in 1..m
      BY <1>1, <3>1 DEF Sorted
    <3>3. Len(r) \in b + 1..b + Len(names)  BY <3>2, <1>2 DEF Block
    <3> QED
      <4>1. b \in Nat /\ Len(r) \in Nat /\ Len(names) \in Nat  BY <1>1
      <4>2. b + Len(names) <= Len(r) /\ Len(r) <= b + Len(names)  BY <3>1, <3>3, <4>1
      <4> QED BY <4>1, <4>2
  <2>2. Len(names) <= Len(r) /\ b = Len(r) - Len(names)  BY <2>1, <1>1
  <2>3. IsSeq(s) /\ Len(s) = b /\ \A k \in 1..b : s[k] = r[k]  BY <1>0, <2>2, SubSeqFacts
  <2>4. DOMAIN s = 1..b  BY <2>3, SeqFacts
  <2>5. \A k \in 1..b : k \in 1..Len(r) /\ r[k].frame # m /\ s[k] = r[k]
    BY <1>1, <1>2, <2>1, <2>3 DEF Block
  <2>6. Sorted(s, m - 1)  BY <2>4, <2>5 DEF Sorted
  <2>7. r = s \o BlockOf(m, names)
    <3> DEFINE t == BlockOf(m, names)
               u == s \o t
    <3>1. /\ IsSeq(t) /\ Len(t) = Len(names)
          /\ \A j \in 1..Len(names) : t[j] = [frame |-> m, name |-> names[j]]
      BY BlockOfFacts
    <3> HIDE DEF t
    <3>2. /\ IsSeq(u) /\ Len(u) = b + Len(names)
          /\ \A i \in 1..b : u[i] = s[i]
          /\ \A i \in 1..Len(names) : u[b + i] = t[i]
      <4>1. /\ IsSeq(u) /\ Len(u) = Len(s) + Len(t)
            /\ \A i \in 1..Len(s) : u[i] = s[i]
            /\ \A i \in 1..Len(t) : u[Len(s) + i] = t[i]
        <5>1. IsSeq(s \o t)  BY <2>3, <3>1, ConcatFacts
        <5>2. Len(s \o t) = Len(s) + Len(t)  BY <2>3, <3>1, ConcatFacts
        <5>3. \A i \in 1..Len(s) : (s \o t)[i] = s[i]  BY <2>3, <3>1, ConcatFacts
        <5>4. \A i \in 1..Len(t) : (s \o t)[Len(s) + i] = t[i]  BY <2>3, <3>1, ConcatFacts
        <5> QED BY <5>1, <5>2, <5>3, <5>4
      <4> QED BY <4>1, <2>3, <3>1
    <3> HIDE DEF u
    <3>3. ASSUME NEW k \in 1..Len(r)  PROVE r[k] = u[k]
      <4>1. CASE k \in 1..b  BY <4>1, <3>2, <2>3
      <4>2. CASE k \notin 1..b
        <5>1. k - b \in 1..Len(names) /\ k = b + (k - b)  BY <4>2, <2>1, <1>1
        <5>2. r[k].name = names[k - b]  BY <5>1, <1>1, <1>2 DEF Block
        <5>3. r[k].frame = m  BY <5>1, <1>1, <1>2, <2>1 DEF Block
        <5>4. r[k] = [frame |-> m, name |-> names[k - b]]  BY <5>2, <5>3, <1>1 DEF Sorted
        <5>5. u[k] = t[k - b]  BY <5>1, <3>2
        <5> QED BY <5>1, <5>4, <5>5, <3>1
      <4> QED BY <4>1, <4>2
    <3>4. Len(u) = Len(r)  BY <3>2, <2>1
    <3>5. r = u  BY <3>2, <3>3, <3>4, SameSeq
    <3> QED BY <3>5 DEF u, t
  <2>8. ASSUME NEW i \in 1..(m - 1), NEW old, IsSeq(old), HasBlock(r, i, old)
        PROVE  HasBlock(s, i, old)
    <3>1. PICK c \in 0..Len(r) : Block(r, i, old, c)  BY <2>8 DEF HasBlock
    <3>2. Len(old) \in Nat /\ DOMAIN old = 1..Len(old)  BY <2>8, SeqFacts
    <3>3. CASE Len(old) = 0
      <4>1. \A k \in 1..Len(s) : s[k].frame # i  BY <2>4, <2>5, <3>1, <3>3 DEF Block
      <4>2. Block(s, i, old, 0)  BY <4>1, <3>2, <3>3 DEF Block
      <4>3. Len(s) \in Nat  BY <2>3, SeqFacts
      <4>4. 0 \in 0..Len(s)  BY <4>3
      <4> QED BY <4>2, <4>4 DEF HasBlock
    <3>4. CASE Len(old) # 0
      <4>1. c + Len(old) \in 1..Len(r) /\ r[c + Len(old)].frame = i
        <5>1. Len(old) \in 1..Len(old)  BY <3>2, <3>4
        <5>2. c + Len(old) \in 1..Len(r)  BY <5>1, <3>1 DEF Block
        <5>3. c + Len(old) \in c + 1..c + Len(old)  BY <3>2, <3>4, <1>1
        <5> QED BY <5>2, <5>3, <3>1 DEF Block
      <4>2. c + Len(old) <= b
        <5>1. r[c + Len(old)].frame # m  BY <4>1
        <5>2. c + Len(old) \notin b + 1..b + Len(names)  BY <5>1, <4>1, <1>2 DEF Block
        <5> QED BY <5>2, <4>1, <1>1, <2>1
      <4>3. c \in 0..Len(s)
        <5>1. c \in Nat /\ Len(old) \in Nat  BY <3>2, <1>1
        <5>2. Len(s) = b  BY <2>3
        <5> QED BY <5>1, <5>2, <4>2
      <4>4. \A k \in 1..Len(s) : s[k].frame = i <=> k \in c + 1..c + Len(old)
        BY <2>4, <2>5, <3>1 DEF Block
      <4>5. \A j \in 1..Len(old) : c + j \in 1..Len(s) /\ s[c + j].name = old[j]
        <5> TAKE j \in 1..Len(old)
        <5>1. c + j \in 1..Len(r) /\ r[c + j].name = old[j]  BY <3>1 DEF Block
        <5>2. c + j <= b  BY <3>2, <4>2, <1>1
        <5> QED BY <5>1, <5>2, <2>3
      <4> QED BY <4>3, <4>4, <4>5 DEF HasBlock, Block
    <3> QED BY <3>3, <3>4
  <2> QED BY <2>2, <2>3, <2>6, <2>7, <2>8 DEF s, WithBlock
<1> QED  BY <1>3, <1>4
-----------------------------------------------------------------------------
(* What a collection keeps contains what it starts from, and whatever what  *)
(* it keeps points to: nothing that is kept points to an object freed.  The *)
(* recursive definition of mark has a solution, the least closed set above *)
(* the one it is given, and by induction on what is not yet seen every      *)
(* solution is closed.                                                     *)

Followed(pointers, seen) ==
  seen \union ((UNION {pointers[a] : a \in seen}) \intersect DOMAIN pointers)
ClosedUnder(pointers, S) == \A a \in S : pointers[a] \intersect DOMAIN pointers \subseteq S
IsMark(pointers, mark) ==
  mark = [seen \in SUBSET DOMAIN pointers |->
            IF Followed(pointers, seen) = seen THEN seen ELSE mark[Followed(pointers, seen)]]
Closure(pointers, seen) ==
  {a \in DOMAIN pointers :
     \A T \in SUBSET DOMAIN pointers : seen \subseteq T /\ ClosedUnder(pointers, T) => a \in T}

LEMMA ClosureIsMark ==
  ASSUME NEW pointers
  PROVE  IsMark(pointers, [seen \in SUBSET DOMAIN pointers |-> Closure(pointers, seen)])
<1> DEFINE Addr == DOMAIN pointers
           Next(seen) == Followed(pointers, seen)
           W == [seen \in SUBSET Addr |-> Closure(pointers, seen)]
<1>1. ASSUME NEW seen \in SUBSET Addr
      PROVE  /\ Next(seen) \in SUBSET Addr
             /\ \A T \in SUBSET Addr : ClosedUnder(pointers, T) => (seen \subseteq T <=> Next(seen) \subseteq T)
             /\ Next(seen) = seen <=> ClosedUnder(pointers, seen)
  BY DEF Followed, ClosedUnder
<1>2. ASSUME NEW seen \in SUBSET Addr
      PROVE  W[seen] = IF Next(seen) = seen THEN seen ELSE W[Next(seen)]
  <2>1. CASE Next(seen) = seen
    <3>1. ClosedUnder(pointers, seen)  BY <1>1, <2>1
    <3>2. Closure(pointers, seen) = seen  BY <3>1 DEF Closure
    <3> QED BY <2>1, <3>2
  <2>2. CASE Next(seen) # seen
    <3>1. Closure(pointers, Next(seen)) = Closure(pointers, seen)  BY <1>1 DEF Closure
    <3> QED BY <3>1, <2>2, <1>1
  <2> QED BY <2>1, <2>2
<1>3. W = [seen \in SUBSET Addr |-> IF Next(seen) = seen THEN seen ELSE W[Next(seen)]]
  BY <1>2, Zenon
<1> QED BY <1>3 DEF IsMark

LEMMA MarkIsRight ==
  ASSUME NEW pointers, IsFiniteSet(DOMAIN pointers), NEW mark, IsMark(pointers, mark),
         NEW seen \in SUBSET DOMAIN pointers
  PROVE  /\ seen \subseteq mark[seen] /\ mark[seen] \subseteq DOMAIN pointers
         /\ ClosedUnder(pointers, mark[seen])
<1> DEFINE Addr == DOMAIN pointers
           Next(s) == Followed(pointers, s)
           Good(s) == s \subseteq mark[s] /\ mark[s] \subseteq Addr /\ ClosedUnder(pointers, mark[s])
           Bad == {s \in SUBSET Addr : ~ Good(s)}
           Rests == {Addr \ s : s \in Bad}
<1> SUFFICES ASSUME seen \in Bad PROVE FALSE
  OBVIOUS
<1>1. Rests \subseteq FiniteSubsetsOf(Addr) /\ Rests # {}
  <2>1. \A s \in SUBSET Addr : Addr \ s \in SUBSET Addr /\ IsFiniteSet(Addr \ s)  BY FS_Subset
  <2> QED BY <2>1 DEF FiniteSubsetsOf
<1>2. PICK r \in Rests : \A t \in Rests : ~ (<<t, r>> \in StrictSubsetOrdering(Addr))
  <2> HIDE DEF Rests
  <2> QED BY <1>1, WFMin, FS_StrictSubsetOrderingWellFounded
<1>3. PICK s \in Bad : r = Addr \ s  OBVIOUS
<1>4. mark[s] = IF Next(s) = s THEN s ELSE mark[Next(s)]  BY <1>3 DEF IsMark
<1>5. Next(s) # s
  <2> SUFFICES ASSUME Next(s) = s PROVE FALSE
    OBVIOUS
  <2>1. mark[s] = s  BY <1>4
  <2>2. ClosedUnder(pointers, s)  BY <1>3 DEF Followed, ClosedUnder
  <2> QED BY <2>1, <2>2, <1>3
<1>6. Next(s) \in SUBSET Addr /\ s \subseteq Next(s)  BY <1>3 DEF Followed
<1>7. Next(s) \notin Bad
  <2> SUFFICES ASSUME Next(s) \in Bad PROVE FALSE
    OBVIOUS
  <2>1. Addr \ Next(s) \in Rests  OBVIOUS
  <2>2. /\ Addr \ Next(s) \subseteq r /\ Addr \ Next(s) # r
        /\ r \in SUBSET Addr /\ Addr \ Next(s) \in SUBSET Addr
    BY <1>3, <1>5, <1>6
  <2> HIDE DEF Rests, Bad
  <2> QED BY <1>2, <2>1, <2>2 DEF StrictSubsetOrdering
<1>8. Good(Next(s))  BY <1>6, <1>7
<1>9. mark[s] = mark[Next(s)]  BY <1>4, <1>5
<1> QED BY <1>3, <1>6, <1>8, <1>9

LEMMA MarkedFacts ==
  ASSUME NEW pointers, IsFiniteSet(DOMAIN pointers), NEW start
  PROVE  /\ start \intersect DOMAIN pointers \subseteq Marked(pointers, start)
         /\ Marked(pointers, start) \subseteq DOMAIN pointers
         /\ ClosedUnder(pointers, Marked(pointers, start))
<1> DEFINE mark == CHOOSE mark : IsMark(pointers, mark)
           seen == start \intersect DOMAIN pointers
<1>1. IsMark(pointers, mark)  BY ClosureIsMark
<1>2. Marked(pointers, start) = mark[seen]  BY DEF Marked, IsMark, Followed
<1> HIDE DEF mark, seen
<1>3. seen \in SUBSET DOMAIN pointers  BY DEF seen
<1> QED BY <1>1, <1>2, <1>3, MarkIsRight DEF seen

-----------------------------------------------------------------------------
(* Going on in a sequence until there is nothing to skip: the recursive     *)
(* definition has a solution, and every solution ends where it should.      *)

LEMMA LeastNat ==
  ASSUME NEW T \in SUBSET Nat, T # {}
  PROVE  \E least \in T : \A n \in T : least <= n
<1> DEFINE I == {1..n : n \in T}
<1>1. \A n \in Nat : IsFiniteSet(1..n)  BY FS_Interval
<1>2. I \subseteq FiniteSubsetsOf(Nat)
  <2>1. \A n \in Nat : 1..n \subseteq Nat /\ 1..n \in FiniteSubsetsOf(Nat)  BY <1>1 DEF FiniteSubsetsOf
  <2> QED BY <2>1
<1>3. I # {}  OBVIOUS
<1>4. PICK s \in I : \A t \in I : ~ (<<t, s>> \in StrictSubsetOrdering(Nat))
  <2> HIDE DEF I
  <2> QED BY <1>2, <1>3, WFMin, FS_StrictSubsetOrderingWellFounded
<1>5. PICK m \in T : s = 1..m  BY <1>4
<1>6. ASSUME NEW n \in T PROVE m <= n
  <2>1. ~ (<<1..n, 1..m>> \in StrictSubsetOrdering(Nat))  BY <1>4, <1>5
  <2>2. SUFFICES ASSUME n < m PROVE FALSE  OBVIOUS
  <2>3. m \in 1..m /\ m \notin 1..n /\ 1..n \subseteq 1..m  BY <2>2
  <2>4. 1..n \in SUBSET Nat /\ 1..m \in SUBSET Nat  OBVIOUS
  <2> HIDE DEF I
  <2> QED BY <2>1, <2>3, <2>4, <1>1 DEF StrictSubsetOrdering
<1> QED BY <1>6

LEMMA GreatestIn ==
  ASSUME NEW N \in Nat, NEW T \in SUBSET (1..N), T # {}
  PROVE  \E greatest \in T : \A n \in T : n <= greatest
<1> DEFINE R == {N - n : n \in T}
<1>1. R \in SUBSET Nat /\ R # {}  OBVIOUS
<1>2. PICK least \in R : \A n \in R : least <= n
  <2> HIDE DEF R
  <2> QED BY <1>1, LeastNat
<1>3. PICK m \in T : least = N - m  OBVIOUS
<1>4. \A n \in T : N - m <= N - n  BY <1>2, <1>3
<1>5. \A n \in T : n <= m  BY <1>4
<1> QED BY <1>5

Orbit(S, ahead, p) ==
  {q \in S : \A T \in SUBSET S : p \in T /\ (\A r \in T : ahead[r] \in T) => q \in T}
IsSkip(S, ahead, skip) ==
  skip = [p \in S |-> IF ahead[p] = p THEN p ELSE skip[ahead[p]]]

LEMMA SkipExists ==
  ASSUME NEW S, NEW ahead \in [S -> S]
  PROVE  \E skip : IsSkip(S, ahead, skip)
<1> DEFINE Ends(p) == {q \in Orbit(S, ahead, p) : ahead[q] = q}
           W == [p \in S |-> CHOOSE q : q \in Ends(p)]
<1>1. ASSUME NEW p \in S, ahead[p] = p  PROVE W[p] = p
  <2>1. Ends(p) = {p}
    <3>1. {p} \in SUBSET S /\ \A r \in {p} : ahead[r] \in {p}  BY <1>1
    <3>2. \A q \in Orbit(S, ahead, p) : q = p  BY <3>1 DEF Orbit
    <3>3. p \in Orbit(S, ahead, p)  BY DEF Orbit
    <3> QED BY <1>1, <3>2, <3>3
  <2> HIDE DEF Ends
  <2> QED BY <2>1
<1>2. ASSUME NEW p \in S, ahead[p] # p  PROVE W[p] = W[ahead[p]]
  <2>1. Ends(p) \subseteq Ends(ahead[p])
    <3> SUFFICES ASSUME NEW q \in Orbit(S, ahead, p), ahead[q] = q,
                        NEW T \in SUBSET S, ahead[p] \in T, \A r \in T : ahead[r] \in T
                 PROVE  q \in T
      BY DEF Orbit
    <3>1. T \union {p} \in SUBSET S /\ \A r \in T \union {p} : ahead[r] \in T \union {p}
      OBVIOUS
    <3>2. q \in T \union {p}  BY <3>1 DEF Orbit
    <3> QED BY <3>2, <1>2
  <2>2. Ends(ahead[p]) \subseteq Ends(p)  BY DEF Orbit
  <2>3. Ends(p) = Ends(ahead[p])  BY <2>1, <2>2
  <2>4. ahead[p] \in S  OBVIOUS
  <2> HIDE DEF Ends
  <2> QED BY <2>3, <2>4
<1> HIDE DEF W
<1>3. \A p \in S : W[p] = IF ahead[p] = p THEN p ELSE W[ahead[p]]  BY <1>1, <1>2
<1>4. W = [p \in S |-> W[p]]  BY DEF W
<1>5. W = [p \in S |-> IF ahead[p] = p THEN p ELSE W[ahead[p]]]  BY <1>3, <1>4
<1> QED BY <1>5 DEF IsSkip

LEMMA SkipIsRight ==
  ASSUME NEW N \in Nat, NEW ahead \in [1..N -> 1..N], \A p \in 1..N : p <= ahead[p],
         NEW skip, IsSkip(1..N, ahead, skip), NEW start \in 1..N
  PROVE  skip[start] \in start..N /\ ahead[skip[start]] = skip[start]
<1> DEFINE Right(p) == skip[p] \in p..N /\ ahead[skip[p]] = skip[p]
           Bad == {p \in 1..N : ~ Right(p)}
<1> SUFFICES ASSUME Bad # {} PROVE FALSE
  OBVIOUS
<1>1. PICK p \in Bad : \A n \in Bad : n <= p
  <2>1. Bad \in SUBSET (1..N)  OBVIOUS
  <2> HIDE DEF Bad
  <2> QED BY <2>1, GreatestIn
<1>2. skip[p] = IF ahead[p] = p THEN p ELSE skip[ahead[p]]  BY <1>1 DEF IsSkip
<1>3. CASE ahead[p] = p  BY <1>1, <1>2, <1>3
<1>4. CASE ahead[p] # p
  <2>1. ahead[p] \in 1..N /\ ahead[p] > p  BY <1>1, <1>4
  <2>2. ahead[p] \notin Bad  BY <2>1, <1>1
  <2>3. Right(ahead[p])  BY <2>1, <2>2
  <2> QED BY <2>1, <2>3, <1>1, <1>2, <1>4
<1> QED BY <1>3, <1>4

(* Going up from one to another until a place to stop at, the numbers       *)
(* decreasing on the way.                                                  *)
Climbs(S, stops, up) ==
  /\ stops \subseteq S /\ S \ stops \subseteq Nat
  /\ \A e \in S \ stops : up[e] \in stops \/ (up[e] \in S \ stops /\ up[e] < e)
IsSearch(S, stops, up, search) ==
  search = [e \in S |-> IF e \in stops THEN e ELSE search[up[e]]]

LEMMA SearchExists ==
  ASSUME NEW S, NEW stops, NEW up, Climbs(S, stops, up)
  PROVE  \E search : IsSearch(S, stops, up, search)
<1> DEFINE ahead == [e \in S |-> IF e \in stops THEN e ELSE up[e]]
<1>1. ahead \in [S -> S]  BY DEF Climbs
<1>2. \A e \in S : (ahead[e] = e <=> e \in stops) /\ (e \notin stops => ahead[e] = up[e])
  <2> TAKE e \in S
  <2>1. CASE e \in stops  BY <2>1
  <2>2. CASE e \notin stops
    <3>1. ahead[e] = up[e]  BY <2>2
    <3>2. up[e] # e  BY <2>2 DEF Climbs
    <3> QED BY <3>1, <3>2, <2>2
  <2> QED BY <2>1, <2>2
<1> HIDE DEF ahead
<1>3. PICK skip : IsSkip(S, ahead, skip)  BY <1>1, SkipExists
<1>4. \A e \in S : skip[e] = IF e \in stops THEN e ELSE skip[up[e]]
  <2> TAKE e \in S
  <2>1. skip[e] = IF ahead[e] = e THEN e ELSE skip[ahead[e]]  BY <1>3 DEF IsSkip
  <2>2. CASE e \in stops  BY <2>1, <2>2, <1>2
  <2>3. CASE e \notin stops  BY <2>1, <2>3, <1>2
  <2> QED BY <2>2, <2>3
<1>5. skip = [e \in S |-> skip[e]]  BY <1>3 DEF IsSkip
<1>6. skip = [e \in S |-> IF e \in stops THEN e ELSE skip[up[e]]]  BY <1>4, <1>5
<1> QED BY <1>6 DEF IsSearch

LEMMA SearchIsRight ==
  ASSUME NEW S, NEW stops, NEW up, Climbs(S, stops, up), NEW search, IsSearch(S, stops, up, search),
         NEW start \in S
  PROVE  search[start] \in stops
<1> DEFINE Bad == {e \in S \ stops : search[e] \notin stops}
<1>1. \A e \in S : search[e] = IF e \in stops THEN e ELSE search[up[e]]  BY DEF IsSearch
<1>2. Bad = {}
  <2> SUFFICES ASSUME Bad # {} PROVE FALSE
    OBVIOUS
  <2>1. Bad \in SUBSET Nat  BY DEF Climbs
  <2>2. PICK e \in Bad : \A n \in Bad : e <= n
    <3> HIDE DEF Bad
    <3> QED BY <2>1, LeastNat
  <2>3. e \in S \ stops /\ search[e] = search[up[e]] /\ search[e] \notin stops  BY <1>1
  <2>4. CASE up[e] \in stops
    <3>1. search[up[e]] = up[e]  BY <2>4, <1>1 DEF Climbs
    <3> QED BY <3>1, <2>3, <2>4
  <2>5. CASE up[e] \in S \ stops /\ up[e] < e
    <3>1. up[e] \in Nat /\ e \in Nat  BY <2>1, <2>5 DEF Climbs
    <3>2. up[e] \notin Bad  BY <3>1, <2>2, <2>5
    <3> QED BY <3>2, <2>3, <2>5
  <2> QED BY <2>3, <2>4, <2>5 DEF Climbs
<1> QED BY <1>1, <1>2

-----------------------------------------------------------------------------
(* What can be reached from a set of addresses: it contains the set, it is  *)
(* closed, and it is in every closed set that contains the set.            *)

LEMMA ClosureFacts ==
  ASSUME NEW pointers, NEW seen \in SUBSET DOMAIN pointers
  PROVE  /\ seen \subseteq Closure(pointers, seen) /\ Closure(pointers, seen) \subseteq DOMAIN pointers
         /\ ClosedUnder(pointers, Closure(pointers, seen))
         /\ \A T \in SUBSET DOMAIN pointers :
              seen \subseteq T /\ ClosedUnder(pointers, T) => Closure(pointers, seen) \subseteq T
<1>1. seen \subseteq Closure(pointers, seen) /\ Closure(pointers, seen) \subseteq DOMAIN pointers
  BY DEF Closure
<1>2. ClosedUnder(pointers, Closure(pointers, seen))  BY DEF Closure, ClosedUnder
<1>3. \A T \in SUBSET DOMAIN pointers :
        seen \subseteq T /\ ClosedUnder(pointers, T) => Closure(pointers, seen) \subseteq T
  BY DEF Closure
<1> QED BY <1>1, <1>2, <1>3

(* It stays reachable if nothing on the way changes.                        *)
LEMMA ClosureStays ==
  ASSUME NEW before, NEW after, DOMAIN before \subseteq DOMAIN after,
         NEW seen \in SUBSET DOMAIN before, NEW start, seen \subseteq start,
         \A a \in Closure(before, seen) : before[a] \subseteq after[a]
  PROVE  Closure(before, seen) \subseteq Closure(after, start)
<1> DEFINE C == Closure(before, seen)
<1>1. seen \subseteq C /\ C \subseteq DOMAIN before /\ ClosedUnder(before, C)
  BY ClosureFacts
<1>2. ASSUME NEW v \in C, NEW T \in SUBSET DOMAIN after, start \subseteq T, ClosedUnder(after, T)
      PROVE  v \in T
  <2> DEFINE U == {a \in C : a \in T}
  <2>1. U \in SUBSET DOMAIN before /\ seen \subseteq U  BY <1>1, <1>2
  <2>2. ClosedUnder(before, U)
    <3> SUFFICES ASSUME NEW a \in U, NEW b \in before[a], b \in DOMAIN before
                 PROVE  b \in C /\ b \in T
      BY DEF ClosedUnder
    <3>1. b \in C  BY <1>1 DEF ClosedUnder
    <3>2. b \in after[a] /\ b \in DOMAIN after  OBVIOUS
    <3>3. b \in T  BY <1>2, <3>2 DEF ClosedUnder
    <3> QED BY <3>1, <3>3
  <2>3. C \subseteq U  BY <2>1, <2>2, ClosureFacts
  <2> QED BY <2>3
<1> QED BY <1>1, <1>2 DEF Closure
=============================================================================
