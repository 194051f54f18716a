----------------------------- MODULE UtilProofs -----------------------------
(***************************************************************************)
(* What the rest of the system is built on: the string buffer and the array *)
(* list of src/util, the collector's table of types, symbols, and stacks.   *)
(***************************************************************************)
EXTENDS StringBuffer, ArrayList, TypeRegistry, SymbolTable, LinkedStack, Facts

-----------------------------------------------------------------------------
(* StringBuffer.tla.  The buffer is terminated without anybody writing a   *)
(* terminator, and implements a text: for every INCREMENT, every set of     *)
(* characters, and texts of every length.                                  *)

(* What StringTypeOK and ZerosFollow say of a buffer: the inductive invariant. *)
GoodBuffer(b) ==
  /\ b = [s |-> b.s, len |-> b.len, cap |-> b.cap]
  /\ b.len \in Nat /\ b.cap \in Nat
  /\ b.s \in [0..(b.cap - 1) -> Char]
  /\ b.len < b.cap /\ \A i \in b.len..(b.cap - 1) : b.s[i] = NUL

LEMMA BufferCreateIsGood == GoodBuffer(string_create)
  BY CharAssumption, IncrementAssumption DEF GoodBuffer, string_create, zeroed

(* Growing, or trimming, keeps the text and what follows it. *)
LEMMA CopyIsGood ==
  ASSUME NEW b, GoodBuffer(b), NEW size \in Nat, b.len < size
  PROVE  /\ GoodBuffer(copy_to_new(b, size))
         /\ copy_to_new(b, size).len = b.len
         /\ copy_to_new(b, size).cap = size
         /\ \A i \in 0..(b.len - 1) : copy_to_new(b, size).s[i] = b.s[i]
<1> DEFINE ns == [i \in 0..(size - 1) |-> IF i <= b.len THEN b.s[i] ELSE zeroed(size)[i]]
<1>1. copy_to_new(b, size) = [s |-> ns, len |-> b.len, cap |-> size]
  BY DEF copy_to_new
<1>2. \A i \in 0..(size - 1) : ns[i] \in Char /\ (i >= b.len => ns[i] = NUL)
  <2> TAKE i \in 0..(size - 1)
  <2>1. CASE i <= b.len
    BY <2>1 DEF GoodBuffer
  <2>2. CASE i > b.len
    BY <2>2, CharAssumption DEF GoodBuffer, zeroed
  <2> QED BY <2>1, <2>2 DEF GoodBuffer
<1>3. \A i \in 0..(b.len - 1) : ns[i] = b.s[i]
  BY DEF GoodBuffer
<1> HIDE DEF ns
<1> QED BY <1>1, <1>2, <1>3 DEF GoodBuffer, ns

(* Appending keeps what was there and adds what is appended. *)
LEMMA BufferAppendIsGood ==
  ASSUME NEW b, GoodBuffer(b), NEW t \in Seq(Char), NEW cap \in Nat,
         b.len + Len(t) < cap
  PROVE  /\ GoodBuffer(append(b, t, cap))
         /\ append(b, t, cap).len = b.len + Len(t)
         /\ append(b, t, cap).cap = cap
         /\ \A i \in 0..(b.len - 1) : append(b, t, cap).s[i] = b.s[i]
         /\ \A i \in 1..Len(t) : append(b, t, cap).s[b.len + i - 1] = t[i]
<1> DEFINE g == IF cap = b.cap THEN b ELSE copy_to_new(b, cap)
           n == Len(t)
           ns == [i \in 0..(cap - 1) |->
                    IF i \in b.len..(b.len + n - 1) THEN t[i - b.len + 1] ELSE g.s[i]]
<1>1. n \in Nat
  OBVIOUS
<1>2. GoodBuffer(g) /\ g.len = b.len /\ g.cap = cap /\ \A i \in 0..(b.len - 1) : g.s[i] = b.s[i]
  <2>1. CASE cap = b.cap
    BY <2>1 DEF GoodBuffer
  <2>2. CASE cap # b.cap
    <3>1. b.len < cap
      BY <1>1 DEF GoodBuffer
    <3> QED BY <2>2, <3>1, CopyIsGood
  <2> QED BY <2>1, <2>2
<1>3. append(b, t, cap) = [s |-> ns, len |-> b.len + n, cap |-> cap]
  BY DEF append
<1> HIDE DEF g
<1>4. \A i \in 0..(cap - 1) : ns[i] \in Char /\ (i >= b.len + n => ns[i] = NUL)
  <2> TAKE i \in 0..(cap - 1)
  <2>1. CASE i \in b.len..(b.len + n - 1)
    <3>1. i - b.len + 1 \in 1..n
      BY <1>1, <2>1 DEF GoodBuffer
    <3> QED BY <3>1, <2>1, <1>1 DEF GoodBuffer
  <2>2. CASE i \notin b.len..(b.len + n - 1)
    BY <2>2, <1>1, <1>2 DEF GoodBuffer
  <2> QED BY <2>1, <2>2
<1>5. \A i \in 0..(b.len - 1) : ns[i] = b.s[i]
  BY <1>1, <1>2 DEF GoodBuffer
<1>6. \A i \in 1..n : ns[b.len + i - 1] = t[i]
  <2> TAKE i \in 1..n
  <2>1. b.len + i - 1 \in b.len..(b.len + n - 1) /\ b.len + i - 1 \in 0..(cap - 1)
    BY <1>1 DEF GoodBuffer
  <2>2. (b.len + i - 1) - b.len + 1 = i
    BY <1>1 DEF GoodBuffer
  <2> QED BY <2>1, <2>2
<1>7. b.len + n \in Nat /\ b.len + n < cap
  BY <1>1 DEF GoodBuffer
<1> HIDE DEF ns
<1>8. GoodBuffer([s |-> ns, len |-> b.len + n, cap |-> cap])
  BY <1>1, <1>4, <1>7 DEF GoodBuffer, ns
<1> QED BY <1>3, <1>5, <1>6, <1>8

LEMMA StopsAtIsEnough ==
  ASSUME NEW cap \in Nat, NEW len \in Nat, NEW c \in StopsAt(cap, len)
  PROVE  c \in Nat /\ len < c - 1
  BY DEF StopsAt

LEMMA CStringsAreSequences == CStrings \subseteq Seq(Char)
  BY CharAssumption

LEMMA FunctionIsSeq ==
  ASSUME NEW S, NEW n \in Nat, NEW f \in [1..n -> S]
  PROVE  f \in Seq(S) /\ Len(f) = n
  BY DEF Seq

LEMMA TextIsSeq ==
  ASSUME NEW b, GoodBuffer(b)
  PROVE  /\ TextOf(b) \in Seq(Char) /\ Len(TextOf(b)) = b.len
         /\ \A i \in 1..b.len : TextOf(b)[i] = b.s[i - 1]
<1>1. TextOf(b) \in [1..b.len -> Char]
  BY DEF TextOf, GoodBuffer
<1> QED BY <1>1, FunctionIsSeq DEF TextOf, GoodBuffer

LEMMA AppendCharIsGood ==
  ASSUME GoodBuffer(str), NEW c \in Char, string_append_char(c)
  PROVE  GoodBuffer(str') /\ TextOf(str') = Append(TextOf(str), c)
<1> DEFINE b == IF IsFull(str) THEN copy_to_new(str, str.cap + INCREMENT) ELSE str
           u == [s |-> [b.s EXCEPT ![b.len] = c], len |-> b.len + 1, cap |-> b.cap]
<1>1. /\ GoodBuffer(b) /\ b.len = str.len /\ b.len + 1 < b.cap
      /\ \A i \in 0..(str.len - 1) : b.s[i] = str.s[i]
  <2>1. CASE IsFull(str)
    <3>1. str.cap + INCREMENT \in Nat /\ str.len + 1 < str.cap + INCREMENT
      BY IncrementAssumption DEF GoodBuffer
    <3>2. b = copy_to_new(str, str.cap + INCREMENT)
      BY <2>1
    <3>3. str.len < str.cap + INCREMENT /\ str.len + 1 < str.cap + INCREMENT
      BY <3>1 DEF GoodBuffer
    <3> HIDE DEF b
    <3> QED BY <3>1, <3>2, <3>3, CopyIsGood
  <2>2. CASE ~ IsFull(str)
    BY <2>2 DEF GoodBuffer, IsFull
  <2> QED BY <2>1, <2>2
<1>2. str' = u
  BY DEF string_append_char
<1> HIDE DEF b
<1>3. GoodBuffer(u)
  BY <1>1 DEF GoodBuffer
<1>4. TextOf(u) = Append(TextOf(str), c)
  <2>1. u.len = str.len + 1 /\ u.s[str.len] = c /\ str.len \in Nat
    BY <1>1 DEF GoodBuffer
  <2>2. \A i \in 0..(str.len - 1) : u.s[i] = str.s[i]
    BY <1>1 DEF GoodBuffer
  <2> HIDE DEF u
  <2>3. /\ TextOf(u) \in Seq(Char) /\ Len(TextOf(u)) = str.len + 1
        /\ \A i \in 1..(str.len + 1) : TextOf(u)[i] = u.s[i - 1]
    BY <1>3, <2>1, TextIsSeq
  <2>4. /\ Append(TextOf(str), c) \in Seq(Char) /\ Len(Append(TextOf(str), c)) = str.len + 1
        /\ \A i \in 1..str.len : Append(TextOf(str), c)[i] = str.s[i - 1]
        /\ Append(TextOf(str), c)[str.len + 1] = c
    BY TextIsSeq, AppendProperties
  <2>5. ASSUME NEW i \in 1..(str.len + 1)
        PROVE  TextOf(u)[i] = Append(TextOf(str), c)[i]
    <3>1. TextOf(u)[i] = u.s[i - 1]
      BY <2>3
    <3>2. CASE i = str.len + 1
      <4>1. i - 1 = str.len
        BY <2>1, <3>2
      <4> QED BY <2>1, <2>4, <3>1, <3>2, <4>1
    <3>3. CASE i # str.len + 1
      <4>1. i \in 1..str.len /\ i - 1 \in 0..(str.len - 1)
        BY <2>1, <3>3
      <4> QED BY <2>2, <2>4, <3>1, <4>1
    <3> QED BY <3>2, <3>3
  <2> QED BY <2>3, <2>4, <2>5, SeqEqual
<1> QED BY <1>2, <1>3, <1>4

(* Whatever the capacity the loop stops at. *)
LEMMA AppendIsText ==
  ASSUME NEW b, GoodBuffer(b), NEW t \in Seq(Char), NEW cap \in StopsAt(b.cap, b.len + Len(t))
  PROVE  /\ GoodBuffer(append(b, t, cap)) /\ append(b, t, cap).cap = cap
         /\ append(b, t, cap).len = b.len + Len(t)
         /\ TextOf(append(b, t, cap)) = TextOf(b) \o t
<1> DEFINE u == append(b, t, cap)
<1>1. b.len \in Nat /\ b.cap \in Nat /\ Len(t) \in Nat /\ b.len + Len(t) \in Nat
  BY DEF GoodBuffer
<1>2. cap \in Nat /\ b.len + Len(t) < cap
  BY <1>1, StopsAtIsEnough
<1>3. /\ GoodBuffer(u) /\ u.len = b.len + Len(t) /\ u.cap = cap
      /\ \A i \in 0..(b.len - 1) : u.s[i] = b.s[i]
      /\ \A i \in 1..Len(t) : u.s[b.len + i - 1] = t[i]
  BY <1>2, BufferAppendIsGood
<1> HIDE DEF u
<1>4. /\ TextOf(u) \in Seq(Char) /\ Len(TextOf(u)) = b.len + Len(t)
      /\ \A i \in 1..(b.len + Len(t)) : TextOf(u)[i] = u.s[i - 1]
  BY <1>3, TextIsSeq
<1> DEFINE x == TextOf(b)
<1>5. /\ x \in Seq(Char) /\ Len(x) = b.len
      /\ \A i \in 1..b.len : x[i] = b.s[i - 1]
  BY TextIsSeq
<1> HIDE DEF x
<1>6. /\ x \o t \in Seq(Char) /\ Len(x \o t) = b.len + Len(t)
      /\ \A i \in 1..(b.len + Len(t)) : (x \o t)[i] = IF i <= b.len THEN x[i] ELSE t[i - b.len]
  <2>1. /\ x \o t \in Seq(Char) /\ Len(x \o t) = Len(x) + Len(t)
        /\ \A i \in 1..(Len(x) + Len(t)) :
             (x \o t)[i] = IF i <= Len(x) THEN x[i] ELSE t[i - Len(x)]
    BY <1>5, ConcatProperties, ZenonT(30)
  <2> QED BY <1>5, <2>1
<1>7. ASSUME NEW i \in 1..(b.len + Len(t))
      PROVE  TextOf(u)[i] = (x \o t)[i]
  <2>0. TextOf(u)[i] = u.s[i - 1]
    BY <1>4
  <2>1. CASE i <= b.len
    <3>1. i \in 1..b.len /\ i - 1 \in 0..(b.len - 1)
      BY <1>1, <2>1
    <3>2. (x \o t)[i] = x[i]
      BY <1>6, <2>1
    <3> QED BY <1>3, <1>5, <2>0, <3>1, <3>2
  <2>2. CASE ~ (i <= b.len)
    <3>1. i - b.len \in 1..Len(t) /\ b.len + (i - b.len) - 1 = i - 1
      BY <1>1, <2>2
    <3>2. u.s[b.len + (i - b.len) - 1] = t[i - b.len]
      BY <1>3, <3>1
    <3>3. (x \o t)[i] = t[i - b.len]
      BY <1>6, <2>2
    <3> QED BY <2>0, <3>1, <3>2, <3>3
  <2> QED BY <2>1, <2>2
<1>8. TextOf(u) = x \o t
  BY <1>4, <1>7, <1>6, SeqEqual
<1> QED BY <1>3, <1>8 DEF u, x

LEMMA CreateIsEmpty == TextOf(string_create) = << >> /\ string_create.cap = INCREMENT /\ string_create.len = 0
  BY DEF TextOf, string_create

LEMMA ConcatIsGood ==
  ASSUME GoodBuffer(str), string_concat
  PROVE  GoodBuffer(str') /\ T!Concat
<1>1. PICK n \in 0..str.len :
        /\ IsStrlen(n)
        /\ \E c1 \in StopsAt(INCREMENT, n) : \E c2 \in StopsAt(c1, 2 * n) :
             str' = append(append(string_create, SubSeq(TextOf(str), 1, n), c1),
                           SubSeq(TextOf(str), 1, n), c2)
  BY DEF string_concat
<1> DEFINE t == SubSeq(TextOf(str), 1, n)
<1>2. PICK cap1 \in StopsAt(INCREMENT, n) : \E c2 \in StopsAt(cap1, 2 * n) :
        str' = append(append(string_create, t, cap1), t, c2)
  BY <1>1
<1>3. PICK cap2 \in StopsAt(cap1, 2 * n) :
        str' = append(append(string_create, t, cap1), t, cap2)
  BY <1>2
<1>4. /\ n \in Nat /\ t \in Seq(Char) /\ Len(t) = n
  <2>1. \A i \in 1..n : TextOf(str)[i] \in Char
    BY TextIsSeq DEF GoodBuffer
  <2> QED BY <2>1, SubSeqProperties DEF GoodBuffer
<1> DEFINE first == append(string_create, t, cap1)
<1>5. GoodBuffer(first) /\ first.len = n /\ first.cap = cap1 /\ TextOf(first) = << >> \o t
  <2> HIDE DEF t
  <2>1. 0 + Len(t) = n /\ cap1 \in StopsAt(string_create.cap, string_create.len + Len(t))
    BY <1>4, CreateIsEmpty
  <2>2. /\ GoodBuffer(first) /\ first.cap = cap1 /\ first.len = string_create.len + Len(t)
        /\ TextOf(first) = TextOf(string_create) \o t
    BY <1>4, <2>1, BufferCreateIsGood, AppendIsText
  <2> QED BY <2>1, <2>2, CreateIsEmpty
<1> HIDE DEF first
<1>6. cap2 \in StopsAt(first.cap, first.len + Len(t))
  BY <1>4, <1>5
<1>7. GoodBuffer(str') /\ TextOf(str') = TextOf(first) \o t
  BY <1>3, <1>4, <1>5, <1>6, AppendIsText DEF first
<1>8. TextOf(str') = t \o t
  BY <1>4, <1>5, <1>7
<1>9. T!IsCLength(n)
  <2>1. str.len \in Nat /\ Len(TextOf(str)) = str.len
        /\ \A i \in 1..str.len : TextOf(str)[i] = str.s[i - 1]
    BY TextIsSeq DEF GoodBuffer
  <2>2. str.s[n] = NUL /\ \A i \in 0..(n - 1) : str.s[i] # NUL
    BY <1>1 DEF IsStrlen
  <2>3. \A i \in 1..n : TextOf(str)[i] # NUL
    <3>1. n \in Nat /\ n <= str.len  BY <2>1
    <3>2. \A i \in 1..n : i - 1 \in 0..(n - 1) /\ i \in 1..str.len  BY <2>1, <3>1
    <3> QED BY <2>1, <2>2, <3>2
  <2>4. n < str.len => TextOf(str)[n + 1] = NUL
    BY <2>1, <2>2
  <2> QED BY <2>1, <2>3, <2>4 DEF T!IsCLength
<1>10. Len(TextOf(str)) = str.len
  BY TextIsSeq
<1> QED BY <1>7, <1>8, <1>9, <1>10 DEF T!Concat

LEMMA TrimIsGood ==
  ASSUME GoodBuffer(str), string_trim
  PROVE  GoodBuffer(str') /\ TextOf(str') = TextOf(str)
<1>1. str.len + 1 \in Nat /\ str.len < str.len + 1 /\ str.len \in Nat
  BY DEF GoodBuffer
<1>2. /\ GoodBuffer(str') /\ str'.len = str.len
      /\ \A i \in 0..(str.len - 1) : str'.s[i] = str.s[i]
  BY <1>1, CopyIsGood DEF string_trim
<1> QED BY <1>1, <1>2 DEF TextOf

LEMMA StopsAtIsNeeded ==
  ASSUME NEW cap \in Nat, NEW len \in Nat, NEW c \in StopsAt(cap, len)
  PROVE  c \in Nat /\ (c = cap \/ c <= len + 1 + INCREMENT)
  BY IncrementAssumption DEF StopsAt

LEMMA GrowsNoMore ==
  ASSUME GoodBuffer(str), NoMoreThanNeeded, [StringNext]_str
  PROVE  NoMoreThanNeeded'
<1> USE IncrementAssumption
<1>1. ASSUME NEW c \in Char, string_append_char(c) PROVE NoMoreThanNeeded'
  <2>1. str'.len = str.len + 1 /\ str'.cap = IF IsFull(str) THEN str.cap + INCREMENT ELSE str.cap
    BY <1>1 DEF string_append_char, copy_to_new
  <2> QED BY <2>1 DEF NoMoreThanNeeded, IsFull, GoodBuffer
<1>2. ASSUME NEW t \in CStrings, string_append(t) PROVE NoMoreThanNeeded'
  <2>1. Len(t) \in Nat
    BY CStringsAreSequences
  <2>2. PICK cap \in StopsAt(str.cap, str.len + Len(t)) : str' = append(str, t, cap)
    BY <1>2 DEF string_append
  <2>3. str'.len = str.len + Len(t) /\ str'.cap = cap
    BY <2>2 DEF append
  <2>4. cap = str.cap \/ cap <= str.len + Len(t) + 1 + INCREMENT
    BY <2>1, StopsAtIsNeeded DEF GoodBuffer
  <2> HIDE DEF StopsAt
  <2> QED BY <2>1, <2>3, <2>4 DEF NoMoreThanNeeded, GoodBuffer
<1>3. ASSUME string_concat PROVE NoMoreThanNeeded'
  <2>1. PICK n \in 0..str.len :
          \E c1 \in StopsAt(INCREMENT, n) : \E c2 \in StopsAt(c1, 2 * n) :
            str' = append(append(string_create, SubSeq(TextOf(str), 1, n), c1),
                          SubSeq(TextOf(str), 1, n), c2)
    BY <1>3 DEF string_concat
  <2> DEFINE t == SubSeq(TextOf(str), 1, n)
  <2>2. PICK c1 \in StopsAt(INCREMENT, n) : \E c2 \in StopsAt(c1, 2 * n) :
          str' = append(append(string_create, t, c1), t, c2)
    BY <2>1
  <2>3. PICK c2 \in StopsAt(c1, 2 * n) : str' = append(append(string_create, t, c1), t, c2)
    BY <2>2
  <2>4. n \in Nat /\ Len(t) = n
    <3>1. \A i \in 1..n : TextOf(str)[i] \in Char
      BY TextIsSeq DEF GoodBuffer
    <3> QED BY <3>1, SubSeqProperties DEF GoodBuffer
  <2> HIDE DEF t
  <2>5. str'.len = 2 * n /\ str'.cap = c2
    BY <2>3, <2>4 DEF append, string_create
  <2>6. c1 \in Nat /\ (c1 = INCREMENT \/ c1 <= n + 1 + INCREMENT)
    BY <2>4, StopsAtIsNeeded
  <2>7. c2 \in Nat /\ (c2 = c1 \/ c2 <= 2 * n + 1 + INCREMENT)
    BY <2>4, <2>6, StopsAtIsNeeded
  <2> QED BY <2>4, <2>5, <2>6, <2>7 DEF NoMoreThanNeeded
<1>4. ASSUME string_trim PROVE NoMoreThanNeeded'
  BY <1>4 DEF string_trim, copy_to_new, NoMoreThanNeeded, GoodBuffer
<1>5. CASE UNCHANGED str
  BY <1>5 DEF NoMoreThanNeeded
<1> QED BY <1>1, <1>2, <1>3, <1>4, <1>5 DEF StringNext

LEMMA BufferStepIsGood ==
  ASSUME GoodBuffer(str), [StringNext]_str
  PROVE  GoodBuffer(str') /\ [T!Next]_(TextOf(str))
<1>1. ASSUME NEW c \in Char, string_append_char(c)
      PROVE  GoodBuffer(str') /\ T!AppendChar(c)
  BY <1>1, AppendCharIsGood DEF T!AppendChar
<1>2. ASSUME NEW t \in CStrings, string_append(t)
      PROVE  GoodBuffer(str') /\ T!AppendCString(t)
  <2>1. PICK cap \in StopsAt(str.cap, str.len + Len(t)) : str' = append(str, t, cap)
    BY <1>2 DEF string_append
  <2> QED BY <2>1, AppendIsText, CStringsAreSequences DEF T!AppendCString
<1>3. ASSUME string_concat PROVE GoodBuffer(str') /\ T!Concat
  BY <1>3, ConcatIsGood
<1>4. ASSUME string_trim PROVE GoodBuffer(str') /\ TextOf(str') = TextOf(str)
  BY <1>4, TrimIsGood
<1>5. CASE UNCHANGED str
  BY <1>5
<1> QED BY <1>1, <1>2, <1>3, <1>4, <1>5 DEF StringNext, T!Next

(* GoodBuffer(str) in every state: what the theorems below rest on. *)
LEMMA BufferAlwaysGood == StringSpec => []GoodBuffer(str)
<1>1. StringInit => GoodBuffer(str)
  BY BufferCreateIsGood DEF StringInit
<1>2. GoodBuffer(str) /\ [StringNext]_str => GoodBuffer(str)'
  BY BufferStepIsGood
<1> QED BY <1>1, <1>2, PTL DEF StringSpec

(* Type correctness: the block has the recorded capacity. *)
THEOREM BufferTypeCorrect == StringSpec => []StringTypeOK
<1>1. GoodBuffer(str) => StringTypeOK
  BY DEF GoodBuffer, StringTypeOK
<1> QED BY <1>1, BufferAlwaysGood, PTL

(* Nothing but zeros follows the text. *)
THEOREM ZerosAlwaysFollow == StringSpec => []ZerosFollow
<1>1. GoodBuffer(str) => ZerosFollow
  BY DEF GoodBuffer, ZerosFollow
<1> QED BY <1>1, BufferAlwaysGood, PTL

(* The assertion of string_cstring holds, and reads a byte of the block. *)
THEOREM AlwaysTerminated == StringSpec => []Terminated
<1>1. GoodBuffer(str) => Terminated
  BY DEF GoodBuffer, Terminated
<1> QED BY <1>1, BufferAlwaysGood, PTL

(* The block never has a step of INCREMENT that was not needed. *)
THEOREM NeverMoreThanNeeded == StringSpec => []NoMoreThanNeeded
<1>1. StringInit => NoMoreThanNeeded
  BY DEF StringInit, string_create, NoMoreThanNeeded
<1>2. GoodBuffer(str) /\ NoMoreThanNeeded /\ [StringNext]_str => NoMoreThanNeeded'
  BY GrowsNoMore
<1> QED BY <1>1, <1>2, BufferAlwaysGood, PTL DEF StringSpec

(* The growing buffer implements a text. *)
THEOREM BufferImplementsText == StringSpec => TextSpec
<1>1. StringInit => T!Init
  BY CreateIsEmpty DEF StringInit, T!Init
<1>2. GoodBuffer(str) /\ [StringNext]_str => [T!Next]_(TextOf(str))
  BY BufferStepIsGood
<1> QED BY <1>1, <1>2, BufferAlwaysGood, PTL DEF StringSpec, TextSpec, T!Spec

-----------------------------------------------------------------------------
(* ArrayList.tla.  The list implements a sequence, for every capacity,      *)
(* increment and number of elements.                                       *)

(* The capacities that steps of CAPACITY_DELTA reach. *)
IsCapacity(c) == \E k \in Nat : c = INITIAL_CAPACITY + k * CAPACITY_DELTA

(* What is true of the list between two calls: the inductive invariant. *)
GoodList(l) ==
  /\ IsCapacity(l.capacity)
  /\ l = [data |-> l.data, size |-> l.size, capacity |-> l.capacity]
  /\ l.size \in Nat /\ l.capacity \in Nat /\ l.capacity >= INITIAL_CAPACITY
  /\ l.data \in [0..(l.capacity - 1) -> Object \union {NULL}]
  /\ l.size <= l.capacity
  /\ \A i \in 0..(l.size - 1) : l.data[i] \in Object

LEMMA Capacities ==
  /\ IsCapacity(INITIAL_CAPACITY)
  /\ \A c : IsCapacity(c) => c \in Nat /\ c >= INITIAL_CAPACITY /\ IsCapacity(c + CAPACITY_DELTA)
  /\ \A c : IsCapacity(c) /\ c - CAPACITY_DELTA > 0 => IsCapacity(c - CAPACITY_DELTA)
<1> USE CapacityAssumption
<1>1. INITIAL_CAPACITY = INITIAL_CAPACITY + 0 * CAPACITY_DELTA
  OBVIOUS
<1>2. ASSUME NEW c, IsCapacity(c)
      PROVE  /\ c \in Nat /\ c >= INITIAL_CAPACITY /\ IsCapacity(c + CAPACITY_DELTA)
             /\ c - CAPACITY_DELTA > 0 => IsCapacity(c - CAPACITY_DELTA)
  <2>1. PICK k \in Nat : c = INITIAL_CAPACITY + k * CAPACITY_DELTA
    BY <1>2 DEF IsCapacity
  <2>2. k * CAPACITY_DELTA \in Nat
    OBVIOUS
  <2>3. k + 1 \in Nat /\ (k + 1) * CAPACITY_DELTA = k * CAPACITY_DELTA + CAPACITY_DELTA
    OBVIOUS
  <2>4. c + CAPACITY_DELTA = INITIAL_CAPACITY + (k + 1) * CAPACITY_DELTA
    BY <2>1, <2>2, <2>3
  <2>5. ASSUME c - CAPACITY_DELTA > 0
        PROVE  IsCapacity(c - CAPACITY_DELTA)
    <3>1. k # 0
      BY <2>1, <2>5
    <3>2. k - 1 \in Nat /\ (k - 1) * CAPACITY_DELTA = k * CAPACITY_DELTA - CAPACITY_DELTA
      BY <3>1
    <3>3. c - CAPACITY_DELTA = INITIAL_CAPACITY + (k - 1) * CAPACITY_DELTA
      BY <2>1, <2>2, <3>2
    <3> QED BY <3>2, <3>3 DEF IsCapacity
  <2> QED BY <2>1, <2>2, <2>3, <2>4, <2>5 DEF IsCapacity
<1> QED BY <1>1, <1>2 DEF IsCapacity

LEMMA ElementsAreSeq ==
  ASSUME NEW l, GoodList(l)
  PROVE  /\ ElementsOf(l) \in Seq(Object) /\ Len(ElementsOf(l)) = l.size
         /\ \A i \in 1..l.size : ElementsOf(l)[i] = l.data[i - 1]
<1>1. ElementsOf(l) \in [1..l.size -> Object]
  BY DEF ElementsOf, GoodList
<1> QED BY <1>1, FunctionIsSeq DEF ElementsOf, GoodList

LEMMA ListCreateIsGood == GoodList(arraylist_create) /\ ElementsOf(arraylist_create) = << >>
  BY CapacityAssumption, Capacities DEF GoodList, arraylist_create, ElementsOf

LEMMA AddIsGood ==
  ASSUME NEW l, GoodList(l), NEW x \in Object
  PROVE  GoodList(Added(l, x)) /\ ElementsOf(Added(l, x)) = Append(ElementsOf(l), x)
<1> DEFINE m == IF MustGrow(l) THEN Moved(l, l.capacity + CAPACITY_DELTA) ELSE l
           u == [data |-> [m.data EXCEPT ![l.size] = x], size |-> l.size + 1, capacity |-> m.capacity]
<1>1. /\ m.size = l.size /\ IsCapacity(m.capacity) /\ m.capacity \in Nat /\ m.capacity >= INITIAL_CAPACITY
      /\ m.data \in [0..(m.capacity - 1) -> Object \union {NULL}]
      /\ l.size < m.capacity
      /\ \A i \in 0..(l.size - 1) : m.data[i] = l.data[i]
  <2>1. CASE MustGrow(l)
    <3> DEFINE c == l.capacity + CAPACITY_DELTA
    <3>1. m = Moved(l, c)
      BY <2>1
    <3>2. c \in Nat /\ c >= INITIAL_CAPACITY /\ l.size < c /\ IsCapacity(c)
      BY CapacityAssumption, Capacities DEF GoodList
    <3> HIDE DEF m, c
    <3>3. m.data = [i \in 0..(c - 1) |-> IF i < l.size THEN l.data[i] ELSE NULL]
          /\ m.size = l.size /\ m.capacity = c
      BY <3>1 DEF Moved
    <3>4. \A i \in 0..(c - 1) : i < l.size => i \in 0..(l.size - 1)
      BY <3>2 DEF GoodList
    <3> QED BY <3>2, <3>3, <3>4 DEF GoodList
  <2>2. CASE ~ MustGrow(l)
    BY <2>2 DEF GoodList, MustGrow
  <2> QED BY <2>1, <2>2
<1>2. Added(l, x) = u
  BY DEF Added
<1> HIDE DEF m
<1>3. GoodList(u)
  BY <1>1 DEF GoodList
<1>4. ElementsOf(u) = Append(ElementsOf(l), x)
  <2>1. l.size \in Nat /\ u.size = l.size + 1 /\ u.data[l.size] = x
    BY <1>1 DEF GoodList
  <2>2. \A i \in 0..(l.size - 1) : u.data[i] = l.data[i]
    BY <1>1 DEF GoodList
  <2> HIDE DEF u
  <2>3. /\ ElementsOf(u) \in Seq(Object) /\ Len(ElementsOf(u)) = l.size + 1
        /\ \A i \in 1..(l.size + 1) : ElementsOf(u)[i] = u.data[i - 1]
    BY <1>3, <2>1, ElementsAreSeq
  <2>4. /\ Append(ElementsOf(l), x) \in Seq(Object) /\ Len(Append(ElementsOf(l), x)) = l.size + 1
        /\ \A i \in 1..l.size : Append(ElementsOf(l), x)[i] = l.data[i - 1]
        /\ Append(ElementsOf(l), x)[l.size + 1] = x
    BY ElementsAreSeq, AppendProperties
  <2>5. ASSUME NEW i \in 1..(l.size + 1)
        PROVE  ElementsOf(u)[i] = Append(ElementsOf(l), x)[i]
    <3>1. ElementsOf(u)[i] = u.data[i - 1]
      BY <2>3
    <3>2. CASE i = l.size + 1
      <4>1. i - 1 = l.size
        BY <2>1, <3>2
      <4> QED BY <2>1, <2>4, <3>1, <3>2, <4>1
    <3>3. CASE i # l.size + 1
      <4>1. i \in 1..l.size /\ i - 1 \in 0..(l.size - 1)
        BY <2>1, <3>3
      <4> QED BY <2>2, <2>4, <3>1, <4>1
    <3> QED BY <3>2, <3>3
  <2> QED BY <2>3, <2>4, <2>5, SeqEqual
<1> QED BY <1>2, <1>3, <1>4

LEMMA WithoutIsGood ==
  ASSUME NEW l, GoodList(l), NEW n \in 0..(l.size - 1)
  PROVE  /\ GoodList(Without(l, n)) /\ Without(l, n).size = l.size - 1
         /\ \A i \in 0..(l.size - 2) :
              Without(l, n).data[i] = IF i < n THEN l.data[i] ELSE l.data[i + 1]
<1> DEFINE d == [i \in 0..(l.capacity - 1) |->
                   IF i \in n..(l.size - 2) THEN l.data[i + 1] ELSE l.data[i]]
<1>1. Without(l, n) = [data |-> d, size |-> l.size - 1, capacity |-> l.capacity]
  BY DEF Without
<1>2. \A i \in 0..(l.size - 2) : d[i] = IF i < n THEN l.data[i] ELSE l.data[i + 1]
  BY DEF GoodList
<1>3. \A i \in 0..(l.size - 2) : d[i] \in Object
  BY <1>2 DEF GoodList
<1>4. d \in [0..(l.capacity - 1) -> Object \union {NULL}]
  BY DEF GoodList
<1>5. l.size - 1 \in Nat /\ l.size - 1 - 1 = l.size - 2
  BY DEF GoodList
<1> HIDE DEF d
<1> QED BY <1>1, <1>2, <1>3, <1>4, <1>5 DEF GoodList

LEMMA ReallocIsGood ==
  ASSUME NEW l, GoodList(l), NEW c \in Nat, IsCapacity(c), c >= INITIAL_CAPACITY, c <= l.capacity, l.size <= c
  PROVE  /\ GoodList(Realloced(l, c)) /\ Realloced(l, c).size = l.size
         /\ \A i \in 0..(l.size - 1) : Realloced(l, c).data[i] = l.data[i]
  BY DEF GoodList, Realloced

LEMMA AbsentIsAbsent ==
  ASSUME GoodList(list), NEW x
  PROVE  Absent(list, x) <=> L!Absent(x)
<1>1. /\ Len(ElementsOf(list)) = list.size /\ list.size \in Nat
      /\ \A i \in 1..list.size : ElementsOf(list)[i] = list.data[i - 1]
  BY ElementsAreSeq DEF GoodList
<1>2. ASSUME Absent(list, x), NEW i \in 1..list.size PROVE ElementsOf(list)[i] # x
  <2>1. i - 1 \in 0..(list.size - 1)
    BY <1>1
  <2> QED BY <1>1, <1>2, <2>1 DEF Absent
<1>3. ASSUME L!Absent(x), NEW i \in 0..(list.size - 1) PROVE list.data[i] # x
  <2>1. i + 1 \in 1..list.size /\ (i + 1) - 1 = i
    BY <1>1
  <2>2. ElementsOf(list)[i + 1] = list.data[i]
    BY <1>1, <2>1
  <2> QED BY <1>1, <1>3, <2>1, <2>2 DEF L!Absent
<1> QED BY <1>1, <1>2, <1>3 DEF Absent, L!Absent

LEMMA FirstIsFirst ==
  ASSUME GoodList(list), NEW x, NEW n \in 0..(list.size - 1), IsFirst(list, x, n)
  PROVE  n + 1 \in 1..Len(ElementsOf(list)) /\ L!IsFirst(x, n + 1)
<1>1. /\ Len(ElementsOf(list)) = list.size /\ list.size \in Nat
      /\ \A i \in 1..list.size : ElementsOf(list)[i] = list.data[i - 1]
  BY ElementsAreSeq DEF GoodList
<1>2. n + 1 \in 1..list.size /\ ElementsOf(list)[n + 1] = x
  BY <1>1 DEF IsFirst
<1>3. ASSUME NEW i \in 1..((n + 1) - 1) PROVE ElementsOf(list)[i] # x
  <2>1. i \in 1..list.size /\ i - 1 \in 0..(n - 1)
    BY <1>1
  <2> QED BY <1>1, <2>1 DEF IsFirst
<1> QED BY <1>1, <1>2, <1>3 DEF L!IsFirst

LEMMA RemoveIsGood ==
  ASSUME GoodList(list), NEW x \in Object, arraylist_remove(x)
  PROVE  GoodList(list') /\ L!Remove(x)
<1>1. CASE Absent(list, x) /\ result' = 0 /\ UNCHANGED list
  <2>1. L!Absent(x)
    BY <1>1, AbsentIsAbsent
  <2> QED BY <1>1, <2>1 DEF L!Remove
<1>2. ASSUME NEW n \in 0..(list.size - 1), IsFirst(list, x, n), result' = 1,
             list' = IF MayShrink(list, n)
                       THEN Realloced(Without(list, n), list.capacity - CAPACITY_DELTA)
                       ELSE Without(list, n)
      PROVE  GoodList(list') /\ L!Remove(x)
  <2> DEFINE w == Without(list, n)
  <2>1. /\ GoodList(w) /\ w.size = list.size - 1 /\ w.capacity = list.capacity
        /\ \A i \in 0..(list.size - 2) : w.data[i] = IF i < n THEN list.data[i] ELSE list.data[i + 1]
    BY WithoutIsGood DEF Without
  <2> HIDE DEF w
  <2>2. /\ GoodList(list') /\ list'.size = list.size - 1
        /\ \A i \in 0..(list.size - 2) : list'.data[i] = w.data[i]
    <3>1. CASE MayShrink(list, n)
      <4> DEFINE c == list.capacity - CAPACITY_DELTA
      <4>1. c > 0 /\ w.size <= c /\ c <= w.capacity /\ w.size - 1 = list.size - 2
        BY <2>1, <3>1, CapacityAssumption DEF MayShrink, GoodList
      <4>2. IsCapacity(c) /\ c \in Nat /\ c >= INITIAL_CAPACITY
        BY <4>1, Capacities DEF GoodList
      <4>3. list' = Realloced(w, c)
        BY <1>2, <3>1 DEF w
      <4> HIDE DEF c
      <4> QED BY <2>1, <4>1, <4>2, <4>3, ReallocIsGood
    <3>2. CASE ~ MayShrink(list, n)
      BY <1>2, <2>1, <3>2 DEF w
    <3> QED BY <3>1, <3>2
  <2>3. L!Remove(x)
    <3>1. /\ Len(ElementsOf(list)) = list.size /\ list.size \in Nat
          /\ \A i \in 1..list.size : ElementsOf(list)[i] = list.data[i - 1]
      BY ElementsAreSeq DEF GoodList
    <3>2. n + 1 \in 1..Len(ElementsOf(list)) /\ L!IsFirst(x, n + 1)
      BY <1>2, FirstIsFirst
    <3>3. ElementsOf(list') = [i \in 1..(Len(ElementsOf(list)) - 1) |->
             IF i < n + 1 THEN ElementsOf(list)[i] ELSE ElementsOf(list)[i + 1]]
      <4>1. ElementsOf(list') = [i \in 1..(list.size - 1) |-> list'.data[i - 1]]
        BY <2>2 DEF ElementsOf
      <4>2. ASSUME NEW i \in 1..(list.size - 1)
            PROVE  list'.data[i - 1] =
                     IF i < n + 1 THEN ElementsOf(list)[i] ELSE ElementsOf(list)[i + 1]
        <5>1. i - 1 \in 0..(list.size - 2) /\ i \in 1..list.size /\ i + 1 \in 1..list.size
              /\ (i - 1) + 1 = (i + 1) - 1
          BY <3>1
        <5>2. list'.data[i - 1] = IF i - 1 < n THEN list.data[i - 1] ELSE list.data[(i - 1) + 1]
          BY <2>1, <2>2, <5>1
        <5>3. ElementsOf(list)[i] = list.data[i - 1]
              /\ ElementsOf(list)[i + 1] = list.data[(i + 1) - 1]
          BY <3>1, <5>1
        <5> QED BY <5>1, <5>2, <5>3
      <4> QED BY <3>1, <4>1, <4>2
    <3> QED BY <1>2, <3>2, <3>3 DEF L!Remove
  <2> QED BY <2>2, <2>3
<1> QED BY <1>1, <1>2 DEF arraylist_remove

LEMMA ClearIsGood ==
  ASSUME GoodList(list), arraylist_clear
  PROVE  GoodList(list') /\ L!Clear
<1> DEFINE d == [i \in 0..(INITIAL_CAPACITY - 1) |-> list.data[i]]
<1>1. list' = [data |-> d, size |-> 0, capacity |-> INITIAL_CAPACITY]
  BY DEF arraylist_clear, Realloced
<1>2. d \in [0..(INITIAL_CAPACITY - 1) -> Object \union {NULL}]
  BY CapacityAssumption DEF GoodList
<1> HIDE DEF d
<1>3. GoodList(list')
  BY <1>1, <1>2, Capacities, CapacityAssumption DEF GoodList
<1>4. ElementsOf(list') = << >>
  BY <1>1 DEF ElementsOf
<1> QED BY <1>3, <1>4 DEF L!Clear, arraylist_clear

LEMMA SortIsGood ==
  ASSUME GoodList(list), arraylist_sort
  PROVE  GoodList(list') /\ L!Sort
<1> DEFINE used == 0..(list.size - 1)
<1>1. PICK q \in [used -> used] :
        /\ \A i, j \in used : q[i] = q[j] => i = j
        /\ list' = [data |-> [i \in 0..(list.capacity - 1) |->
                               IF i \in used THEN list.data[q[i]] ELSE list.data[i]],
                    size |-> list.size, capacity |-> list.capacity]
  BY DEF arraylist_sort
<1>2. /\ list.size \in Nat /\ list.capacity \in Nat /\ list.size <= list.capacity
      /\ list'.size = list.size
      /\ \A i \in used : list'.data[i] = list.data[q[i]] /\ q[i] \in used
  BY <1>1 DEF GoodList
<1>3. GoodList(list')
  <2> DEFINE d == [i \in 0..(list.capacity - 1) |->
                     IF i \in used THEN list.data[q[i]] ELSE list.data[i]]
  <2>1. d \in [0..(list.capacity - 1) -> Object \union {NULL}]
    BY <1>2 DEF GoodList
  <2>2. list' = [data |-> d, size |-> list.size, capacity |-> list.capacity]
    BY <1>1
  <2>3. \A i \in used : d[i] \in Object
    BY <1>2 DEF GoodList
  <2> HIDE DEF d
  <2> QED BY <2>1, <2>2, <2>3 DEF GoodList
<1>4. /\ Len(ElementsOf(list)) = list.size
      /\ \A i \in 1..list.size : ElementsOf(list)[i] = list.data[i - 1]
  BY ElementsAreSeq
<1>5. ElementsOf(list') = [i \in 1..list.size |-> list'.data[i - 1]]
  BY <1>2 DEF ElementsOf
<1> DEFINE p == [i \in 1..list.size |-> q[i - 1] + 1]
<1>6. \A i \in 1..list.size : i - 1 \in used /\ q[i - 1] \in used
  BY <1>2
<1>7. p \in [1..list.size -> 1..list.size]
  BY <1>2, <1>6
<1>8. ASSUME NEW i \in 1..list.size, NEW j \in 1..list.size, p[i] = p[j] PROVE i = j
  <2>1. q[i - 1] = q[j - 1]
    <3>1. q[i - 1] + 1 = q[j - 1] + 1
      BY <1>8
    <3>2. q[i - 1] \in Int /\ q[j - 1] \in Int
      BY <1>2, <1>6
    <3>3. \A x, y \in Int : x + 1 = y + 1 => x = y
      OBVIOUS
    <3> QED BY <3>1, <3>2, <3>3
  <2>2. i - 1 = j - 1
    BY <1>1, <1>6, <2>1
  <2> QED BY <2>2
<1>9. ASSUME NEW i \in 1..list.size PROVE list'.data[i - 1] = ElementsOf(list)[p[i]]
  <2>1. p[i] \in 1..list.size /\ p[i] - 1 = q[i - 1]
    <3>1. p[i] = q[i - 1] + 1
      OBVIOUS
    <3>2. q[i - 1] \in 0..(list.size - 1)
      BY <1>6
    <3> HIDE DEF p
    <3> QED BY <1>2, <3>1, <3>2, SMTT(30)
  <2>2. ElementsOf(list)[p[i]] = list.data[q[i - 1]]
    BY <1>4, <2>1
  <2> QED BY <1>2, <1>6, <2>2
<1> HIDE DEF p
<1>10. ElementsOf(list') = [i \in 1..list.size |-> ElementsOf(list)[p[i]]]
  BY <1>5, <1>9
<1>11. ASSUME NEW i \in 1..(list.size - 1)
       PROVE  ~ Precedes(ElementsOf(list')[i + 1], ElementsOf(list')[i])
  <2>1. i - 1 \in 0..(list.size - 2) /\ (i - 1) + 1 = i /\ (i + 1) - 1 = i
        /\ i \in 1..list.size /\ i + 1 \in 1..list.size
    BY <1>2
  <2>2. ~ Precedes(list'.data[(i - 1) + 1], list'.data[i - 1])
    BY <2>1 DEF arraylist_sort
  <2>3. ElementsOf(list')[i + 1] = list'.data[(i + 1) - 1] /\ ElementsOf(list')[i] = list'.data[i - 1]
    BY <1>5, <2>1
  <2>4. (i - 1) + 1 = i /\ (i + 1) - 1 = i
    BY <2>1
  <2> QED BY <2>2, <2>3, <2>4
<1>12. result' = result
  BY DEF arraylist_sort
<1> DEFINE n == Len(ElementsOf(list))
<1>13. \E r \in [1..n -> 1..n] :
         /\ \A i, j \in 1..n : r[i] = r[j] => i = j
         /\ ElementsOf(list') = [i \in 1..n |-> ElementsOf(list)[r[i]]]
  <2>1. \A i, j \in 1..list.size : p[i] = p[j] => i = j
    BY <1>8
  <2>2. \E r \in [1..list.size -> 1..list.size] :
          /\ \A i, j \in 1..list.size : r[i] = r[j] => i = j
          /\ ElementsOf(list') = [i \in 1..list.size |-> ElementsOf(list)[r[i]]]
    BY <1>7, <1>10, <2>1, Zenon
  <2>3. n = list.size
    BY <1>4
  <2> HIDE DEF n
  <2> QED BY <2>2, <2>3, Zenon
<1>14. \A i \in 1..(n - 1) : ~ Precedes(ElementsOf(list')[i + 1], ElementsOf(list')[i])
  BY <1>4, <1>11
<1> QED BY <1>3, <1>12, <1>13, <1>14 DEF L!Sort

LEMMA ListStepIsGood ==
  ASSUME GoodList(list), [ArrayListNext]_list_vars
  PROVE  GoodList(list') /\ [L!Next]_<<ElementsOf(list), result>>
<1>1. /\ Len(ElementsOf(list)) = list.size /\ list.size \in Nat
      /\ \A i \in 1..list.size : ElementsOf(list)[i] = list.data[i - 1]
  BY ElementsAreSeq DEF GoodList
<1>2. ASSUME NEW x \in Object, arraylist_add(x) PROVE GoodList(list') /\ L!Add(x)
  BY <1>2, AddIsGood DEF arraylist_add, L!Add
<1>3. ASSUME NEW x \in Object, arraylist_remove(x) PROVE GoodList(list') /\ L!Remove(x)
  BY <1>3, RemoveIsGood
<1>4. ASSUME NEW x \in Object, arraylist_index_of(x) PROVE GoodList(list') /\ L!IndexOf(x)
  <2>1. CASE Absent(list, x) /\ result' = -1
    BY <1>4, <2>1, AbsentIsAbsent DEF arraylist_index_of, L!IndexOf
  <2>2. ASSUME NEW n \in 0..(list.size - 1), IsFirst(list, x, n), result' = n
        PROVE  L!IndexOf(x)
    <3>1. n + 1 \in 1..Len(ElementsOf(list)) /\ L!IsFirst(x, n + 1) /\ n = (n + 1) - 1
      BY <1>1, <2>2, FirstIsFirst
    <3> QED BY <1>4, <2>2, <3>1 DEF arraylist_index_of, L!IndexOf
  <2> QED BY <1>4, <2>1, <2>2 DEF arraylist_index_of
<1>5. ASSUME NEW x \in Object, arraylist_contains(x) PROVE GoodList(list') /\ L!Contains(x)
  BY <1>5, AbsentIsAbsent DEF arraylist_contains, L!Contains
<1>6. ASSUME NEW n \in 0..(list.size - 1), arraylist_get(n)
      PROVE  GoodList(list') /\ n \in 0..(Len(ElementsOf(list)) - 1) /\ L!Get(n)
  <2>1. n + 1 \in 1..list.size /\ (n + 1) - 1 = n
    BY <1>1
  <2>2. ElementsOf(list)[n + 1] = list.data[n]
    BY <1>1, <2>1
  <2> QED BY <1>1, <1>6, <2>2 DEF arraylist_get, L!Get
<1>7. CASE arraylist_is_empty
  <2>1. ElementsOf(list) = << >> <=> list.size = 0
    BY <1>1, ElementsAreSeq, EmptySeq
  <2> QED BY <1>7, <2>1 DEF arraylist_is_empty, L!IsEmpty, L!Next
<1>8. CASE arraylist_size
  BY <1>1, <1>8 DEF arraylist_size, L!Size, L!Next
<1>9. CASE arraylist_clear
  BY <1>9, ClearIsGood DEF L!Next
<1>10. CASE arraylist_sort
  BY <1>10, SortIsGood DEF L!Next
<1>11. CASE UNCHANGED list_vars
  BY <1>11 DEF list_vars
<1> QED
  BY <1>2, <1>3, <1>4, <1>5, <1>6, <1>7, <1>8, <1>9, <1>10, <1>11 DEF ArrayListNext, L!Next

LEMMA ListAlwaysGood == ArrayListSpec => []GoodList(list)
<1>1. ArrayListInit => GoodList(list)
  BY ListCreateIsGood DEF ArrayListInit
<1>2. GoodList(list) /\ [ArrayListNext]_list_vars => GoodList(list)'
  BY ListStepIsGood
<1> QED BY <1>1, <1>2, PTL DEF ArrayListSpec

(* Type correctness; the capacity is never less than the initial one. *)
THEOREM ListTypeCorrect == ArrayListSpec => []ArrayListTypeOK
<1>1. GoodList(list) => ArrayListTypeOK
  BY DEF GoodList, ArrayListTypeOK
<1> QED BY <1>1, ListAlwaysGood, PTL

(* The elements fit in the block, however it grew and shrank. *)
THEOREM ElementsAlwaysFit == ArrayListSpec => []ElementsFit
<1>1. GoodList(list) => ElementsFit
  BY DEF GoodList, ElementsFit
<1> QED BY <1>1, ListAlwaysGood, PTL

(* The array list implements a sequence. *)
THEOREM ArrayListImplementsList == ArrayListSpec => ListSpec
<1>1. ArrayListInit => L!Init
  BY ListCreateIsGood DEF ArrayListInit, L!Init
<1>2. GoodList(list) /\ [ArrayListNext]_list_vars => [L!Next]_<<ElementsOf(list), result>>
  BY ListStepIsGood
<1> QED BY <1>1, <1>2, ListAlwaysGood, PTL DEF ArrayListSpec, ListSpec, L!Spec

-----------------------------------------------------------------------------
(* TypeRegistry.tla.  A type's number, its place in an array list, leads to *)
(* its own definition for ever, in whatever order types are registered.    *)

(* The list is as good as any array list, which alone lets a registration   *)
(* keep what is there.                                                      *)
TypeListOK ==
  /\ A!ArrayListTypeOK
  /\ A!ElementsFit

RegistryInv ==
  /\ TypeListOK
  /\ has_inited \subseteq Type
  /\ type_id \in [Type -> Nat]
  /\ IdsLeadHome
  /\ RegisteredOnce

LEMMA AddedIsRight ==
  ASSUME TypeListOK, NEW t \in Type, type_list' = A!Added(type_list, t)
  PROVE  /\ TypeListOK'
         /\ type_list'.size = type_list.size + 1
         /\ type_list'.data[type_list.size] = t
         /\ \A i \in 0..(type_list.size - 1) : type_list'.data[i] = type_list.data[i]
<1> USE TypeAssumption
<1> DEFINE l == type_list
           c == l.capacity + ARRAYLIST_CAPACITY_DELTA
           m == IF A!MustGrow(l) THEN A!Moved(l, c) ELSE l
           u == [data |-> [m.data EXCEPT ![l.size] = t], size |-> l.size + 1, capacity |-> m.capacity]
<1>1. /\ l.size \in Nat /\ l.capacity \in Nat /\ l.capacity >= ARRAYLIST_INITIAL_CAPACITY
      /\ l.data \in [0..(l.capacity - 1) -> Type \union {NoType}]
      /\ l.size <= l.capacity /\ \A i \in 0..(l.size - 1) : l.data[i] \in Type
  BY DEF TypeListOK, A!ArrayListTypeOK, A!ElementsFit
<1>2. /\ m.capacity \in Nat /\ m.capacity >= ARRAYLIST_INITIAL_CAPACITY
      /\ m.data \in [0..(m.capacity - 1) -> Type \union {NoType}]
      /\ l.size < m.capacity
      /\ \A i \in 0..(l.size - 1) : m.data[i] = l.data[i]
  <2>1. CASE A!MustGrow(l)
    <3>1. m = A!Moved(l, c)
      BY <2>1
    <3>2. c \in Nat /\ c >= ARRAYLIST_INITIAL_CAPACITY /\ l.size < c
      BY <1>1
    <3> HIDE DEF m, c
    <3>3. m.data = [i \in 0..(c - 1) |-> IF i < l.size THEN l.data[i] ELSE NoType] /\ m.capacity = c
      BY <3>1 DEF A!Moved
    <3>4. \A i \in 0..(c - 1) : i < l.size => i \in 0..(l.size - 1)
      BY <1>1, <3>2
    <3> QED BY <1>1, <3>2, <3>3, <3>4
  <2>2. CASE ~ A!MustGrow(l)
    BY <1>1, <2>2 DEF A!MustGrow
  <2> QED BY <2>1, <2>2
<1>3. type_list' = u
  BY DEF A!Added
<1> HIDE DEF m
<1>4. /\ u.size = l.size + 1 /\ u.data[l.size] = t
      /\ \A i \in 0..(l.size - 1) : u.data[i] = l.data[i]
      /\ u.data \in [0..(m.capacity - 1) -> Type \union {NoType}]
  BY <1>1, <1>2
<1>5. \A i \in 0..l.size : u.data[i] \in Type
  <2> TAKE i \in 0..l.size
  <2>1. CASE i = l.size
    BY <1>4, <2>1
  <2>2. CASE i # l.size
    <3>1. i \in 0..(l.size - 1)
      BY <1>1, <2>2
    <3> QED BY <1>1, <1>4, <3>1
  <2> QED BY <2>1, <2>2
<1>6. TypeListOK'
  <2>1. A!ArrayListTypeOK'
    BY <1>1, <1>2, <1>3, <1>4 DEF A!ArrayListTypeOK
  <2>2. A!ElementsFit'
    BY <1>1, <1>2, <1>3, <1>5 DEF A!ElementsFit
  <2> QED BY <2>1, <2>2 DEF TypeListOK
<1> QED BY <1>3, <1>4, <1>6

LEMMA RegistryInitIsRight == TypesInit => RegistryInv
<1> SUFFICES ASSUME TypesInit PROVE RegistryInv
  OBVIOUS
<1> USE TypeAssumption DEF TypesInit, A!arraylist_create
<1>1. TypeListOK
  BY DEF TypeListOK, A!ArrayListTypeOK, A!ElementsFit
<1>2. IdsLeadHome
  BY DEF IdsLeadHome
<1>3. RegisteredOnce
  BY FS_EmptySet DEF RegisteredOnce
<1> QED BY <1>1, <1>2, <1>3 DEF RegistryInv

LEMMA RegistryNextIsRight == RegistryInv /\ [TypesNext]_type_vars => RegistryInv'
<1> SUFFICES ASSUME RegistryInv, [TypesNext]_type_vars PROVE RegistryInv'
  OBVIOUS
<1>1. ASSUME NEW t \in Type, t \notin has_inited, gc_register_type(t) PROVE RegistryInv'
  <2>1. /\ type_list' = A!Added(type_list, t) /\ has_inited' = has_inited \union {t}
        /\ type_id' = [type_id EXCEPT ![t] = type_list.size]
    BY <1>1 DEF gc_register_type, new_id
  <2>2. /\ TypeListOK' /\ type_list'.size = type_list.size + 1
        /\ type_list'.data[type_list.size] = t
        /\ \A i \in 0..(type_list.size - 1) : type_list'.data[i] = type_list.data[i]
    BY <2>1, AddedIsRight DEF RegistryInv
  <2>3. type_list.size \in Nat
    BY DEF RegistryInv, TypeListOK, A!ArrayListTypeOK
  <2>4. type_id' \in [Type -> Nat] /\ has_inited' \subseteq Type
    BY <2>1, <2>3 DEF RegistryInv
  <2>5. IdsLeadHome'
    <3> SUFFICES ASSUME NEW s \in has_inited'
                 PROVE  type_id'[s] < type_list'.size /\ type_list'.data[type_id'[s]] = s
      BY DEF IdsLeadHome, get_type
    <3>1. CASE s = t
      <4>1. type_id'[s] = type_list.size
        BY <2>1, <3>1 DEF RegistryInv
      <4> QED BY <2>2, <2>3, <3>1, <4>1
    <3>2. CASE s # t
      <4>1. s \in has_inited /\ s \in Type /\ type_id'[s] = type_id[s]
        BY <2>1, <3>2 DEF RegistryInv
      <4>2. type_id[s] \in Nat /\ type_id[s] < type_list.size /\ type_list.data[type_id[s]] = s
        BY <4>1 DEF RegistryInv, IdsLeadHome, get_type
      <4>3. type_id[s] \in 0..(type_list.size - 1)
        BY <2>3, <4>2
      <4> QED BY <2>2, <2>3, <4>1, <4>2, <4>3
    <3> QED BY <3>1, <3>2
  <2>6. RegisteredOnce'
    <3>1. IsFiniteSet(has_inited)
      BY FS_Subset, TypeAssumption DEF RegistryInv
    <3>2. Cardinality(has_inited \union {t}) = Cardinality(has_inited) + 1
      BY <1>1, <3>1, FS_AddElement
    <3> QED BY <2>1, <2>2, <3>2 DEF RegistryInv, RegisteredOnce
  <2> QED BY <2>2, <2>4, <2>5, <2>6 DEF RegistryInv
<1>2. CASE UNCHANGED type_vars
  BY <1>2 DEF type_vars, RegistryInv, TypeListOK, A!ArrayListTypeOK, A!ElementsFit, IdsLeadHome, get_type, RegisteredOnce
<1> QED BY <1>1, <1>2 DEF TypesNext, Construct, MustRegister

(* The type list and the numbers are well formed. *)
THEOREM RegistryTypeCorrect == TypesSpec => []TypesTypeOK
<1>1. RegistryInv => TypesTypeOK
  BY DEF RegistryInv, TypeListOK, TypesTypeOK
<1> QED BY <1>1, RegistryInitIsRight, RegistryNextIsRight, PTL DEF TypesSpec

(* A type's number leads to its own definition for ever. *)
THEOREM IdsAlwaysLeadHome == TypesSpec => []IdsLeadHome
<1>1. RegistryInv => IdsLeadHome
  BY DEF RegistryInv
<1> QED BY <1>1, RegistryInitIsRight, RegistryNextIsRight, PTL DEF TypesSpec

(* No type is registered twice. *)
THEOREM AlwaysRegisteredOnce == TypesSpec => []RegisteredOnce
<1>1. RegistryInv => RegisteredOnce
  BY DEF RegistryInv
<1> QED BY <1>1, RegistryInitIsRight, RegistryNextIsRight, PTL DEF TypesSpec

-----------------------------------------------------------------------------
(* SymbolTable.tla.  Symbols in use are never freed, and names that freed   *)
(* memory does not spell keep theirs, for every set of names; where no      *)
(* string dies while it is interned, the symbol table implements            *)
(* Interner.tla.                                                           *)

InUse == vm_pointers \union held

(* Only an entry whose key freed memory spells can have got a symbol that   *)
(* does not own the key.                                                    *)
KeysAreOwned ==
  \A e \in table : e.key # e.value => e.key \notin Live \/ symbols[e.key] \in Freed

SymbolInv == TypeOK /\ SymbolsInUseAreLive /\ KeysAreOwned

(* A step that makes no symbol.                                             *)
Keeps ==
  /\ symbols' \in {symbols, Swept} /\ UNCHANGED table
  /\ held' \subseteq InUse
(* A step that makes one, for the name n, and copies the name m.            *)
Makes(n, m, g) ==
  /\ m = n \/ (m = g /\ g \in Freed)
  /\ Found(n, g) = {} /\ Len(symbols) < MaxSymbols
  /\ \E before \in {symbols, Swept} : symbols' = Append(before, m)
  /\ table' \in hashtable_put(Len(symbols) + 1, m, g)
  /\ held' = held \union {Len(symbols) + 1}
  /\ answer' = <<n, Len(symbols) + 1>>

LEMMA StepCases ==
  ASSUME [Next]_vars
  PROVE  Keeps \/ \E n \in Name, m \in Name, g \in Spelled : Makes(n, m, g)
<1> USE FreedAssumption
<1>1. CASE UNCHANGED vars
  BY <1>1 DEF vars, Keeps, InUse
<1>2. ASSUME NEW n \in Name, NEW g \in Spelled, make_symbol(n, g)
      PROVE  Keeps \/ Makes(n, n, g)
  <2>1. CASE find_symbol(n, g)
    BY <2>1 DEF find_symbol, Give, Found, Keeps, InUse, vm_pointers
  <2>2. CASE \E before \in {symbols, Swept} : new_symbol(n, g, before, n)
    BY <2>2 DEF new_symbol, Give, Makes
  <2> QED BY <1>2, <2>1, <2>2 DEF make_symbol
<1>3. ASSUME NEW n \in Name, NEW g \in Spelled, string_to_symbol(n, g)
      PROVE  g \in Name /\ Makes(n, g, g)
  BY <1>3 DEF string_to_symbol, new_symbol, Give, Makes
<1>4. ASSUME NEW s \in held, symbol_to_string(s) \/ drop(s)
      PROVE  Keeps
  BY <1>4 DEF symbol_to_string, drop, Keeps, InUse
<1>5. CASE collect
  BY <1>5 DEF collect, Keeps, InUse
<1> QED BY <1>1, <1>2, <1>3, <1>4, <1>5 DEF Next

(* A name is never changed but by the sweep, which spares what is in use.   *)
LEMMA SweptIsOlder ==
  ASSUME TypeOK, NEW before \in {symbols, Swept}
  PROVE  /\ before \in Seq(Name \union {NULL}) /\ Len(before) = Len(symbols)
         /\ \A t \in 1..Len(symbols) : before[t] \in {symbols[t], NULL}
         /\ \A t \in InUse \intersect 1..Len(symbols) : before[t] = symbols[t]
<1>1. /\ Len(symbols) \in Nat /\ DOMAIN symbols = 1..Len(symbols)
      /\ \A t \in 1..Len(symbols) : symbols[t] \in Name \union {NULL}
  BY DEF TypeOK
<1>2. CASE before = symbols
  BY <1>2 DEF TypeOK
<1>3. CASE before = Swept
  <2>1. /\ DOMAIN Swept = 1..Len(symbols)
        /\ \A t \in 1..Len(symbols) :
             Swept[t] = IF t \in InUse THEN symbols[t] ELSE NULL
    BY <1>1 DEF Swept, InUse
  <2>2. Swept \in [1..Len(symbols) -> Name \union {NULL}]
    BY <1>1 DEF Swept
  <2>3. Swept \in Seq(Name \union {NULL})
    BY <1>1, <2>2
  <2>4. Len(Swept) = Len(symbols)
    BY <1>1, <2>1, <2>3
  <2> QED BY <1>3, <2>1, <2>3, <2>4
<1> QED BY <1>2, <1>3

LEMMA KeepsNames ==
  ASSUME TypeOK, Keeps
  PROVE  /\ symbols' \in Seq(Name \union {NULL}) /\ Len(symbols') = Len(symbols)
         /\ \A t \in 1..Len(symbols) : symbols'[t] \in {symbols[t], NULL}
         /\ \A t \in InUse \intersect 1..Len(symbols) : symbols'[t] = symbols[t]
BY SweptIsOlder DEF Keeps

LEMMA MakesNames ==
  ASSUME TypeOK, NEW n \in Name, NEW m \in Name, NEW g, Makes(n, m, g)
  PROVE  LET s == Len(symbols) + 1 IN
         /\ symbols' \in Seq(Name \union {NULL})
         /\ s \in Nat /\ s <= MaxSymbols /\ Len(symbols') = s
         /\ symbols'[s] = m
         /\ \A t \in 1..Len(symbols) : symbols'[t] \in {symbols[t], NULL}
         /\ \A t \in InUse \intersect 1..Len(symbols) : symbols'[t] = symbols[t]
<1> USE MaxSymbolsAssumption
<1>1. Len(symbols) \in Nat
  BY DEF TypeOK
<1>2. PICK before \in {symbols, Swept} : symbols' = Append(before, m)
  BY DEF Makes
<1>3. /\ before \in Seq(Name \union {NULL}) /\ Len(before) = Len(symbols)
      /\ \A t \in 1..Len(symbols) : before[t] \in {symbols[t], NULL}
      /\ \A t \in InUse \intersect 1..Len(symbols) : before[t] = symbols[t]
  BY SweptIsOlder
<1>4. /\ Append(before, m) \in Seq(Name \union {NULL})
      /\ Len(Append(before, m)) = Len(symbols) + 1
      /\ Append(before, m)[Len(symbols) + 1] = m
      /\ \A t \in 1..Len(symbols) : Append(before, m)[t] = before[t]
  BY <1>1, <1>3
<1>5. Len(symbols) + 1 <= MaxSymbols
  BY <1>1 DEF Makes
<1> QED BY <1>1, <1>2, <1>3, <1>4, <1>5

(* Each entry after a step that makes a symbol: an old one, one of the new  *)
(* symbol under its own name, or one whose key freed memory spells.         *)
LEMMA MakesEntries ==
  ASSUME TypeOK, NEW n \in Name, NEW m \in Name, NEW g, Makes(n, m, g)
  PROVE  LET s == Len(symbols) + 1
             Wrong(e) == e.key \notin Live \/ symbols[e.key] \in Freed
         IN  \/ Found(m, g) = {} /\ table' = table \union {Entry(s, s)}
             \/ \E e \in table : Wrong(e) /\ m \in Freed /\ table' = (table \ {e}) \union {Entry(e.key, s)}
<1>1. CASE Found(m, g) = {}
  BY <1>1 DEF Makes, hashtable_put
<1>2. CASE Found(m, g) # {}
  <2>1. m = g /\ g \in Freed
    BY <1>2 DEF Makes
  <2>2. PICK e \in Found(m, g) : table' = (table \ {e}) \union {Entry(e.key, Len(symbols) + 1)}
    BY <1>2 DEF Makes, hashtable_put
  <2>3. e \in table /\ (e.key \notin Live \/ symbols[e.key] \in Freed)
    BY <2>1, <2>2 DEF Found, Spells
  <2> QED BY <2>1, <2>2, <2>3
<1> QED BY <1>1, <1>2

LEMMA InitIsInvariant == Init => SymbolInv
BY MaxSymbolsAssumption
   DEF Init, SymbolInv, TypeOK, SymbolsInUseAreLive, KeysAreOwned, vm_pointers, Live

LEMMA KeepsIsInvariant ==
  ASSUME SymbolInv, Keeps
  PROVE  SymbolInv'
<1> USE NullIsNoName
<1>1. /\ symbols' \in Seq(Name \union {NULL}) /\ Len(symbols') = Len(symbols)
      /\ \A t \in 1..Len(symbols) : symbols'[t] \in {symbols[t], NULL}
      /\ \A t \in InUse \intersect 1..Len(symbols) : symbols'[t] = symbols[t]
  BY KeepsNames DEF SymbolInv
<1>2. DOMAIN symbols = 1..Len(symbols) /\ DOMAIN symbols' = 1..Len(symbols)
  BY <1>1 DEF SymbolInv, TypeOK
<1>3. table' = table /\ held' \subseteq InUse
  BY DEF Keeps
<1>4. InUse \subseteq Live
  BY DEF SymbolInv, SymbolsInUseAreLive, InUse
<1>5. TypeOK'
  BY <1>1, <1>2, <1>3, <1>4 DEF SymbolInv, TypeOK, Live
<1>6. InUse \subseteq Live'
  BY <1>1, <1>2, <1>4 DEF Live
<1>7. SymbolsInUseAreLive'
  BY <1>3, <1>6 DEF SymbolsInUseAreLive, vm_pointers, InUse
<1>8. KeysAreOwned'
  <2> SUFFICES ASSUME NEW e \in table, e.key # e.value, e.key \in Live'
               PROVE  symbols'[e.key] \in Freed
    BY <1>3 DEF KeysAreOwned
  <2>1. e.key \in 1..Len(symbols) /\ symbols'[e.key] # NULL
    BY <1>2 DEF Live
  <2>2. symbols'[e.key] = symbols[e.key] /\ e.key \in Live
    BY <1>1, <1>2, <2>1 DEF Live
  <2> QED BY <2>2 DEF SymbolInv, KeysAreOwned
<1> QED BY <1>5, <1>7, <1>8 DEF SymbolInv

LEMMA MakesIsInvariant ==
  ASSUME SymbolInv, NEW n \in Name, NEW m \in Name, NEW g, Makes(n, m, g)
  PROVE  SymbolInv'
<1> USE NullIsNoName
<1> DEFINE s == Len(symbols) + 1
           Wrong(e) == e.key \notin Live \/ symbols[e.key] \in Freed
<1>1. /\ symbols' \in Seq(Name \union {NULL})
      /\ s \in Nat /\ s <= MaxSymbols /\ Len(symbols') = s
      /\ symbols'[s] = m
      /\ \A t \in 1..Len(symbols) : symbols'[t] \in {symbols[t], NULL}
      /\ \A t \in InUse \intersect 1..Len(symbols) : symbols'[t] = symbols[t]
  BY MakesNames DEF SymbolInv
<1>2. /\ Len(symbols) \in Nat
      /\ DOMAIN symbols = 1..Len(symbols) /\ DOMAIN symbols' = 1..s
  BY <1>1 DEF SymbolInv, TypeOK
<1>3. held' = held \union {s}
  BY DEF Makes
<1>4. InUse \subseteq Live /\ InUse \subseteq 1..Len(symbols)
  BY <1>2 DEF SymbolInv, SymbolsInUseAreLive, InUse, Live
<1>5. InUse \union {s} \subseteq Live'
  BY <1>1, <1>2, <1>4 DEF Live
<1>6. \/ table' = table \union {Entry(s, s)}
      \/ \E e \in table : Wrong(e) /\ table' = (table \ {e}) \union {Entry(e.key, s)}
  BY MakesEntries DEF SymbolInv
<1> HIDE DEF s
<1>7. \A e \in table' :
        \/ e \in table
        \/ e.key = s /\ e.value = s /\ e = Entry(s, s)
        \/ e.value = s /\ \E d \in table : Wrong(d) /\ e.key = d.key /\ e = Entry(d.key, s)
  BY <1>6 DEF Entry
<1>8. table \subseteq [key : 1..Len(symbols), value : 1..Len(symbols)]
  BY <1>2 DEF SymbolInv, TypeOK
<1>9. s \in 1..s /\ 1..Len(symbols) \subseteq 1..s
  BY <1>2 DEF s
<1>10. TypeOK'
  <2>1. \A e \in table' : e \in [key : 1..s, value : 1..s]
    BY <1>7, <1>8, <1>9 DEF Entry
  <2>2. held' \subseteq 1..s
    BY <1>3, <1>4, <1>9 DEF InUse
  <2> QED BY <1>1, <1>2, <2>1, <2>2 DEF TypeOK
<1>11. SymbolsInUseAreLive'
  <2>1. \A e \in table' : e.value \in InUse \union {s}
    BY <1>7 DEF InUse, vm_pointers
  <2>2. held' \subseteq InUse \union {s}
    BY <1>3 DEF InUse
  <2> QED BY <1>5, <2>1, <2>2 DEF SymbolsInUseAreLive, vm_pointers
<1>12. KeysAreOwned'
  <2> SUFFICES ASSUME NEW e \in table', e.key # e.value, e.key \in Live'
               PROVE  symbols'[e.key] \in Freed
    BY DEF KeysAreOwned
  <2>1. ASSUME NEW d \in table, Wrong(d), e.key = d.key
        PROVE  symbols'[e.key] \in Freed
    <3>1. d.key \in 1..Len(symbols) /\ symbols'[d.key] # NULL
      BY <1>8, <2>1 DEF Live
    <3>2. symbols'[d.key] = symbols[d.key] /\ d.key \in Live
      BY <1>1, <1>2, <3>1 DEF Live
    <3> QED BY <2>1, <3>2
  <2>2. CASE e \in table
    BY <2>1, <2>2 DEF SymbolInv, KeysAreOwned
  <2> QED BY <1>7, <2>1, <2>2
<1> QED BY <1>10, <1>11, <1>12 DEF SymbolInv

THEOREM TableIsInvariant == Spec => []SymbolInv
<1>1. SymbolInv /\ [Next]_vars => SymbolInv'
  BY StepCases, KeepsIsInvariant, MakesIsInvariant
<1> QED BY InitIsInvariant, <1>1, PTL DEF Spec

(* Type correctness of the symbol table.                                    *)
THEOREM SymbolTypeCorrect == Spec => []TypeOK
BY TableIsInvariant, PTL DEF SymbolInv

(* No symbol that the table or the program has is ever freed.               *)
THEOREM SymbolsInUseLive == Spec => []SymbolsInUseAreLive
BY TableIsInvariant, PTL DEF SymbolInv

(* Entries of a name that freed memory never spells own their key.         *)
LEMMA SymbolOfIsOwned ==
  ASSUME SymbolInv, NEW n \in Name \ Freed, NEW e \in table, e.key \in Live, symbols[e.key] = n
  PROVE  e.key = e.value /\ e.key \in InUse \intersect 1..Len(symbols)
BY DEF SymbolInv, TypeOK, KeysAreOwned, InUse, vm_pointers

LEMMA KeepsSymbolOf ==
  ASSUME SymbolInv, Keeps, NEW n \in Name \ Freed
  PROVE  SymbolOf(n)' = SymbolOf(n)
<1> USE NullIsNoName
<1>1. /\ symbols' \in Seq(Name \union {NULL}) /\ Len(symbols') = Len(symbols)
      /\ \A t \in 1..Len(symbols) : symbols'[t] \in {symbols[t], NULL}
      /\ \A t \in InUse \intersect 1..Len(symbols) : symbols'[t] = symbols[t]
  BY KeepsNames DEF SymbolInv
<1>2. DOMAIN symbols = 1..Len(symbols) /\ DOMAIN symbols' = 1..Len(symbols)
  BY <1>1 DEF SymbolInv, TypeOK
<1>3. table' = table
  BY DEF Keeps
<1>4. \A e \in table : (e.key \in Live' /\ symbols'[e.key] = n) <=> (e.key \in Live /\ symbols[e.key] = n)
  <2> TAKE e \in table
  <2>1. ASSUME e.key \in Live' /\ symbols'[e.key] = n
        PROVE  e.key \in Live /\ symbols[e.key] = n
    BY <1>1, <1>2, <2>1 DEF Live
  <2>2. ASSUME e.key \in Live /\ symbols[e.key] = n
        PROVE  e.key \in Live' /\ symbols'[e.key] = n
    BY <1>1, <1>2, <2>2, SymbolOfIsOwned DEF Live
  <2> QED BY <2>1, <2>2
<1> QED BY <1>3, <1>4 DEF SymbolOf

(* A new symbol changes nothing for the names that have one.                *)
LEMMA MakesSymbolOf ==
  ASSUME SymbolInv, NEW k \in Name, NEW m \in Name, NEW g, Makes(k, m, g),
         NEW n \in Name \ Freed
  PROVE  /\ SymbolOf(n) # {} => n # k
         /\ n # k => SymbolOf(n)' = SymbolOf(n)
         /\ n = k /\ m = k => SymbolOf(n)' = {Len(symbols) + 1}
<1> USE NullIsNoName
<1> DEFINE s == Len(symbols) + 1
           Wrong(e) == e.key \notin Live \/ symbols[e.key] \in Freed
           Named(e) == e.key \in Live /\ symbols[e.key] = n
           NamedNow(e) == e.key \in Live' /\ symbols'[e.key] = n
<1>1. /\ symbols' \in Seq(Name \union {NULL})
      /\ s \in Nat /\ Len(symbols') = s /\ symbols'[s] = m
      /\ \A t \in 1..Len(symbols) : symbols'[t] \in {symbols[t], NULL}
      /\ \A t \in InUse \intersect 1..Len(symbols) : symbols'[t] = symbols[t]
  BY MakesNames DEF SymbolInv
<1>2. /\ Len(symbols) \in Nat
      /\ DOMAIN symbols = 1..Len(symbols) /\ DOMAIN symbols' = 1..s
  BY <1>1 DEF SymbolInv, TypeOK
<1>3. \/ Found(m, g) = {} /\ table' = table \union {Entry(s, s)}
      \/ \E e \in table : Wrong(e) /\ m \in Freed /\ table' = (table \ {e}) \union {Entry(e.key, s)}
  BY MakesEntries DEF SymbolInv
<1>4. Found(k, g) = {} /\ (m = k \/ m \in Freed)
  BY DEF Makes
<1>5. \A e \in table : e.key \in 1..Len(symbols)
  BY <1>2 DEF SymbolInv, TypeOK
<1>6. \A e \in table : NamedNow(e) <=> Named(e)
  <2> TAKE e \in table
  <2>1. ASSUME NamedNow(e) PROVE Named(e)
    BY <1>1, <1>2, <1>5, <2>1 DEF Live
  <2>2. ASSUME Named(e) PROVE NamedNow(e)
    BY <1>1, <1>2, <2>2, SymbolOfIsOwned DEF Live
  <2> QED BY <2>1, <2>2
<1>7. \A e \in table : ~ (Named(e) /\ Wrong(e))
  OBVIOUS
<1>8. \A e \in table : Named(e) => n # k
  BY <1>4 DEF Found, Spells
<1>9. s \in Live' /\ symbols'[s] = m
  BY <1>1, <1>2 DEF Live
<1> HIDE DEF s
<1>10. \A e : e.key = s => (NamedNow(e) <=> m = n)
  BY <1>9
<1>11. SymbolOf(n) = {e.value : e \in {e \in table : Named(e)}}
  BY DEF SymbolOf
<1>12. SymbolOf(n)' = {e.value : e \in {e \in table' : NamedNow(e)}}
  BY DEF SymbolOf
<1>13. Entry(s, s).key = s /\ Entry(s, s).value = s
  BY DEF Entry
<1>14. CASE table' = table \union {Entry(s, s)}
  <2>1. {e \in table' : NamedNow(e)} =
          {e \in table : Named(e)} \union (IF m = n THEN {Entry(s, s)} ELSE {})
    BY <1>6, <1>10, <1>13, <1>14
  <2>2. m = n => n = k
    BY <1>4
  <2> HIDE DEF Named, NamedNow
  <2>3. n # k => {e \in table' : NamedNow(e)} = {e \in table : Named(e)}
    BY <2>1, <2>2
  <2>4. n = k /\ m = k => {e \in table' : NamedNow(e)} = {Entry(s, s)}
    BY <1>8, <2>1
  <2> QED BY <1>8, <1>11, <1>12, <1>13, <2>3, <2>4 DEF s
<1>15. ASSUME NEW d \in table, Wrong(d), m \in Freed,
              table' = (table \ {d}) \union {Entry(d.key, s)}
       PROVE  {e \in table' : NamedNow(e)} = {e \in table : Named(e)}
  <2>1. Entry(d.key, s).key = d.key
    BY DEF Entry
  <2>2. ~ NamedNow(d) /\ ~ Named(d)
    BY <1>6, <1>7, <1>15
  <2>3. ~ NamedNow(Entry(d.key, s))
    BY <2>1, <2>2
  <2> QED BY <1>6, <1>15, <2>2, <2>3
<1>16. CASE \E e \in table : Wrong(e) /\ m \in Freed /\ table' = (table \ {e}) \union {Entry(e.key, s)}
  <2>1. {e \in table' : NamedNow(e)} = {e \in table : Named(e)} /\ m # n
    BY <1>15, <1>16
  <2> HIDE DEF Named, NamedNow, Wrong
  <2> QED BY <1>8, <1>11, <1>12, <2>1
<1> QED BY <1>3, <1>14, <1>16

(* A name that freed memory never spells keeps its symbol, and the symbol   *)
(* its name.                                                                *)
THEOREM NamesAlwaysKeepTheirSymbols == Spec => NamesKeepTheirSymbols
<1> DEFINE Kept == \A n \in Name \ Freed : SymbolOf(n) # {} =>
                     /\ SymbolOf(n)' = SymbolOf(n)
                     /\ \A s \in SymbolOf(n) : symbols'[s] = n
<1>1. ASSUME SymbolInv, [Next]_vars PROVE Kept
  <2> SUFFICES ASSUME NEW n \in Name \ Freed, SymbolOf(n) # {}
               PROVE  /\ SymbolOf(n)' = SymbolOf(n)
                      /\ \A s \in SymbolOf(n) : symbols'[s] = n
    OBVIOUS
  <2>1. SymbolOf(n)' = SymbolOf(n)
    BY <1>1, StepCases, KeepsSymbolOf, MakesSymbolOf
  <2>2. ASSUME NEW s \in SymbolOf(n) PROVE symbols'[s] = n
    <3>1. PICK e \in table : e.key \in Live /\ symbols[e.key] = n /\ s = e.value
      BY <2>2 DEF SymbolOf
    <3>2. s \in InUse \intersect 1..Len(symbols) /\ symbols[s] = n
      BY <1>1, <3>1, SymbolOfIsOwned
    <3>3. symbols'[s] = symbols[s]
      BY <1>1, <3>2, StepCases, KeepsNames, MakesNames DEF SymbolInv
    <3> QED BY <3>2, <3>3
  <2> QED BY <2>1, <2>2
<1>2. SymbolInv /\ [Next]_vars => [Kept]_vars
  BY <1>1
<1> QED BY TableIsInvariant, <1>2, PTL DEF Spec, NamesKeepTheirSymbols

(* Where no string dies while it is interned, each symbol owns its key, no  *)
(* two have one name, and the program's are in the table.                  *)
OneSymbolEach ==
  /\ \A e \in table : e.key = e.value
  /\ \A d, e \in table : symbols[d.key] = symbols[e.key] => d = e
  /\ held \subseteq vm_pointers

LEMMA KeepsOneSymbolEach ==
  ASSUME SymbolInv, OneSymbolEach, Keeps
  PROVE  OneSymbolEach'
<1>1. \A t \in InUse \intersect 1..Len(symbols) : symbols'[t] = symbols[t]
  BY KeepsNames DEF SymbolInv
<1>2. \A e \in table : e.key \in InUse \intersect 1..Len(symbols)
  BY DEF OneSymbolEach, SymbolInv, TypeOK, InUse, vm_pointers
<1>3. table' = table /\ held' \subseteq vm_pointers
  BY DEF Keeps, OneSymbolEach, InUse
<1> QED BY <1>1, <1>2, <1>3 DEF OneSymbolEach, vm_pointers

LEMMA MakesOneSymbolEach ==
  ASSUME Freed = {}, SymbolInv, OneSymbolEach, NEW n \in Name, NEW m \in Name, NEW g, Makes(n, m, g)
  PROVE  OneSymbolEach' /\ m = n
<1> DEFINE s == Len(symbols) + 1
<1>1. m = n /\ Found(n, g) = {}
  BY DEF Makes
<1>2. table' = table \union {Entry(s, s)}
  BY <1>1, MakesEntries DEF SymbolInv
<1>3. held' = held \union {s}
  BY DEF Makes
<1>4. /\ symbols'[s] = n
      /\ \A t \in InUse \intersect 1..Len(symbols) : symbols'[t] = symbols[t]
  BY <1>1, MakesNames DEF SymbolInv
<1>5. \A e \in table : e.key \in InUse \intersect 1..Len(symbols) /\ e.key \in Live
  BY DEF OneSymbolEach, SymbolInv, TypeOK, InUse, vm_pointers, SymbolsInUseAreLive
<1>6. \A e \in table : symbols'[e.key] = symbols[e.key] /\ symbols[e.key] # n
  BY <1>1, <1>4, <1>5 DEF Found, Spells
<1> HIDE DEF s
<1>7. Entry(s, s).key = s /\ Entry(s, s).value = s
  BY DEF Entry
<1>8. \A e \in table' : e.key = e.value
  BY <1>2, <1>7 DEF OneSymbolEach
<1>9. \A d, e \in table' : symbols'[d.key] = symbols'[e.key] => d = e
  <2> TAKE d, e \in table'
  <2>1. (d \in table \/ d = Entry(s, s)) /\ (e \in table \/ e = Entry(s, s))
    BY <1>2
  <2> QED BY <1>4, <1>6, <1>7, <2>1 DEF OneSymbolEach
<1>10. held' \subseteq {e.value : e \in table'}
  BY <1>2, <1>3, <1>7 DEF OneSymbolEach, vm_pointers
<1> QED BY <1>1, <1>8, <1>9, <1>10 DEF OneSymbolEach, vm_pointers

(* What the abstract map knows of a symbol of the table.                    *)
LEMMA KnownSymbols ==
  ASSUME SymbolInv, OneSymbolEach, NEW e \in table
  PROVE  /\ symbols[e.value] = symbols[e.key] /\ symbols[e.key] \in DOMAIN Known
         /\ Known[symbols[e.key]] = e.value
<1> DEFINE n == symbols[e.key]
<1>1. e.key = e.value /\ e.key \in Live /\ e.key \in DOMAIN symbols
  BY DEF OneSymbolEach, SymbolInv, SymbolsInUseAreLive, vm_pointers, Live
<1>2. n \in Name
  BY <1>1 DEF SymbolInv, TypeOK, Live
<1> HIDE DEF n
<1>3. SymbolOf(n) = {e.value}
  BY <1>1 DEF SymbolOf, OneSymbolEach, n
<1>4. n \in DOMAIN Known /\ Known[n] = CHOOSE t \in SymbolOf(n) : TRUE
  BY <1>2, <1>3 DEF Known
<1> QED BY <1>1, <1>3, <1>4 DEF n

LEMMA KnownValues ==
  ASSUME SymbolInv, OneSymbolEach, NEW n \in DOMAIN Known
  PROVE  Known[n] \in 1..Len(symbols)
<1>1. n \in Name /\ SymbolOf(n) # {} /\ Known[n] \in SymbolOf(n)
  BY DEF Known
<1> QED BY <1>1 DEF SymbolOf, SymbolInv, TypeOK

(* The same symbols of the same names are the same map.                     *)
LEMMA KnownUnchanged ==
  ASSUME \A n \in Name : SymbolOf(n)' = SymbolOf(n)
  PROVE  Known' = Known
BY DEF Known

LEMMA KeepsRefines ==
  ASSUME Freed = {}, SymbolInv, OneSymbolEach, [Next]_vars, Keeps
  PROVE  [I!Next]_<<Known, answer>>
<1>1. Known' = Known
  BY KeepsSymbolOf, KnownUnchanged
<1>2. ASSUME NEW e \in table, answer' = <<symbols[e.key], e.value>>
      PROVE  I!Next
  <2>1. symbols[e.key] \in DOMAIN Known /\ Known[symbols[e.key]] = e.value
    BY KnownSymbols
  <2>2. symbols[e.key] \in Name
    BY <2>1 DEF Known
  <2> QED BY <1>1, <1>2, <2>1, <2>2 DEF I!Next, I!Find
<1>3. ASSUME NEW n \in Name, NEW g \in Spelled, find_symbol(n, g)
      PROVE  I!Next
  <2>1. PICK e \in Found(n, g) : answer' = <<n, e.value>>
    BY <1>3 DEF find_symbol, Give
  <2>2. e \in table /\ e.key \in Live
    BY <2>1 DEF Found, OneSymbolEach, SymbolInv, SymbolsInUseAreLive, vm_pointers
  <2>3. symbols[e.key] = n
    BY <2>1, <2>2 DEF Found, Spells
  <2> QED BY <1>2, <2>1, <2>2, <2>3
<1>4. ASSUME NEW s \in held, symbol_to_string(s) \/ drop(s)
      PROVE  I!Next \/ answer' = answer
  <2>1. PICK e \in table : s = e.value /\ e.key = e.value
    BY DEF OneSymbolEach, vm_pointers
  <2> QED BY <1>2, <1>4, <2>1 DEF symbol_to_string, drop
<1>5. ASSUME NEW n \in Name, NEW g, NEW before, NEW m, new_symbol(n, g, before, m),
             NEW seq \in {symbols, Swept}, symbols' = seq, before \in {symbols, Swept}
      PROVE  FALSE
  <2>1. held' = held \union {Len(symbols) + 1} /\ held' \subseteq InUse
    BY <1>5 DEF new_symbol, Give, Keeps
  <2>2. InUse \subseteq 1..Len(symbols) /\ Len(symbols) \in Nat
    BY DEF SymbolInv, TypeOK, InUse, vm_pointers
  <2> QED BY <2>1, <2>2
<1>6. CASE collect \/ UNCHANGED vars
  BY <1>1, <1>6 DEF collect, vars
<1>7. ASSUME NEW n \in Name, NEW g \in Spelled, make_symbol(n, g) \/ string_to_symbol(n, g)
      PROVE  I!Next
  BY <1>3, <1>5, <1>7 DEF make_symbol, string_to_symbol, Keeps
<1> QED BY <1>1, <1>4, <1>6, <1>7 DEF Next

LEMMA MakesRefines ==
  ASSUME Freed = {}, SymbolInv, OneSymbolEach, NEW n \in Name, NEW m \in Name, NEW g, Makes(n, m, g)
  PROVE  I!Next
<1> DEFINE s == Len(symbols) + 1
<1>1. m = n
  BY MakesOneSymbolEach
<1>2. SymbolOf(n) = {}
  BY MakesSymbolOf
<1>3. /\ SymbolOf(n)' = {s}
      /\ \A k \in Name : k # n => SymbolOf(k)' = SymbolOf(k)
  BY <1>1, MakesSymbolOf
<1>4. Len(symbols) \in Nat /\ s \in Symbol
  BY MakesNames DEF SymbolInv, TypeOK, Symbol
<1>5. n \notin DOMAIN Known /\ \A k \in DOMAIN Known : Known[k] # s
  <2>1. n \notin DOMAIN Known
    BY <1>2 DEF Known
  <2>2. \A k \in DOMAIN Known : Known[k] \in 1..Len(symbols)
    BY KnownValues
  <2> QED BY <1>4, <2>1, <2>2
<1> HIDE DEF s
<1>6. Known' = [k \in DOMAIN Known \union {n} |-> IF k = n THEN s ELSE Known[k]]
  <2> DEFINE D == {k \in Name : SymbolOf(k)' # {}}
             S(k) == CHOOSE t \in SymbolOf(k)' : TRUE
             new(k) == IF k = n THEN s ELSE Known[k]
  <2>1. D = DOMAIN Known \union {n}
    BY <1>3 DEF Known
  <2>2. ASSUME NEW k \in D PROVE S(k) = new(k)
    <3>1. CASE k = n
      BY <1>3, <3>1
    <3>2. CASE k # n
      <4>1. k \in DOMAIN Known /\ Known[k] = CHOOSE t \in SymbolOf(k) : TRUE
        BY <1>3, <3>2 DEF Known
      <4> QED BY <1>3, <3>2, <4>1
    <3> QED BY <3>1, <3>2
  <2>3. Known' = [k \in D |-> S(k)]
    BY DEF Known
  <2> HIDE DEF D, S, new
  <2>4. [k \in D |-> S(k)] = [k \in D |-> new(k)]
    BY <2>2
  <2> QED BY <2>1, <2>3, <2>4 DEF new
<1>7. answer' = <<n, s>>
  BY DEF Makes, s
<1> QED BY <1>4, <1>5, <1>6, <1>7 DEF I!Next, I!Make

(* One symbol a name and one name a symbol, for ever, if every name outlives *)
(* the call that interns it.                                                *)
THEOREM TableImplementsInterner == Freed = {} => (Spec => InternerSpec)
<1> SUFFICES ASSUME Freed = {} PROVE Spec => InternerSpec
  OBVIOUS
<1>1. Init => OneSymbolEach /\ I!Init
  <2> SUFFICES ASSUME Init PROVE OneSymbolEach /\ I!Init
    OBVIOUS
  <2>1. OneSymbolEach
    BY DEF Init, OneSymbolEach, vm_pointers
  <2>2. \A n : SymbolOf(n) = {}
    BY DEF Init, SymbolOf
  <2>3. Known = [n \in {} |-> CHOOSE s \in SymbolOf(n) : TRUE]
    BY <2>2 DEF Known
  <2>4. Known = << >>
    BY <2>3
  <2> QED BY <2>1, <2>4 DEF Init, I!Init
<1>2. SymbolInv /\ OneSymbolEach /\ [Next]_vars => OneSymbolEach'
  BY StepCases, KeepsOneSymbolEach, MakesOneSymbolEach
<1>3. SymbolInv /\ OneSymbolEach /\ [Next]_vars => [I!Next]_<<Known, answer>>
  BY StepCases, KeepsRefines, MakesRefines
<1> QED BY TableIsInvariant, <1>1, <1>2, <1>3, PTL DEF Spec, InternerSpec, I!Spec, I!vars

-----------------------------------------------------------------------------
(* LinkedStack.tla.  Stacks of linked entries are the sequences of stack.h: *)
(* for every set of stacks, values and addresses.  The walk along the links *)
(* is a recursive function; that it ends at the end of the chain, and that  *)
(* no chain runs into another's, is shown from the chains that there are.   *)

(* Without memory: the entries of each stack, the top first, are a sequence *)
(* c[s] of addresses.                                                      *)
First(q) == IF q = << >> THEN NULL ELSE q[1]
After(q, i) == IF i = Len(q) THEN NULL ELSE q[i + 1]
From(q, i) == [j \in 1..(Len(q) - i + 1) |-> q[i + j - 1]]

(* No entry belongs to two places or is free, each belongs somewhere, and   *)
(* what is free leads nowhere: the inductive invariant.                    *)
Headers(c, k) ==
  /\ c \in [DOMAIN k -> Seq(Address)]
  /\ k = [s \in DOMAIN k |-> [top |-> First(c[s]), entries |-> Len(c[s])]]
Places(m, f) ==
  /\ m \in [Address -> [next : Address \union {NULL, mem_mix}, val : Void \union {NULL}]]
  /\ f \in SUBSET Address /\ \A a \in f : m[a].next = mem_mix
Chained(c, m, f) ==
  \A s \in DOMAIN c : \A i \in 1..Len(c[s]) : c[s][i] \notin f /\ m[c[s][i]].next = After(c[s], i)
Apart(c) ==
  \A s, t \in DOMAIN c : \A i \in 1..Len(c[s]), j \in 1..Len(c[t]) :
    c[s][i] = c[t][j] => s = t /\ i = j
NoneLost(c, f) ==
  \A a \in Address \ f : \E s \in DOMAIN c : \E i \in 1..Len(c[s]) : c[s][i] = a
Linked(c, k, m, f) == Headers(c, k) /\ Places(m, f) /\ Chained(c, m, f) /\ Apart(c) /\ NoneLost(c, f)

StackInv == \E c : Linked(c, stk, memory, free)

(* The values at the addresses. *)
At(q, m) == [i \in 1..Len(q) |-> m[q[i]].val]
Content(c, m) == [s \in DOMAIN c |-> At(c[s], m)]

LEMMA FromFacts ==
  ASSUME NEW q \in Seq(Address)
  PROVE  /\ From(q, 1) = q /\ From(q, Len(q) + 1) = << >>
         /\ \A i \in 1..Len(q) : From(q, i) = <<q[i]>> \o From(q, i + 1)
         /\ \A i \in 1..Len(q) : From(q, i) \in Seq(Address)
<1>1. Len(q) \in Nat /\ q \in [1..Len(q) -> Address]  OBVIOUS
<1>2. From(q, 1) = q
  <2>1. \A j \in 1..Len(q) : 1 + j - 1 = j  BY <1>1
  <2>2. Len(q) - 1 + 1 = Len(q)  BY <1>1
  <2> QED BY <1>1, <2>1, <2>2 DEF From
<1>3. From(q, Len(q) + 1) = << >>
  <2>1. 1..(Len(q) - (Len(q) + 1) + 1) = {}  BY <1>1
  <2> QED BY <2>1 DEF From
<1>4. ASSUME NEW i \in 1..(Len(q) + 1) PROVE From(q, i) \in Seq(Address) /\ Len(From(q, i)) = Len(q) - i + 1
  <2>1. Len(q) - i + 1 \in Nat  BY <1>1
  <2>2. \A j \in 1..(Len(q) - i + 1) : q[i + j - 1] \in Address  BY <1>1
  <2>3. From(q, i) \in [1..(Len(q) - i + 1) -> Address]  BY <2>2 DEF From
  <2> QED BY <2>1, <2>3
<1>5. ASSUME NEW i \in 1..Len(q) PROVE From(q, i) = <<q[i]>> \o From(q, i + 1)
  <2> DEFINE s == From(q, i)  t == From(q, i + 1)
  <2>1. i \in 1..(Len(q) + 1) /\ i + 1 \in 1..(Len(q) + 1) /\ q[i] \in Address  BY <1>1
  <2>2. s \in Seq(Address) /\ Len(s) = Len(q) - i + 1  BY <1>4, <2>1
  <2>3. t \in Seq(Address) /\ Len(t) = Len(q) - i
    <3>1. Len(q) - (i + 1) + 1 = Len(q) - i  BY <1>1
    <3> QED BY <1>4, <2>1, <3>1
  <2>4. <<q[i]>> \in Seq(Address) /\ Len(<<q[i]>>) = 1 /\ <<q[i]>>[1] = q[i]  BY <2>1
  <2>5. \A j \in 1..(Len(q) - i + 1) : s[j] = q[i + j - 1]  BY DEF From
  <2>6. \A j \in 1..(Len(q) - i) : t[j] = q[i + 1 + j - 1]
    <3>1. Len(q) - (i + 1) + 1 = Len(q) - i  BY <1>1
    <3> QED BY <3>1 DEF From
  <2> HIDE DEF s, t
  <2> DEFINE u == <<q[i]>> \o t
  <2>7. u \in Seq(Address) /\ Len(u) = 1 + Len(t) /\ u[1] = q[i]
        /\ \A j \in 1..Len(t) : u[1 + j] = t[j]
    BY <2>3, <2>4, ConcatProperties
  <2>8. ASSUME NEW j \in 1..Len(s) PROVE s[j] = u[j]
    <3>1. CASE j = 1  BY <3>1, <2>2, <2>5, <2>7, <1>1
    <3>2. CASE j # 1
      <4>1. j - 1 \in 1..Len(t) /\ 1 + (j - 1) = j /\ i + 1 + (j - 1) - 1 = i + j - 1  BY <1>1, <2>2, <2>3, <3>2
      <4>2. j \in 1..(Len(q) - i + 1) /\ j - 1 \in 1..(Len(q) - i)  BY <2>2, <2>3, <4>1
      <4> HIDE DEF u
      <4>3. u[1 + (j - 1)] = t[j - 1]  BY <2>7, <4>1
      <4> QED BY <2>5, <2>6, <4>1, <4>2, <4>3
    <3> QED BY <3>1, <3>2
  <2>9. Len(u) = Len(s)  BY <1>1, <2>2, <2>3, <2>7
  <2> HIDE DEF u
  <2>10. s = u  BY <2>2, <2>7, <2>8, <2>9, SeqEqual
  <2> QED BY <2>10 DEF s, t, u
<1>6. \A i \in 1..Len(q) : i \in 1..(Len(q) + 1)  BY <1>1
<1> QED BY <1>2, <1>3, <1>4, <1>5, <1>6


(* What Walk's function is: a solution of its equation, where there is one. *)
IsWalk(w, m) ==
  w = [b \in Address \union {NULL, mem_mix} |->
         IF b \in Address THEN <<b>> \o w[m[b].next]
         ELSE IF b = NULL THEN << >> ELSE <<mem_mix>>]

(* There is one, as what is not free is on a chain. *)
LEMMA WalkExists ==
  ASSUME NEW c, NEW k, NEW m, NEW f, Linked(c, k, m, f)
  PROVE  \E w : IsWalk(w, m)
<1> DEFINE Where(b) == CHOOSE p : /\ p = <<p[1], p[2]>> /\ p[1] \in DOMAIN c
                                  /\ p[2] \in 1..Len(c[p[1]]) /\ c[p[1]][p[2]] = b
           w == [b \in Address \union {NULL, mem_mix} |->
                   IF b \in f THEN <<b>> \o <<mem_mix>>
                   ELSE IF b \in Address THEN From(c[Where(b)[1]], Where(b)[2])
                   ELSE IF b = NULL THEN << >> ELSE <<mem_mix>>]
<1>1. c \in [DOMAIN k -> Seq(Address)] /\ f \subseteq Address
  BY DEF Linked, Headers, Places
<1>2. ASSUME NEW s \in DOMAIN c, NEW i \in 1..Len(c[s])
      PROVE  /\ c[s][i] \in Address /\ c[s][i] \notin f
             /\ w[c[s][i]] = From(c[s], i) /\ m[c[s][i]].next = After(c[s], i)
  <2>1. c[s] \in Seq(Address) /\ c[s][i] \in Address  BY <1>1
  <2>2. c[s][i] \notin f /\ m[c[s][i]].next = After(c[s], i)  BY DEF Linked, Chained
  <2> DEFINE b == c[s][i]
  <2>3. \E p : p = <<p[1], p[2]>> /\ p[1] \in DOMAIN c /\ p[2] \in 1..Len(c[p[1]]) /\ c[p[1]][p[2]] = b
    <3>1. <<s, i>>[1] = s /\ <<s, i>>[2] = i  OBVIOUS
    <3> QED BY <3>1
  <2>4. /\ Where(b)[1] \in DOMAIN c /\ Where(b)[2] \in 1..Len(c[Where(b)[1]])
        /\ c[Where(b)[1]][Where(b)[2]] = b
    BY <2>3
  <2> HIDE DEF Where
  <2>5. Where(b)[1] = s /\ Where(b)[2] = i  BY <2>4 DEF Linked, Apart
  <2>6. w[b] = From(c[s], i)  BY <2>1, <2>2, <2>5
  <2> QED BY <2>1, <2>2, <2>6
<1>3. ASSUME NEW b \in Address \union {NULL, mem_mix}
      PROVE  w[b] = IF b \in Address THEN <<b>> \o w[m[b].next] ELSE IF b = NULL THEN << >> ELSE <<mem_mix>>
  <2> HIDE DEF Where
  <2>1. CASE b \in f
    <3>1. m[b].next = mem_mix /\ b \in Address  BY <2>1, <1>1 DEF Linked, Places
    <3>2. w[mem_mix] = <<mem_mix>>  BY <1>1, AddressAssumption
    <3>3. w[b] = <<b>> \o <<mem_mix>>  BY <2>1
    <3> HIDE DEF w
    <3> QED BY <3>1, <3>2, <3>3
  <2>2. CASE b \in Address /\ b \notin f
    <3> PICK s \in DOMAIN c : \E i \in 1..Len(c[s]) : c[s][i] = b  BY <2>2 DEF Linked, NoneLost
    <3>1. PICK i \in 1..Len(c[s]) : c[s][i] = b  OBVIOUS
    <3>2. c[s] \in Seq(Address) /\ Len(c[s]) \in Nat  BY <1>1
    <3>3. w[b] = From(c[s], i) /\ m[b].next = After(c[s], i)  BY <1>2, <3>1
    <3>4. From(c[s], i) = <<b>> \o From(c[s], i + 1)  BY <3>1, <3>2, FromFacts
    <3>5. w[After(c[s], i)] = From(c[s], i + 1)
      <4>1. CASE i = Len(c[s])
        <5>1. w[NULL] = << >>  BY <1>1, AddressAssumption
        <5> HIDE DEF w
        <5> QED BY <4>1, <5>1, <3>2, FromFacts DEF After
      <4>2. CASE i # Len(c[s])
        <5>1. i + 1 \in 1..Len(c[s])  BY <3>2, <4>2
        <5>2. w[c[s][i + 1]] = From(c[s], i + 1)  BY <1>2, <5>1
        <5> HIDE DEF w
        <5> QED BY <5>2, <4>2 DEF After
      <4> QED BY <4>1, <4>2
    <3> HIDE DEF w
    <3> QED BY <2>2, <3>3, <3>4, <3>5
  <2>3. CASE b \notin Address
    BY <2>3, <1>1
  <2> QED BY <2>1, <2>2, <2>3
<1>4. w = [b \in Address \union {NULL, mem_mix} |-> w[b]]  OBVIOUS
<1> HIDE DEF w
<1>5. IsWalk(w, m)  BY <1>3, <1>4 DEF IsWalk
<1> QED BY <1>5

(* From an entry of a chain a walk goes to the chain's end, whatever was     *)
(* freed: by the least number of entries from the end where it would not.   *)
LEMMA WalkIsChain ==
  ASSUME NEW c, NEW k, NEW m, NEW f, Linked(c, k, m, f), NEW w, IsWalk(w, m), NEW s \in DOMAIN c
  PROVE  w[First(c[s])] = c[s]
<1> DEFINE q == c[s]
<1>1. q \in Seq(Address) /\ Len(q) \in Nat  BY DEF Linked, Headers
<1>2. w[NULL] = << >>
  <2>1. NULL \notin Address  BY AddressAssumption
  <2> QED BY <2>1 DEF IsWalk
<1>3. ASSUME NEW i \in 1..Len(q) PROVE w[q[i]] = <<q[i]>> \o w[After(q, i)]
  <2>1. q[i] \in Address /\ m[q[i]].next = After(q, i)  BY <1>1 DEF Linked, Chained
  <2> HIDE DEF q
  <2> QED BY <2>1 DEF IsWalk
<1> HIDE DEF q
<1>4. \A i \in 1..Len(q) : w[q[i]] = From(q, i)
  <2> SUFFICES ASSUME NEW bad \in 1..Len(q), w[q[bad]] # From(q, bad) PROVE FALSE
    OBVIOUS
  <2> DEFINE Bad == {n \in Nat : Len(q) - n \in 1..Len(q) /\ w[q[Len(q) - n]] # From(q, Len(q) - n)}
  <2>1. Len(q) - bad \in Nat /\ Len(q) - (Len(q) - bad) = bad  BY <1>1
  <2>2. Bad \in SUBSET Nat /\ Len(q) - bad \in Bad  BY <2>1
  <2>3. PICK n \in Bad : \A o \in Bad : n <= o
    <3> HIDE DEF Bad
    <3> QED BY <2>2, LeastNat
  <2> DEFINE i == Len(q) - n
  <2>4. n \in Nat /\ i \in 1..Len(q) /\ w[q[i]] # From(q, i)  OBVIOUS
  <2>5. From(q, i) = <<q[i]>> \o From(q, i + 1)  BY <1>1, <2>4, FromFacts
  <2>6. w[After(q, i)] # From(q, i + 1)
    <3> HIDE DEF i
    <3> QED BY <1>3, <2>4, <2>5
  <2>7. CASE i = Len(q)
    <3>1. From(q, i + 1) = << >>  BY <1>1, <2>7, FromFacts
    <3>2. After(q, i) = NULL  BY <2>7 DEF After
    <3> QED BY <1>2, <2>6, <3>1, <3>2
  <2>8. CASE i # Len(q)
    <3>1. n - 1 \in Nat /\ Len(q) - (n - 1) = i + 1 /\ i + 1 \in 1..Len(q) /\ ~(n <= n - 1)  BY <1>1, <2>4, <2>8
    <3>2. n - 1 \notin Bad
      <4> HIDE DEF Bad, i
      <4> QED BY <2>3, <3>1
    <3>3. w[q[i + 1]] = From(q, i + 1)
      <4> HIDE DEF i
      <4>1. ~ (Len(q) - (n - 1) \in 1..Len(q) /\ w[q[Len(q) - (n - 1)]] # From(q, Len(q) - (n - 1)))
        BY <3>1, <3>2
      <4> QED BY <3>1, <4>1
    <3>4. After(q, i) = q[i + 1]
      <4> HIDE DEF i
      <4> QED BY <2>8 DEF After
    <3> QED BY <2>6, <3>3, <3>4
  <2> QED BY <2>7, <2>8
<1>5. CASE q = << >>  BY <1>2, <1>5 DEF q, First
<1>6. CASE q # << >>
  <2>1. 1 \in 1..Len(q)  BY <1>1, <1>6
  <2>2. w[q[1]] = q  BY <1>1, <1>4, <2>1, FromFacts
  <2> QED BY <1>6, <2>2 DEF q, First
<1> QED BY <1>5, <1>6

(* What stack_foreach shows: the values on the chain. *)
LEMMA ValuesAreContent ==
  ASSUME NEW c, Linked(c, stk, memory, free)
  PROVE  /\ \A s \in DOMAIN stk : Entries(s) = c[s] /\ Values(s) = At(c[s], memory)
         /\ [s \in DOMAIN stk |-> Values(s)] = Content(c, memory)
<1>1. DOMAIN c = DOMAIN stk  BY DEF Linked, Headers
<1>2. ASSUME NEW s \in DOMAIN stk PROVE Entries(s) = c[s] /\ Values(s) = At(c[s], memory)
  <2>1. c[s] \in Seq(Address) /\ stk[s].top = First(c[s])  BY DEF Linked, Headers
  <2> DEFINE w == CHOOSE w : IsWalk(w, memory)
  <2>2. IsWalk(w, memory)  BY WalkExists
  <2>3. Walk(stk[s].top) = w[stk[s].top]  BY DEF Walk, IsWalk
  <2> HIDE DEF w
  <2>4. Entries(s) = c[s]  BY <1>1, <2>1, <2>2, <2>3, WalkIsChain DEF Entries
  <2>5. DOMAIN c[s] = 1..Len(c[s]) /\ \A i \in 1..Len(c[s]) : c[s][i] \in Address  BY <2>1
  <2>6. Values(s) = At(c[s], memory)  BY <2>4, <2>5 DEF Values, At
  <2> QED BY <2>4, <2>6
<1> QED BY <1>1, <1>2 DEF Content

(* A stack gets the chain q, of entries that were free or its own; what was  *)
(* its own and is not in q is free.                                        *)
Plus(g, s, x) == [t \in DOMAIN g \union {s} |-> IF t = s THEN x ELSE g[t]]
Of(q) == {q[i] : i \in 1..Len(q)}
Own(c, s) == IF s \in DOMAIN c THEN Of(c[s]) ELSE {}
Header(q) == [top |-> First(q), entries |-> Len(q)]
Memories == [Address -> [next : Address \union {NULL, mem_mix}, val : Void \union {NULL}]]
Distinct(q) == \A i, j \in 1..Len(q) : q[i] = q[j] => i = j

Sets(c, k, m, f, s, q, k2, m2, f2) ==
  /\ q \in Seq(Address) /\ Distinct(q) /\ Of(q) \subseteq f \union Own(c, s)
  /\ k2 = Plus(k, s, Header(q)) /\ f2 = (f \union Own(c, s)) \ Of(q)
  /\ m2 \in Memories /\ \A a \in f2 : m2[a].next = mem_mix
  /\ \A i \in 1..Len(q) : m2[q[i]].next = After(q, i)
  /\ \A a \in Address \ (f \union Own(c, s)) : m2[a] = m[a]

LEMMA ChainIsSet ==
  ASSUME NEW c, NEW k, NEW m, NEW f, Linked(c, k, m, f), NEW s, NEW q, NEW k2, NEW m2, NEW f2,
         Sets(c, k, m, f, s, q, k2, m2, f2)
  PROVE  /\ Linked(Plus(c, s, q), k2, m2, f2)
         /\ Content(Plus(c, s, q), m2) = Plus(Content(c, m), s, At(q, m2))
<1> DEFINE d == Plus(c, s, q)
           old == Own(c, s)
<1> USE DEF Sets
<1>1. DOMAIN c = DOMAIN k /\ c \in [DOMAIN k -> Seq(Address)] /\ f \subseteq Address
  BY DEF Linked, Headers, Places
<1>2. DOMAIN d = DOMAIN k \union {s} /\ d[s] = q /\ \A t \in DOMAIN k : t # s => d[t] = c[t]
  BY <1>1 DEF Plus
<1>3. \A t \in DOMAIN c : c[t] \in Seq(Address) /\ \A i \in 1..Len(c[t]) : c[t][i] \in Address  BY <1>1
<1>4. ASSUME NEW t \in DOMAIN c, t # s, NEW i \in 1..Len(c[t])
      PROVE  c[t][i] \notin f \union old /\ c[t][i] \in Address /\ m2[c[t][i]] = m[c[t][i]]
  <2>1. c[t][i] \in Address /\ c[t][i] \notin f  BY <1>3 DEF Linked, Chained
  <2>2. c[t][i] \notin old
    <3>1. CASE s \in DOMAIN c
      <4>1. \A j \in 1..Len(c[s]) : c[t][i] # c[s][j]  BY <1>4, <3>1 DEF Linked, Apart
      <4> QED BY <3>1, <4>1 DEF Own, Of
    <3>2. CASE s \notin DOMAIN c  BY <3>2 DEF Own
    <3> QED BY <3>1, <3>2
  <2> QED BY <2>1, <2>2
<1>5. \A i \in 1..Len(q) : q[i] \in f \union old /\ q[i] \in Of(q)  BY DEF Of
<1> HIDE DEF d
<1>6. Headers(d, k2)
  <2>1. d \in [DOMAIN k \union {s} -> Seq(Address)]  BY <1>1 DEF d, Plus
  <2>2. DOMAIN k2 = DOMAIN k \union {s}  BY DEF Plus
  <2>3. \A t \in DOMAIN k : k[t] = [top |-> First(c[t]), entries |-> Len(c[t])]  BY DEF Linked, Headers
  <2>4. k2 = [t \in DOMAIN k \union {s} |-> Header(d[t])]
    <3>1. ASSUME NEW t \in DOMAIN k \union {s} PROVE (IF t = s THEN Header(q) ELSE k[t]) = Header(d[t])
      BY <1>2, <2>3 DEF Header
    <3> QED BY <3>1 DEF Plus
  <2> QED BY <2>1, <2>2, <2>4 DEF Headers, Header
<1>7. Places(m2, f2)
  <2>1. old \subseteq Address  BY <1>3 DEF Own, Of
  <2> QED BY <1>1, <2>1 DEF Places, Memories
<1>8. Chained(d, m2, f2)
  <2>1. ASSUME NEW t \in DOMAIN d, NEW i \in 1..Len(d[t])
        PROVE  d[t][i] \notin f2 /\ m2[d[t][i]].next = After(d[t], i)
    <3>1. CASE t = s  BY <1>2, <1>5, <3>1
    <3>2. CASE t # s
      <4>1. t \in DOMAIN c /\ d[t] = c[t]  BY <1>1, <1>2, <3>2
      <4>2. m[c[t][i]].next = After(c[t], i)  BY <4>1 DEF Linked, Chained
      <4> QED BY <1>4, <3>2, <4>1, <4>2
    <3> QED BY <3>1, <3>2
  <2> QED BY <2>1 DEF Chained
<1>9. Apart(d)
  <2>1. ASSUME NEW t \in DOMAIN d, NEW u \in DOMAIN d, NEW i \in 1..Len(d[t]), NEW j \in 1..Len(d[u]),
               d[t][i] = d[u][j]
        PROVE  t = u /\ i = j
    <3>1. CASE t = s /\ u = s  BY <1>2, <2>1, <3>1 DEF Distinct
    <3>2. CASE t = s /\ u # s
      <4>1. u \in DOMAIN c /\ d[u] = c[u] /\ d[t] = q  BY <1>1, <1>2, <3>2
      <4> QED BY <1>4, <1>5, <2>1, <3>2, <4>1
    <3>3. CASE t # s /\ u = s
      <4>1. t \in DOMAIN c /\ d[t] = c[t] /\ d[u] = q  BY <1>1, <1>2, <3>3
      <4> QED BY <1>4, <1>5, <2>1, <3>3, <4>1
    <3>4. CASE t # s /\ u # s
      <4>1. t \in DOMAIN c /\ d[t] = c[t] /\ u \in DOMAIN c /\ d[u] = c[u]  BY <1>1, <1>2, <3>4
      <4> QED BY <2>1, <4>1 DEF Linked, Apart
    <3> QED BY <3>1, <3>2, <3>3, <3>4
  <2> QED BY <2>1 DEF Apart
<1>10. NoneLost(d, f2)
  <2>1. ASSUME NEW a \in Address \ f2 PROVE \E t \in DOMAIN d : \E i \in 1..Len(d[t]) : d[t][i] = a
    <3>1. CASE a \in Of(q)  BY <1>2, <3>1 DEF Of
    <3>2. CASE a \notin Of(q)
      <4>1. a \notin f /\ a \notin old  BY <3>2
      <4> PICK t \in DOMAIN c : \E i \in 1..Len(c[t]) : c[t][i] = a  BY <4>1 DEF Linked, NoneLost
      <4>2. t # s  BY <4>1 DEF Own, Of
      <4>3. t \in DOMAIN d /\ d[t] = c[t]  BY <1>1, <1>2, <4>2
      <4> QED BY <4>3
    <3> QED BY <3>1, <3>2
  <2> QED BY <2>1 DEF NoneLost
<1>11. Content(d, m2) = Plus(Content(c, m), s, At(q, m2))
  <2>1. DOMAIN Content(c, m) = DOMAIN c /\ DOMAIN d = DOMAIN c \union {s}  BY <1>1, <1>2 DEF Content
  <2>2. ASSUME NEW t \in DOMAIN c, t # s PROVE At(d[t], m2) = At(c[t], m)
    <3>1. d[t] = c[t]  BY <1>1, <1>2, <2>2
    <3>2. \A i \in 1..Len(c[t]) : m2[c[t][i]].val = m[c[t][i]].val  BY <1>4, <2>2
    <3> QED BY <3>1, <3>2 DEF At
  <2>3. ASSUME NEW t \in DOMAIN c \union {s}
        PROVE  At(d[t], m2) = IF t = s THEN At(q, m2) ELSE Content(c, m)[t]
    <3>1. CASE t = s  BY <1>2, <3>1
    <3>2. CASE t # s  BY <2>2, <3>2 DEF Content
    <3> QED BY <3>1, <3>2
  <2> HIDE DEF d
  <2>4. Content(d, m2) = [t \in DOMAIN c \union {s} |-> At(d[t], m2)]  BY <2>1 DEF Content
  <2> QED BY <2>1, <2>3, <2>4 DEF Plus
<1> QED BY <1>6, <1>7, <1>8, <1>9, <1>10, <1>11 DEF d, Linked

Less(g, s) == [t \in DOMAIN g \ {s} |-> g[t]]

LEMMA StackIsDropped ==
  ASSUME NEW c, NEW k, NEW m, NEW f, Linked(c, k, m, f), NEW s \in DOMAIN c, c[s] = << >>
  PROVE  Linked(Less(c, s), Less(k, s), m, f) /\ Content(Less(c, s), m) = Less(Content(c, m), s)
<1> DEFINE d == Less(c, s)
<1>1. DOMAIN d = DOMAIN c \ {s} /\ \A t \in DOMAIN d : d[t] = c[t]  BY DEF Less
<1>2. Headers(d, Less(k, s))
  <2>1. d \in [DOMAIN k \ {s} -> Seq(Address)]  BY DEF Less, Linked, Headers
  <2>2. DOMAIN Less(k, s) = DOMAIN k \ {s}  BY DEF Less
  <2>3. \A t \in DOMAIN k : k[t] = [top |-> First(c[t]), entries |-> Len(c[t])]  BY DEF Linked, Headers
  <2>4. DOMAIN c = DOMAIN k  BY DEF Linked, Headers
  <2>5. Less(k, s) = [t \in DOMAIN k \ {s} |-> [top |-> First(d[t]), entries |-> Len(d[t])]]
    <3> HIDE DEF d
    <3> QED BY <1>1, <2>3, <2>4 DEF Less
  <2> HIDE DEF d
  <2> QED BY <2>1, <2>2, <2>5 DEF Headers
<1> HIDE DEF d
<1>3. Chained(d, m, f) /\ Apart(d)  BY <1>1 DEF Linked, Chained, Apart
<1>4. NoneLost(d, f)
  <2>1. ASSUME NEW a \in Address \ f PROVE \E t \in DOMAIN d : \E i \in 1..Len(d[t]) : d[t][i] = a
    <3> PICK t \in DOMAIN c : \E i \in 1..Len(c[t]) : c[t][i] = a  BY DEF Linked, NoneLost
    <3>1. t # s  OBVIOUS
    <3> QED BY <1>1, <3>1
  <2> QED BY <2>1 DEF NoneLost
<1>5. Content(d, m) = Less(Content(c, m), s)
  <2>1. DOMAIN Content(c, m) = DOMAIN c /\ \A t \in DOMAIN c : Content(c, m)[t] = At(c[t], m)  BY DEF Content
  <2>2. Content(d, m) = [t \in DOMAIN c \ {s} |-> At(c[t], m)]  BY <1>1 DEF Content
  <2> QED BY <2>1, <2>2 DEF Less
<1> QED BY <1>2, <1>3, <1>4, <1>5 DEF d, Linked

(* What the abstract variable content is. *)
Contents == [s \in DOMAIN stk |-> Values(s)]

ContentsAreValues == \A e : Linked(e, stk, memory, free) => Contents = Content(e, memory)

LEMMA ContentsAreRight == ContentsAreValues
  BY ValuesAreContent DEF Contents, ContentsAreValues

LEMMA ContentsWillBe ==
  ASSUME NEW d, Linked(d, stk', memory', free')
  PROVE  Contents' = Content(d, memory')
<1>1. ContentsAreValues'  BY ContentsAreRight, PTL
<1> QED BY <1>1 DEF ContentsAreValues

LEMMA LinkedFacts ==
  ASSUME NEW c, Linked(c, stk, memory, free)
  PROVE  /\ DOMAIN c = DOMAIN stk /\ Contents = Content(c, memory) /\ DOMAIN Contents = DOMAIN stk
         /\ \A s \in DOMAIN stk : /\ c[s] \in Seq(Address) /\ Len(c[s]) \in Nat /\ Distinct(c[s])
                                  /\ stk[s] = Header(c[s]) /\ stk[s].top = First(c[s]) /\ stk[s].entries = Len(c[s])
                                  /\ Contents[s] = At(c[s], memory) /\ Entries(s) = c[s]
                                  /\ Own(c, s) = Of(c[s]) /\ Of(c[s]) \intersect free = {}
                                  /\ Of(c[s]) \subseteq Address
         /\ \A s : s \notin DOMAIN stk => Own(c, s) = {}
         /\ memory \in Memories /\ free \subseteq Address /\ \A a \in free : memory[a].next = mem_mix
<1>1. DOMAIN c = DOMAIN stk /\ c \in [DOMAIN stk -> Seq(Address)]  BY DEF Linked, Headers
<1>2. Contents = Content(c, memory)  BY ValuesAreContent DEF Contents
<1>3. DOMAIN Contents = DOMAIN stk  BY DEF Contents
<1>4. ASSUME NEW s \in DOMAIN stk
      PROVE  /\ c[s] \in Seq(Address) /\ Len(c[s]) \in Nat /\ Distinct(c[s])
             /\ stk[s] = Header(c[s]) /\ stk[s].top = First(c[s]) /\ stk[s].entries = Len(c[s])
             /\ Contents[s] = At(c[s], memory) /\ Entries(s) = c[s]
             /\ Own(c, s) = Of(c[s]) /\ Of(c[s]) \intersect free = {}
             /\ Of(c[s]) \subseteq Address
  <2>1. c[s] \in Seq(Address) /\ Len(c[s]) \in Nat  BY <1>1
  <2>2. Distinct(c[s])  BY <1>1 DEF Linked, Apart, Distinct
  <2>3. stk[s] = Header(c[s]) /\ stk[s].top = First(c[s]) /\ stk[s].entries = Len(c[s])
    BY DEF Linked, Headers, Header
  <2>4. Contents[s] = At(c[s], memory) /\ Entries(s) = c[s]  BY ValuesAreContent DEF Contents
  <2>5. Own(c, s) = Of(c[s])  BY <1>1 DEF Own
  <2>6. Of(c[s]) \intersect free = {}  BY <1>1 DEF Linked, Chained, Of
  <2>7. Of(c[s]) \subseteq Address  BY <2>1 DEF Of
  <2> QED BY <2>1, <2>2, <2>3, <2>4, <2>5, <2>6, <2>7
<1>5. \A s : s \notin DOMAIN stk => Own(c, s) = {}  BY <1>1 DEF Own
<1>6. memory \in Memories /\ free \subseteq Address /\ \A a \in free : memory[a].next = mem_mix
  BY DEF Linked, Places, Memories
<1> QED BY <1>1, <1>2, <1>3, <1>4, <1>5, <1>6

LEMMA CreateImplements ==
  ASSUME NEW c, Linked(c, stk, memory, free), NEW s \in Stack, stack_create(s)
  PROVE  StackInv' /\ s \notin DOMAIN Contents /\ Contents' = Plus(Contents, s, << >>) /\ shown' = << >>
<1>1. << >> \in Seq(Address) /\ Len(<< >>) = 0 /\ Distinct(<< >>) /\ Of(<< >>) = {}  BY DEF Distinct, Of
<1>2. Own(c, s) = {} /\ s \notin DOMAIN stk  BY LinkedFacts DEF stack_create
<1>3. stk' = Plus(stk, s, Header(<< >>))  BY DEF stack_create, WithStack, Plus, Header, First
<1>4. memory' = memory /\ free' = free /\ memory \in Memories /\ \A a \in free : memory[a].next = mem_mix
  BY LinkedFacts DEF stack_create
<1> DEFINE d == Plus(c, s, << >>)
<1>5. Linked(d, stk', memory', free') /\ Content(d, memory') = Plus(Content(c, memory), s, At(<< >>, memory'))
  <2>1. Of(<< >>) \subseteq free \union {}  BY <1>1
  <2>2. free = (free \union {}) \ Of(<< >>)  BY <1>1
  <2>3. \A i \in 1..Len(<< >>) : memory'[<< >>[i]].next = After(<< >>, i)  BY <1>1
  <2>4. Sets(c, stk, memory, free, s, << >>, stk', memory', free')
    BY <1>1, <1>2, <1>3, <1>4, <2>1, <2>2, <2>3 DEF Sets
  <2> QED BY <2>4, ChainIsSet
<1>6. At(<< >>, memory') = << >>  BY DEF At
<1>7. Contents' = Plus(Contents, s, << >>)  BY <1>5, <1>6, ContentsWillBe, LinkedFacts
<1> QED BY <1>2, <1>5, <1>7, LinkedFacts DEF StackInv, stack_create

LEMMA PushImplements ==
  ASSUME NEW c, Linked(c, stk, memory, free), NEW s \in Stack, NEW v \in Void, stack_push(s, v)
  PROVE  StackInv' /\ s \in DOMAIN Contents /\ Contents' = Plus(Contents, s, <<v>> \o Contents[s]) /\ shown' = << >>
<1>1. s \in DOMAIN stk  BY DEF stack_push
<1> DEFINE p == c[s]
<1>2. /\ p \in Seq(Address) /\ Len(p) \in Nat /\ Distinct(p) /\ stk[s].top = First(p) /\ stk[s].entries = Len(p)
      /\ Own(c, s) = Of(p) /\ Of(p) \intersect free = {} /\ Of(p) \subseteq Address
      /\ Contents[s] = At(p, memory)
  BY <1>1, LinkedFacts
<1>3. memory \in Memories /\ free \subseteq Address /\ \A a \in free : memory[a].next = mem_mix  BY LinkedFacts
<1>4. PICK a \in free : /\ memory' = create_entry(a, First(p), v) /\ free' = free \ {a}
                        /\ stk' = [stk EXCEPT ![s] = [top |-> a, entries |-> Len(p) + 1]]
  BY <1>2 DEF stack_push
<1>5. \A i \in 1..Len(p) : p[i] \in Of(p) /\ p[i] \in Address /\ p[i] \notin free /\ p[i] # a
                           /\ memory[p[i]].next = After(p, i)
  <2>1. \A i \in 1..Len(p) : memory[p[i]].next = After(p, i)  BY <1>1, LinkedFacts DEF Linked, Chained
  <2> QED BY <1>2, <2>1 DEF Of
<1> HIDE DEF p
<1> DEFINE q == <<a>> \o p
<1>6. /\ q \in Seq(Address) /\ Len(q) = Len(p) + 1 /\ q[1] = a
      /\ \A i \in 1..Len(p) : q[i + 1] = p[i]
  <2>1. a \in Address /\ <<a>> \in Seq(Address) /\ Len(<<a>>) = 1 /\ <<a>>[1] = a  BY <1>3
  <2>2. \A i \in 1..Len(p) : 1 + i = i + 1  BY <1>2
  <2> QED BY <1>2, <2>1, <2>2, ConcatProperties
<1> HIDE DEF q
<1>7. \A i \in 1..Len(q) : i = 1 \/ (i - 1 \in 1..Len(p) /\ q[i] = p[i - 1] /\ i = (i - 1) + 1)
  <2> TAKE i \in 1..Len(q)
  <2>1. i = 1 \/ (i - 1 \in 1..Len(p) /\ i = (i - 1) + 1)  BY <1>2, <1>6
  <2> QED BY <1>6, <2>1
<1>8. Distinct(q)
  <2>1. ASSUME NEW i \in 1..Len(q), NEW j \in 1..Len(q), q[i] = q[j] PROVE i = j
    <3>1. CASE i = 1 /\ j = 1  BY <3>1
    <3>2. CASE i = 1 /\ j # 1  BY <1>5, <1>6, <1>7, <2>1, <3>2
    <3>3. CASE i # 1 /\ j = 1  BY <1>5, <1>6, <1>7, <2>1, <3>3
    <3>4. CASE i # 1 /\ j # 1
      <4>1. i - 1 = j - 1  BY <1>2, <1>7, <2>1, <3>4 DEF Distinct
      <4> QED BY <4>1, <1>7, <3>4
    <3> QED BY <3>1, <3>2, <3>3, <3>4
  <2> QED BY <2>1 DEF Distinct
<1>9. Of(q) = {a} \union Of(p)
  <2>1. 1 \in 1..Len(q) /\ \A i \in 1..Len(p) : i + 1 \in 1..Len(q)  BY <1>2, <1>6
  <2>2. \A i \in 1..Len(q) : q[i] \in {a} \union Of(p)  BY <1>5, <1>6, <1>7
  <2>3. {a} \subseteq Of(q)  BY <1>6, <2>1 DEF Of
  <2>4. Of(p) \subseteq Of(q)  BY <1>6, <2>1 DEF Of
  <2>5. Of(q) \subseteq {a} \union Of(p)  BY <2>2 DEF Of
  <2> QED BY <2>3, <2>4, <2>5
<1>10. stk' = Plus(stk, s, Header(q))
  <2>1. q # << >>  BY <1>2, <1>6
  <2>2. Header(q) = [top |-> a, entries |-> Len(p) + 1]  BY <1>6, <2>1 DEF Header, First
  <2>3. stk = [t \in DOMAIN stk |-> stk[t]]  BY DEF Linked, Headers
  <2> QED BY <1>1, <1>4, <2>2, <2>3 DEF Plus
<1>11. memory' \in Memories /\ memory'[a] = [next |-> First(p), val |-> v]
       /\ \A b \in Address : b # a => memory'[b] = memory[b]
  <2>1. First(p) \in Address \union {NULL}  BY <1>2 DEF First
  <2> QED BY <1>3, <1>4, <2>1 DEF Memories, create_entry
<1>12. \A i \in 1..Len(q) : memory'[q[i]].next = After(q, i)
  <2> TAKE i \in 1..Len(q)
  <2>1. CASE i = 1
    <3>1. memory'[q[i]].next = First(p)  BY <1>6, <1>11, <2>1
    <3>2. CASE p = << >>  BY <1>6, <2>1, <3>1, <3>2 DEF First, After
    <3>3. CASE p # << >>
      <4>1. Len(q) # 1 /\ 1 \in 1..Len(p)  BY <1>2, <1>6, <3>3
      <4>2. q[1 + 1] = p[1]  BY <1>6, <4>1
      <4> QED BY <2>1, <3>1, <3>3, <4>1, <4>2 DEF First, After
    <3> QED BY <3>2, <3>3
  <2>2. CASE i # 1
    <3>1. i - 1 \in 1..Len(p) /\ q[i] = p[i - 1]  BY <1>7, <2>2
    <3>2. memory'[q[i]].next = After(p, i - 1)  BY <1>5, <1>11, <3>1
    <3>3. CASE i = Len(q)
      <4>1. i - 1 = Len(p)  BY <1>2, <1>6, <3>3
      <4> QED BY <3>2, <3>3, <4>1 DEF After
    <3>4. CASE i # Len(q)
      <4>1. i - 1 # Len(p) /\ i - 1 + 1 = i /\ i \in 1..Len(p)  BY <1>2, <1>6, <3>4
      <4>2. q[i + 1] = p[i]  BY <1>6, <4>1
      <4> QED BY <3>2, <3>4, <4>1, <4>2 DEF After
    <3> QED BY <3>3, <3>4
  <2> QED BY <2>1, <2>2
<1>13. At(q, memory') = <<v>> \o At(p, memory)
  <2>1. ASSUME NEW S, S = Void \union {NULL} PROVE At(q, memory') = <<v>> \o At(p, memory)
    <3> DEFINE l == At(q, memory')  r == At(p, memory)
    <3>1. l \in Seq(S) /\ Len(l) = Len(q) /\ \A i \in 1..Len(q) : l[i] = memory'[q[i]].val
      <4>1. \A i \in 1..Len(q) : memory'[q[i]].val \in S  BY <1>6, <1>11, <2>1 DEF Memories
      <4> QED BY <1>2, <1>6, <4>1 DEF At
    <3>2. r \in Seq(S) /\ Len(r) = Len(p) /\ \A i \in 1..Len(p) : r[i] = memory[p[i]].val
      <4>1. \A i \in 1..Len(p) : memory[p[i]].val \in S  BY <1>3, <1>5, <2>1 DEF Memories
      <4> QED BY <1>2, <4>1 DEF At
    <3>3. <<v>> \in Seq(S) /\ Len(<<v>>) = 1 /\ <<v>>[1] = v  BY <2>1
    <3> HIDE DEF l, r
    <3> DEFINE u == <<v>> \o r
    <3>4. u \in Seq(S) /\ Len(u) = 1 + Len(r) /\ u[1] = v /\ \A i \in 1..Len(r) : u[1 + i] = r[i]
      BY <3>2, <3>3, ConcatProperties
    <3> HIDE DEF u
    <3>5. ASSUME NEW i \in 1..Len(l) PROVE l[i] = u[i]
      <4>1. CASE i = 1  BY <1>6, <1>11, <3>1, <3>4, <4>1
      <4>2. CASE i # 1
        <5>1. i - 1 \in 1..Len(p) /\ q[i] = p[i - 1] /\ 1 + (i - 1) = i  BY <1>7, <3>1, <4>2
        <5>2. l[i] = memory[p[i - 1]].val  BY <1>5, <1>11, <3>1, <5>1
        <5>3. u[1 + (i - 1)] = r[i - 1]  BY <3>2, <3>4, <5>1
        <5> QED BY <3>2, <5>1, <5>2, <5>3
      <4> QED BY <4>1, <4>2
    <3>6. Len(l) = Len(u)  BY <1>2, <1>6, <3>1, <3>2, <3>4
    <3>7. l = u  BY <3>1, <3>4, <3>5, <3>6, SeqEqual
    <3> QED BY <3>7 DEF l, u, r
  <2> QED BY <2>1
<1> DEFINE d == Plus(c, s, q)
<1>14. Linked(d, stk', memory', free') /\ Content(d, memory') = Plus(Content(c, memory), s, At(q, memory'))
  <2>1. free' = (free \union Of(p)) \ Of(q)  BY <1>2, <1>4, <1>9
  <2>2. Of(q) \subseteq free \union Of(p)  BY <1>9
  <2>3. \A b \in free' : memory'[b].next = mem_mix  BY <1>3, <1>4, <1>11
  <2>4. \A b \in Address \ (free \union Of(p)) : memory'[b] = memory[b]  BY <1>11
  <2>5. Sets(c, stk, memory, free, s, q, stk', memory', free')
    BY <1>2, <1>6, <1>8, <1>10, <1>11, <1>12, <2>1, <2>2, <2>3, <2>4 DEF Sets
  <2> QED BY <2>5, ChainIsSet
<1>15. Contents' = Plus(Contents, s, <<v>> \o Contents[s])
  BY <1>2, <1>13, <1>14, ContentsWillBe, LinkedFacts
<1>16. s \in DOMAIN Contents  BY <1>1, LinkedFacts
<1> QED BY <1>14, <1>15, <1>16 DEF StackInv, stack_push

LEMMA PopImplements ==
  ASSUME NEW c, Linked(c, stk, memory, free), NEW s \in Stack, stack_pop(s)
  PROVE  /\ StackInv' /\ s \in DOMAIN Contents /\ Contents[s] # << >>
         /\ Contents' = Plus(Contents, s, Tail(Contents[s])) /\ shown' = <<Head(Contents[s])>>
<1>1. s \in DOMAIN stk  BY DEF stack_pop
<1> DEFINE p == c[s]
<1>2. /\ p \in Seq(Address) /\ Len(p) \in Nat /\ Distinct(p) /\ stk[s].top = First(p) /\ stk[s].entries = Len(p)
      /\ Own(c, s) = Of(p) /\ Of(p) \intersect free = {} /\ Of(p) \subseteq Address
      /\ Contents[s] = At(p, memory)
  BY <1>1, LinkedFacts
<1>3. memory \in Memories /\ free \subseteq Address /\ \A a \in free : memory[a].next = mem_mix  BY LinkedFacts
<1>4. \A i \in 1..Len(p) : p[i] \in Of(p) /\ p[i] \in Address /\ p[i] \notin free
                           /\ memory[p[i]].next = After(p, i) /\ memory[p[i]].val \in Void \union {NULL}
  <2>1. \A i \in 1..Len(p) : memory[p[i]].next = After(p, i)  BY <1>1, LinkedFacts DEF Linked, Chained
  <2> QED BY <1>2, <1>3, <2>1 DEF Of, Memories
<1> HIDE DEF p
<1>5. Len(p) # 0 /\ p # << >> /\ 1 \in 1..Len(p) /\ First(p) = p[1]
  BY <1>2 DEF stack_pop, stack_is_empty, First
<1> DEFINE tmp == p[1]
<1>6. /\ memory' = Gone({tmp}) /\ free' = free \union {tmp} /\ shown' = <<memory[tmp].val>>
      /\ stk' = [stk EXCEPT ![s] = [top |-> memory[tmp].next, entries |-> Len(p) - 1]]
  BY <1>2, <1>5 DEF stack_pop
<1> DEFINE q == Tail(p)
<1>7. q \in Seq(Address) /\ Len(q) = Len(p) - 1 /\ \A i \in 1..Len(q) : i + 1 \in 1..Len(p) /\ q[i] = p[i + 1]
  BY <1>2, <1>5, HeadTailProperties
<1>8. \A a \in Address : a # tmp => memory'[a] = memory[a]  BY <1>6 DEF Gone
<1>9. memory' \in Memories /\ memory'[tmp].next = mem_mix
  <2>1. tmp \in Address  BY <1>4, <1>5
  <2> HIDE DEF tmp
  <2> QED BY <1>3, <1>6, <2>1 DEF Gone, Memories
<1>10. \A i \in 1..Len(q) : q[i] \in Address /\ q[i] \in Of(p) /\ q[i] # tmp
  <2> TAKE i \in 1..Len(q)
  <2>1. i + 1 \in 1..Len(p) /\ q[i] = p[i + 1] /\ i + 1 # 1  BY <1>7
  <2> HIDE DEF q
  <2> QED BY <1>2, <1>4, <1>5, <2>1 DEF Distinct
<1> HIDE DEF q
<1>11. Distinct(q)
  <2>1. ASSUME NEW i \in 1..Len(q), NEW j \in 1..Len(q), q[i] = q[j] PROVE i = j
    <3>1. i + 1 = j + 1  BY <1>2, <1>7, <2>1 DEF Distinct
    <3> QED BY <3>1
  <2> QED BY <2>1 DEF Distinct
<1>12. Of(p) = {tmp} \union Of(q)
  <2>1. \A i \in 1..Len(p) : i = 1 \/ (i - 1 \in 1..Len(q) /\ (i - 1) + 1 = i)  BY <1>2, <1>7
  <2>2. \A i \in 1..Len(p) : p[i] \in {tmp} \union Of(q)
    <3>1. \A j \in 1..Len(q) : q[j] \in Of(q)  BY DEF Of
    <3> QED BY <1>7, <2>1, <3>1
  <2>3. Of(p) \subseteq {tmp} \union Of(q)  BY <2>2 DEF Of
  <2>4. Of(q) \subseteq Of(p)  BY <1>10 DEF Of
  <2> QED BY <1>4, <1>5, <2>3, <2>4
<1>13. tmp \notin Of(q)  BY <1>10 DEF Of
<1>14. memory[tmp].next = First(q)
  <2>1. memory[tmp].next = After(p, 1)  BY <1>4, <1>5
  <2>2. CASE Len(p) = 1
    <3>1. q = << >>  BY <1>7, <2>2, EmptySeq
    <3> QED BY <2>1, <2>2, <3>1 DEF After, First
  <2>3. CASE Len(p) # 1
    <3>1. 1 \in 1..Len(q) /\ q # << >>  BY <1>2, <1>5, <1>7, <2>3
    <3>2. q[1] = p[1 + 1]  BY <1>7, <3>1
    <3> QED BY <2>1, <2>3, <3>1, <3>2 DEF After, First
  <2> QED BY <2>2, <2>3
<1>15. stk' = Plus(stk, s, Header(q))
  <2>1. stk = [t \in DOMAIN stk |-> stk[t]]  BY DEF Linked, Headers
  <2> QED BY <1>1, <1>6, <1>7, <1>14, <2>1 DEF Plus, Header
<1>16. \A i \in 1..Len(q) : memory'[q[i]].next = After(q, i)
  <2> TAKE i \in 1..Len(q)
  <2>1. memory'[q[i]].next = After(p, i + 1)  BY <1>4, <1>7, <1>8, <1>10
  <2>2. CASE i = Len(q)
    <3>1. i + 1 = Len(p)  BY <1>2, <1>7, <2>2
    <3> QED BY <2>1, <2>2, <3>1 DEF After
  <2>3. CASE i # Len(q)
    <3>1. i + 1 # Len(p) /\ i + 1 \in 1..Len(q)  BY <1>2, <1>7, <2>3
    <3> QED BY <1>7, <2>1, <2>3, <3>1 DEF After
  <2> QED BY <2>2, <2>3
<1>17. At(p, memory) # << >> /\ At(q, memory') = Tail(At(p, memory)) /\ Head(At(p, memory)) = memory[tmp].val
  <2> DEFINE S == Void \union {NULL}
             l == At(p, memory)  r == At(q, memory')
  <2>1. l \in Seq(S) /\ Len(l) = Len(p) /\ \A i \in 1..Len(p) : l[i] = memory[p[i]].val
    BY <1>2, <1>4 DEF At
  <2>2. r \in Seq(S) /\ Len(r) = Len(q) /\ \A i \in 1..Len(q) : r[i] = memory[p[i + 1]].val
    <3>1. \A i \in 1..Len(q) : memory'[q[i]].val = memory[p[i + 1]].val  BY <1>7, <1>8, <1>10
    <3>2. \A i \in 1..Len(q) : memory'[q[i]].val \in S  BY <1>4, <1>7, <3>1
    <3>3. Len(q) \in Nat  BY <1>7
    <3> QED BY <3>1, <3>2, <3>3 DEF At
  <2> HIDE DEF S, l, r
  <2>3. l # << >>  BY <1>5, <2>1
  <2>4. Tail(l) \in Seq(S) /\ Len(Tail(l)) = Len(l) - 1 /\ (\A i \in 1..Len(Tail(l)) : Tail(l)[i] = l[i + 1])
        /\ Head(l) = l[1]
    BY <2>1, <2>3, HeadTailProperties
  <2>5. Len(Tail(l)) = Len(r)  BY <1>7, <2>1, <2>2, <2>4
  <2>6. \A i \in 1..Len(r) : r[i] = Tail(l)[i]  BY <1>7, <2>1, <2>2, <2>4, <2>5
  <2>7. r = Tail(l)  BY <2>2, <2>4, <2>5, <2>6, SeqEqual
  <2> QED BY <1>5, <2>1, <2>3, <2>4, <2>7 DEF l, r
<1> HIDE DEF tmp
<1> DEFINE d == Plus(c, s, q)
<1>18. Linked(d, stk', memory', free') /\ Content(d, memory') = Plus(Content(c, memory), s, At(q, memory'))
  <2>1. free' = (free \union Of(p)) \ Of(q) /\ Of(q) \subseteq free \union Of(p)
    BY <1>2, <1>6, <1>12, <1>13
  <2>2. \A b \in free' : memory'[b].next = mem_mix  BY <1>3, <1>6, <1>8, <1>9
  <2>3. \A b \in Address \ (free \union Of(p)) : memory'[b] = memory[b]  BY <1>8, <1>12
  <2>4. Sets(c, stk, memory, free, s, q, stk', memory', free')
    BY <1>2, <1>7, <1>9, <1>11, <1>15, <1>16, <2>1, <2>2, <2>3 DEF Sets
  <2> QED BY <2>4, ChainIsSet
<1>19. Contents' = Plus(Contents, s, Tail(Contents[s]))
  BY <1>2, <1>17, <1>18, ContentsWillBe, LinkedFacts
<1>20. s \in DOMAIN Contents  BY <1>1, LinkedFacts
<1> QED BY <1>2, <1>6, <1>17, <1>18, <1>19, <1>20 DEF StackInv

LEMMA ForEachImplements ==
  ASSUME NEW c, Linked(c, stk, memory, free), NEW s \in Stack, stack_foreach(s)
  PROVE  StackInv' /\ s \in DOMAIN Contents /\ shown' = Contents[s] /\ Contents' = Contents
<1>1. s \in DOMAIN Contents /\ Contents[s] = Values(s)  BY DEF stack_foreach, Contents
<1>2. Linked(c, stk', memory', free')  BY DEF stack_foreach
<1>3. Contents' = Contents
  <2>1. Contents' = Content(c, memory') /\ Contents = Content(c, memory)  BY <1>2, ContentsWillBe, LinkedFacts
  <2> QED BY <2>1 DEF stack_foreach
<1> QED BY <1>1, <1>2, <1>3 DEF StackInv, stack_foreach

LEMMA DestroyImplements ==
  ASSUME NEW c, Linked(c, stk, memory, free), NEW s \in Stack, stack_destroy(s)
  PROVE  StackInv' /\ s \in DOMAIN Contents /\ Contents' = Less(Contents, s) /\ shown' = << >>
<1>1. s \in DOMAIN stk  BY DEF stack_destroy
<1> DEFINE p == c[s]
<1>2. /\ Own(c, s) = Of(p) /\ Of(p) \subseteq Address /\ Entries(s) = p /\ stk[s].entries = Len(p)
      /\ DOMAIN c = DOMAIN stk /\ DOMAIN Contents = DOMAIN stk /\ Contents = Content(c, memory)
  BY <1>1, LinkedFacts
<1>3. memory \in Memories /\ free \subseteq Address /\ \A a \in free : memory[a].next = mem_mix  BY LinkedFacts
<1>4. memory' = Gone(Of(p)) /\ free' = free \union Of(p)
  BY <1>2 DEF stack_destroy, Of
<1>5. << >> \in Seq(Address) /\ Len(<< >>) = 0 /\ Distinct(<< >>) /\ Of(<< >>) = {}  BY DEF Distinct, Of
<1> HIDE DEF p
<1> DEFINE k == Plus(stk, s, Header(<< >>))
           d == Plus(c, s, << >>)
<1>6. Linked(d, k, memory', free') /\ Content(d, memory') = Plus(Content(c, memory), s, At(<< >>, memory'))
  <2>1. memory' \in Memories /\ (\A a \in Of(p) : memory'[a].next = mem_mix)
        /\ \A a \in Address : a \notin Of(p) => memory'[a] = memory[a]
    BY <1>2, <1>3, <1>4 DEF Gone, Memories
  <2>2. \A a \in free' : memory'[a].next = mem_mix  BY <1>3, <1>4, <2>1
  <2>3. \A i \in 1..Len(<< >>) : memory'[<< >>[i]].next = After(<< >>, i)  BY <1>5
  <2>4. Sets(c, stk, memory, free, s, << >>, k, memory', free')
    BY <1>2, <1>4, <1>5, <2>1, <2>2, <2>3 DEF Sets
  <2> QED BY <2>4, ChainIsSet
<1>7. s \in DOMAIN d /\ d[s] = << >>  BY DEF Plus
<1> HIDE DEF d, k
<1>8. Linked(Less(d, s), Less(k, s), memory', free') /\ Content(Less(d, s), memory') = Less(Content(d, memory'), s)
  BY <1>6, <1>7, StackIsDropped
<1>9. Less(k, s) = stk'  BY <1>1 DEF k, Less, Plus, stack_destroy
<1>10. Less(Content(d, memory'), s) = Less(Contents, s)
  <2> DEFINE C == Contents  x == At(<< >>, memory')
  <2>1. Content(d, memory') = Plus(C, s, x)  BY <1>2, <1>6
  <2> HIDE DEF C, x
  <2>2. Less(Plus(C, s, x), s) = Less(C, s)  BY DEF Less, Plus
  <2> QED BY <2>1, <2>2 DEF C
<1>11. Contents' = Less(Contents, s)  BY <1>8, <1>9, <1>10, ContentsWillBe
<1> QED BY <1>1, <1>2, <1>8, <1>9, <1>11 DEF StackInv, stack_destroy

LEMMA ReverseImplements ==
  ASSUME NEW c, Linked(c, stk, memory, free), NEW s \in Stack, NEW t \in Stack, stack_reverse(s, t)
  PROVE  /\ StackInv' /\ s \in DOMAIN Contents /\ t \notin DOMAIN Contents
         /\ Contents' = Plus(Contents, t, K!Reverse(Contents[s])) /\ shown' = << >>
<1>1. s \in DOMAIN stk /\ t \notin DOMAIN stk  BY DEF stack_reverse
<1> DEFINE p == c[s]
           n == Len(p)
<1>2. /\ p \in Seq(Address) /\ n \in Nat /\ Of(p) \intersect free = {} /\ Of(p) \subseteq Address
      /\ Contents[s] = At(p, memory) /\ Values(s) = At(p, memory) /\ Own(c, t) = {}
      /\ s \in DOMAIN Contents /\ t \notin DOMAIN Contents
  BY <1>1, LinkedFacts DEF Contents
<1>3. memory \in Memories /\ free \subseteq Address /\ \A a \in free : memory[a].next = mem_mix  BY LinkedFacts
<1>4. \A i \in 1..n : p[i] \in Of(p) /\ p[i] \in Address /\ p[i] \notin free /\ memory[p[i]].val \in Void \union {NULL}
  BY <1>2, <1>3 DEF Of, Memories
<1> HIDE DEF p
<1> DEFINE vals == At(p, memory)
<1>5. /\ vals \in Seq(Void \union {NULL}) /\ Len(vals) = n /\ (vals = << >> <=> n = 0)
      /\ \A i \in 1..n : vals[i] = memory[p[i]].val /\ vals[i] \in Void \union {NULL}
  <2>1. vals \in Seq(Void \union {NULL}) /\ Len(vals) = n /\ \A i \in 1..n : vals[i] = memory[p[i]].val
    BY <1>2, <1>4 DEF At
  <2> HIDE DEF vals
  <2> QED BY <1>4, <2>1, EmptySeq
<1> HIDE DEF vals, n
<1>6. PICK at \in [1..n -> free] :
        /\ IsInjective(at)
        /\ memory' = [a \in Address |->
              IF a \in Range(at)
                THEN LET i == CHOOSE i \in DOMAIN at : at[i] = a
                     IN  [next |-> IF i = 1 THEN NULL ELSE at[i - 1], val |-> vals[i]]
                ELSE memory[a]]
        /\ free' = free \ Range(at)
        /\ stk' = WithStack(t, [top |-> IF vals = << >> THEN NULL ELSE at[n], entries |-> n])
  BY <1>2, <1>5 DEF stack_reverse, vals
<1>7. \A i, j \in 1..n : at[i] = at[j] => i = j  BY <1>6 DEF IsInjective
<1>8. \A i \in 1..n : at[i] \in free /\ at[i] \in Address /\ at[i] \in Range(at)  BY <1>3 DEF Range
<1>9. \A i \in 1..n : memory'[at[i]] = [next |-> IF i = 1 THEN NULL ELSE at[i - 1], val |-> vals[i]]
  <2> TAKE i \in 1..n
  <2>1. (CHOOSE j \in DOMAIN at : at[j] = at[i]) = i  BY <1>7
  <2> QED BY <1>6, <1>8, <2>1
<1>10. \A a \in Address : a \notin Range(at) => memory'[a] = memory[a]  BY <1>6
<1> DEFINE q == [i \in 1..n |-> at[n - i + 1]]
<1>11. \A i \in 1..n : n - i + 1 \in 1..n /\ n - (n - i + 1) + 1 = i  BY <1>2
<1>12. q \in Seq(Address) /\ Len(q) = n /\ \A i \in 1..n : q[i] = at[n - i + 1]
  <2>1. q \in [1..n -> Address]  BY <1>8, <1>11
  <2> QED BY <1>2, <2>1
<1> HIDE DEF q
<1>13. Distinct(q)
  <2>1. ASSUME NEW i \in 1..n, NEW j \in 1..n, q[i] = q[j] PROVE i = j
    <3> DEFINE x == n - i + 1  y == n - j + 1
    <3>1. x \in 1..n /\ y \in 1..n /\ at[x] = at[y]  BY <1>11, <1>12, <2>1
    <3>2. x = y
      <4> HIDE DEF x, y
      <4> QED BY <1>7, <3>1
    <3> QED BY <3>2, <1>2
  <2> QED BY <1>12, <2>1 DEF Distinct
<1>14. Of(q) = Range(at)
  <2>1. \A i \in 1..n : q[i] \in Range(at)  BY <1>8, <1>11, <1>12
  <2>2. \A i \in 1..n : at[i] = q[n - i + 1]  BY <1>11, <1>12
  <2>3. \A i \in 1..n : at[i] \in Of(q)  BY <1>11, <1>12, <2>2 DEF Of
  <2>4. Of(q) \subseteq Range(at)  BY <1>12, <2>1 DEF Of
  <2>5. Range(at) \subseteq Of(q)  BY <2>3 DEF Range
  <2> QED BY <2>4, <2>5
<1>15. Range(at) \subseteq free  BY DEF Range
<1>16. memory' \in Memories
  <2>1. ASSUME NEW a \in Address PROVE memory'[a] \in [next : Address \union {NULL, mem_mix}, val : Void \union {NULL}]
    <3>1. CASE a \in Range(at)
      <4> PICK i \in 1..n : at[i] = a  BY <3>1 DEF Range
      <4>1. (IF i = 1 THEN NULL ELSE at[i - 1]) \in Address \union {NULL}
        <5>1. i = 1 \/ i - 1 \in 1..n  BY <1>2
        <5> QED BY <1>8, <5>1
      <4>2. \A x \in Address \union {NULL}, y \in Void \union {NULL} :
              [next |-> x, val |-> y] \in [next : Address \union {NULL, mem_mix}, val : Void \union {NULL}]
        OBVIOUS
      <4> DEFINE x == IF i = 1 THEN NULL ELSE at[i - 1]
      <4>3. memory'[a] = [next |-> x, val |-> vals[i]]  BY <1>9
      <4>4. x \in Address \union {NULL} /\ vals[i] \in Void \union {NULL}  BY <1>5, <4>1
      <4> HIDE DEF x
      <4> QED BY <4>2, <4>3, <4>4
    <3>2. CASE a \notin Range(at)  BY <1>3, <1>10, <3>2 DEF Memories
    <3> QED BY <3>1, <3>2
  <2>2. memory' = [a \in Address |-> memory'[a]]  BY <1>6
  <2> QED BY <2>1, <2>2 DEF Memories
<1>17. \A i \in 1..n : memory'[q[i]].next = After(q, i) /\ memory'[q[i]].val = vals[n - i + 1]
  <2> TAKE i \in 1..n
  <2> DEFINE j == n - i + 1
  <2>1. j \in 1..n /\ q[i] = at[j]  BY <1>11, <1>12
  <2>2. memory'[q[i]] = [next |-> IF j = 1 THEN NULL ELSE at[j - 1], val |-> vals[j]]
    <3> HIDE DEF j
    <3> QED BY <1>9, <2>1
  <2>3. CASE i = n
    <3>1. j = 1  BY <1>2, <2>3
    <3> HIDE DEF j
    <3> QED BY <1>12, <2>2, <2>3, <3>1 DEF After, j
  <2>4. CASE i # n
    <3>1. i + 1 \in 1..n /\ j # 1 /\ n - (i + 1) + 1 = j - 1  BY <1>2, <2>4
    <3>2. q[i + 1] = at[j - 1]  BY <1>12, <3>1
    <3>3. memory'[q[i]].next = at[j - 1] /\ memory'[q[i]].val = vals[j]
      <4> HIDE DEF j
      <4> QED BY <2>2, <3>1
    <3> QED BY <1>12, <2>4, <3>2, <3>3 DEF After
  <2> QED BY <2>3, <2>4
<1>18. stk' = Plus(stk, t, Header(q))
  <2>1. First(q) = IF vals = << >> THEN NULL ELSE at[n]
    <3>1. CASE n = 0  BY <1>5, <1>12, <3>1, EmptySeq DEF First
    <3>2. CASE n # 0
      <4>1. 1 \in 1..n /\ n - 1 + 1 = n  BY <1>2, <3>2
      <4>2. q[1] = at[n]  BY <1>12, <4>1
      <4>3. q # << >> /\ vals # << >>  BY <1>5, <1>12, <3>2
      <4> QED BY <4>2, <4>3 DEF First
    <3> QED BY <3>1, <3>2
  <2> QED BY <1>6, <1>12, <2>1 DEF Plus, Header, WithStack
<1>19. At(q, memory') = K!Reverse(vals)
  <2>1. \A i \in 1..n : vals[n - i + 1] = vals[(n - i) + 1]  OBVIOUS
  <2> QED BY <1>5, <1>12, <1>17, <2>1 DEF At, K!Reverse
<1> DEFINE d == Plus(c, t, q)
<1>20. Linked(d, stk', memory', free') /\ Content(d, memory') = Plus(Content(c, memory), t, At(q, memory'))
  <2>1. free' = (free \union Own(c, t)) \ Of(q) /\ Of(q) \subseteq free \union Own(c, t)
    BY <1>2, <1>6, <1>14, <1>15
  <2>2. \A b \in free' : memory'[b].next = mem_mix  BY <1>3, <1>6, <1>10
  <2>3. \A b \in Address \ (free \union Own(c, t)) : memory'[b] = memory[b]  BY <1>10, <1>15
  <2>4. Sets(c, stk, memory, free, t, q, stk', memory', free')
    BY <1>12, <1>13, <1>16, <1>17, <1>18, <2>1, <2>2, <2>3 DEF Sets
  <2> QED BY <2>4, ChainIsSet
<1>21. Contents' = Plus(Contents, t, K!Reverse(Contents[s]))
  BY <1>2, <1>19, <1>20, ContentsWillBe, LinkedFacts DEF vals
<1>22. shown' = << >>  BY DEF stack_reverse
<1> QED BY <1>2, <1>20, <1>21, <1>22 DEF StackInv

(* However often entries are freed and used again, no two places share one,  *)
(* none that is free is led to, and none is lost.                          *)
THEOREM EntriesAlwaysLinked == LinkedSpec => []StackInv
<1>1. StackInit => StackInv
  <2> SUFFICES ASSUME StackInit PROVE StackInv
    OBVIOUS
  <2> DEFINE c == << >>
  <2>1. DOMAIN c = {} /\ DOMAIN stk = {} /\ stk = [s \in {} |-> [top |-> First(c[s]), entries |-> Len(c[s])]]
    BY DEF StackInit
  <2>2. Headers(c, stk)  BY <2>1 DEF Headers, StackInit
  <2>3. Places(memory, free)  BY DEF Places, StackInit
  <2>4. Chained(c, memory, free) /\ Apart(c) /\ NoneLost(c, free)
    BY <2>1 DEF Chained, Apart, NoneLost, StackInit
  <2> HIDE DEF c
  <2> QED BY <2>2, <2>3, <2>4 DEF StackInv, Linked
<1>2. StackInv /\ [StackNext]_stack_vars => StackInv'
  <2> SUFFICES ASSUME StackInv, [StackNext]_stack_vars PROVE StackInv'
    OBVIOUS
  <2> PICK c : Linked(c, stk, memory, free)  BY DEF StackInv
  <2>1. CASE StackNext
    BY <2>1, CreateImplements, PushImplements, PopImplements, ForEachImplements, ReverseImplements,
       DestroyImplements DEF StackNext
  <2>2. CASE UNCHANGED stack_vars  BY <2>2 DEF stack_vars, StackInv
  <2> QED BY <2>1, <2>2
<1> QED BY <1>1, <1>2, PTL DEF LinkedSpec

(* The stacks of stack.c are those of stack.h: a sequence each, for any      *)
(* number of stacks, values and places in memory.                          *)
THEOREM LinkedStacksAreStacks == LinkedSpec => StackSpec
<1>1. StackInit => K!Init
  BY DEF StackInit, K!Init
<1>2. StackInv /\ [StackNext]_stack_vars => [K!Next]_<<Contents, shown>>
  <2> SUFFICES ASSUME StackInv, [StackNext]_stack_vars PROVE [K!Next]_<<Contents, shown>>
    OBVIOUS
  <2> PICK c : Linked(c, stk, memory, free)  BY DEF StackInv
  <2>0. \A s \in DOMAIN Contents : \A x : Plus(Contents, s, x) = [Contents EXCEPT ![s] = x]
    <3>1. Contents = [t \in DOMAIN Contents |-> Contents[t]]  BY DEF Contents
    <3> QED BY <3>1 DEF Plus
  <2>1. ASSUME NEW s \in Stack, stack_create(s) PROVE K!Create(s)
    BY <2>1, CreateImplements DEF K!Create, K!With, Contents, Plus
  <2>2. ASSUME NEW s \in Stack, NEW v \in Void, stack_push(s, v) PROVE K!Push(s, v)
    <3>1. s \in DOMAIN Contents /\ Contents' = Plus(Contents, s, <<v>> \o Contents[s]) /\ shown' = << >>
      BY <2>2, PushImplements
    <3>2. Contents' = [Contents EXCEPT ![s] = <<v>> \o Contents[s]]  BY <2>0, <3>1
    <3> QED BY <3>1, <3>2 DEF K!Push, Contents
  <2>3. ASSUME NEW s \in Stack, stack_pop(s) PROVE K!Pop(s)
    <3>1. s \in DOMAIN Contents /\ Contents[s] # << >> /\ Contents' = Plus(Contents, s, Tail(Contents[s]))
          /\ shown' = <<Head(Contents[s])>>
      BY <2>3, PopImplements
    <3>2. Contents' = [Contents EXCEPT ![s] = Tail(Contents[s])]  BY <2>0, <3>1
    <3> QED BY <3>1, <3>2 DEF K!Pop, Contents
  <2>4. ASSUME NEW s \in Stack, stack_foreach(s) PROVE K!ForEach(s)
    BY <2>4, ForEachImplements DEF K!ForEach, Contents
  <2>5. ASSUME NEW s \in Stack, NEW t \in Stack, stack_reverse(s, t) PROVE K!ReverseInto(s, t)
    BY <2>5, ReverseImplements DEF K!ReverseInto, K!With, Contents, Plus
  <2>6. ASSUME NEW s \in Stack, stack_destroy(s) PROVE K!Destroy(s)
    BY <2>6, DestroyImplements DEF K!Destroy, Contents, Less
  <2>7. CASE StackNext  BY <2>1, <2>2, <2>3, <2>4, <2>5, <2>6, <2>7 DEF StackNext, K!Next
  <2>8. CASE UNCHANGED stack_vars
    <3>1. Linked(c, stk', memory', free') /\ memory' = memory  BY <2>8 DEF stack_vars
    <3>2. Contents' = Contents  BY <3>1, ContentsWillBe, LinkedFacts
    <3> QED BY <2>8, <3>2 DEF stack_vars
  <2> QED BY <2>7, <2>8
<1> QED BY EntriesAlwaysLinked, <1>1, <1>2, PTL DEF LinkedSpec, StackSpec, K!Spec, K!vars, Contents

=============================================================================
