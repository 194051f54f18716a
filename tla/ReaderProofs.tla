---------------------------- MODULE ReaderProofs ----------------------------
(***************************************************************************)
(* Whatever text is read, no collection frees what the reader has read and *)
(* still needs: for every text, every depth of lists and every sequence of *)
(* collections.                                                            *)
(***************************************************************************)
EXTENDS Reader, Facts

-----------------------------------------------------------------------------
(* The stream: positions stay in the text or just behind it.               *)

Positions == 1..(Len(in) + 1)
IsText == IsSeq(in) /\ EOF \notin Range(in)

LEMMA ChFacts ==
  ASSUME IsText, NEW p \in Nat \ {0}
  PROVE  /\ Len(in) \in Nat
         /\ Ch(p) # EOF => p <= Len(in) /\ p \in Positions /\ p + 1 \in Positions
         /\ p <= Len(in) => Ch(p) \in Range(in)
         /\ p > Len(in) => Ch(p) = EOF
<1>1. Len(in) \in Nat /\ \A i \in 1..Len(in) : in[i] \in Range(in)  BY SeqFacts DEF IsText
<1>2. p > Len(in) => Ch(p) = EOF  BY <1>1 DEF Ch
<1>3. p <= Len(in) => Ch(p) \in Range(in)  BY <1>1 DEF Ch
<1>4. p <= Len(in) => p \in Positions /\ p + 1 \in Positions  BY <1>1 DEF Positions
<1> QED BY <1>1, <1>2, <1>3, <1>4

LEMMA PositionFacts ==
  ASSUME IsText, NEW p \in Positions
  PROVE  Len(in) \in Nat /\ p \in Nat \ {0} /\ p <= Len(in) + 1
<1>1. Len(in) \in Nat  BY SeqFacts DEF IsText
<1> QED BY <1>1 DEF Positions

LEMMA EndOfFacts ==
  ASSUME IsText, NEW S, EOF \notin S, NEW p \in Positions
  PROVE  /\ EndOf(p, S) \in p..(Len(in) + 1) /\ Ch(EndOf(p, S)) \notin S
         /\ \A r \in p..(EndOf(p, S) - 1) : Ch(r) \in S
<1> DEFINE T == {q \in p..(Len(in) + 1) : Ch(q) \notin S}
<1>1. Len(in) \in Nat /\ p \in Nat \ {0} /\ p <= Len(in) + 1  BY PositionFacts
<1>2. Len(in) + 1 \in T
  <2>1. Ch(Len(in) + 1) = EOF  BY <1>1, ChFacts
  <2> QED BY <2>1, <1>1
<1>3. T \in SUBSET Nat  BY <1>1
<1>4. PICK least \in T : \A q \in T : least <= q
  <2> HIDE DEF T
  <2> QED BY <1>2, <1>3, LeastNat
<1>5. \A r \in p..(least - 1) : Ch(r) \in S
  <2> SUFFICES ASSUME NEW r \in p..(least - 1), Ch(r) \notin S PROVE FALSE
    OBVIOUS
  <2>1. r \in T /\ r < least  BY <1>1, <1>4
  <2> QED BY <2>1, <1>3, <1>4
<1>6. \E q \in p..(Len(in) + 1) : Ch(q) \notin S /\ \A r \in p..(q - 1) : Ch(r) \in S
  BY <1>4, <1>5
<1> QED BY <1>6 DEF EndOf

(* One step of eat_whitespace: over a character, or a comment's line.       *)
Ahead ==
  [p \in Positions |-> IF Ch(p) \in Space THEN p + 1
                       ELSE IF Ch(p) = ";" THEN After(EndOf(p, Range(in) \ {"\n"})) ELSE p]

LEMMA AheadFacts ==
  ASSUME IsText, NEW p \in Positions
  PROVE  /\ Ahead[p] \in Positions /\ p <= Ahead[p]
         /\ Ahead[p] = p <=> Ch(p) \notin Space /\ Ch(p) # ";"
<1>1. Len(in) \in Nat /\ p \in Nat \ {0} /\ p <= Len(in) + 1  BY PositionFacts
<1>0. Ahead[p] = IF Ch(p) \in Space THEN p + 1
                 ELSE IF Ch(p) = ";" THEN After(EndOf(p, Range(in) \ {"\n"})) ELSE p
  BY DEF Ahead
<1>2. CASE Ch(p) \in Space
  <2>1. Ch(p) # EOF  BY <1>2, EofIsNoCharacter
  <2>2. p + 1 \in Positions  BY <2>1, <1>1, ChFacts
  <2>3. Ahead[p] = p + 1  BY <1>0, <1>2
  <2>4. p <= Ahead[p] /\ Ahead[p] # p  BY <1>1, <2>3
  <2>5. Ahead[p] \in Positions  BY <2>2, <2>3
  <2> QED BY <1>2, <2>4, <2>5
<1>3. CASE Ch(p) \notin Space /\ Ch(p) = ";"
  <2> DEFINE S == Range(in) \ {"\n"}
             q == EndOf(p, S)
  <2>1. EOF \notin S  BY DEF IsText
  <2> HIDE DEF S
  <2>2. q \in p..(Len(in) + 1) /\ Ch(q) \notin S  BY <2>1, EndOfFacts
  <2>3. p <= Len(in)
    <3>1. Ch(p) # EOF  BY <1>3, EofIsNoCharacter DEF Punctuation
    <3> QED BY <1>1, <3>1, ChFacts
  <2>4. Ch(p) \in S  BY <1>1, <1>3, <2>3, ChFacts DEF S
  <2>5. q > p  BY <2>2, <2>4, <1>1
  <2>6. After(q) \in Positions /\ After(q) > p  BY <2>2, <2>5, <1>1 DEF After, Positions
  <2>7. Ahead[p] = After(q)  BY <1>0, <1>3 DEF S
  <2>8. After(q) \in Nat  BY <2>6, <1>1 DEF Positions
  <2>9. p <= Ahead[p] /\ Ahead[p] # p  BY <1>1, <2>6, <2>7, <2>8
  <2>10. Ahead[p] \in Positions  BY <2>6, <2>7
  <2> QED BY <1>3, <2>9, <2>10
<1>4. CASE Ch(p) \notin Space /\ Ch(p) # ";"
  <2>1. Ahead[p] = p  BY <1>0, <1>4
  <2>2. p <= Ahead[p]  BY <1>1, <2>1
  <2> QED BY <1>4, <2>1, <2>2
<1> QED BY <1>2, <1>3, <1>4

LEMMA PlaceFacts ==
  ASSUME IsText, pos \in Positions
  PROVE  /\ place \in Positions /\ place \in Nat \ {0}
         /\ c \notin Space /\ c # ";"
<1> DEFINE N == Len(in) + 1
           IsEat(eat) ==
             eat = [p \in 1..N |->
                      IF Ch(p) \in Space THEN eat[p + 1]
                      ELSE IF Ch(p) = ";" THEN eat[After(EndOf(p, Range(in) \ {"\n"}))] ELSE p]
           eaten == CHOOSE eat : IsEat(eat)
<1>1. N \in Nat /\ Positions = 1..N  BY SeqFacts DEF Positions, IsText
<1>2. Ahead \in [1..N -> 1..N] /\ \A p \in 1..N : p <= Ahead[p]
  <2>1. \A p \in Positions : Ahead[p] \in Positions /\ p <= Ahead[p]  BY AheadFacts
  <2> QED BY <1>1, <2>1 DEF Ahead
<1>3. \A p \in 1..N : Ahead[p] = p <=> Ch(p) \notin Space /\ Ch(p) # ";"
  BY <1>1, AheadFacts
<1>4. ASSUME NEW eat  PROVE IsEat(eat) <=> IsSkip(1..N, Ahead, eat)
  <2>1. \A p \in 1..N : Ahead[p] = IF Ch(p) \in Space THEN p + 1
                       ELSE IF Ch(p) = ";" THEN After(EndOf(p, Range(in) \ {"\n"})) ELSE p
    BY <1>1 DEF Ahead
  <2>2. ASSUME NEW p \in 1..N
        PROVE  (IF Ch(p) \in Space THEN eat[p + 1]
                ELSE IF Ch(p) = ";" THEN eat[After(EndOf(p, Range(in) \ {"\n"}))] ELSE p)
               = IF Ahead[p] = p THEN p ELSE eat[Ahead[p]]
    BY <1>3, <2>1, Zenon
  <2>3. [p \in 1..N |->
                      IF Ch(p) \in Space THEN eat[p + 1]
                      ELSE IF Ch(p) = ";" THEN eat[After(EndOf(p, Range(in) \ {"\n"}))] ELSE p]
        = [p \in 1..N |-> IF Ahead[p] = p THEN p ELSE eat[Ahead[p]]]
    BY <2>2, Zenon
  <2> QED BY <2>3, Zenon DEF IsSkip
<1>5. \E eat : IsEat(eat)
  <2> HIDE DEF IsEat, N
  <2>1. \E eat : IsSkip(1..N, Ahead, eat)  BY <1>1, <1>2, SkipExists
  <2> QED BY <2>1, <1>4
<1>6. IsEat(eaten)
  <2> HIDE DEF IsEat
  <2> QED BY <1>5
<1>7. IsSkip(1..N, Ahead, eaten)  BY <1>6, <1>4
<1>8. place = eaten[pos]  BY DEF place, eat_whitespace
<1> HIDE DEF eaten, N
<1>9. place \in pos..N /\ Ahead[place] = place
  BY <1>1, <1>2, <1>7, <1>8, SkipIsRight
<1>10. place \in 1..N  BY <1>9, <1>1
<1>11. Ch(place) \notin Space /\ Ch(place) # ";"  BY <1>3, <1>9, <1>10
<1>12. place \in Positions /\ place \in Nat \ {0}  BY <1>1, <1>10
<1> QED BY <1>11, <1>12 DEF c

-----------------------------------------------------------------------------
(* Tokens end in the text, or with it.                                     *)

LEMMA NumberEnds ==
  ASSUME IsText, NEW p \in Positions, Ch(p) \in Digit \/ Ch(p) = "-", NEW t \in read_number(p)
  PROVE  t.next \in Positions
<1> DEFINE first == IF Ch(p) = "-" THEN p + 1 ELSE p
           next == EndOf(first, Digit)
<1>1. Len(in) \in Nat /\ p \in Nat \ {0} /\ p <= Len(in) + 1  BY PositionFacts
<1>2. EOF \notin Digit /\ EOF # "-"  BY EofIsNoCharacter DEF Subsequent
<1>3. Ch(p) # EOF  BY <1>2
<1>4. first \in Positions  BY <1>1, <1>3, ChFacts
<1> HIDE DEF first
<1>5. next \in first..(Len(in) + 1)  BY <1>2, <1>4, EndOfFacts
<1>6. next \in Positions  BY <1>1, <1>4, <1>5 DEF Positions
<1>7. t.next = next
  <2>1. \E v : t \in Token(v, next) \/ t \in {}  BY Zenon DEF read_number, first, next
  <2> QED BY <2>1 DEF Token
<1> QED BY <1>6, <1>7

LEMMA CharacterEnds ==
  ASSUME IsText, NEW p \in Nat \ {0}, NEW t \in read_character(p)
  PROVE  t.next \in Positions
<1>1. CASE \E w \in Named(p) : /\ \A i \in DOMAIN w.word : Ch(p + i - 1) = w.word[i]
                               /\ t \in Token(w.char, p + Len(w.word))
  <2>1. PICK w \in Named(p) : /\ \A i \in DOMAIN w.word : Ch(p + i - 1) = w.word[i]
                              /\ t \in Token(w.char, p + Len(w.word))
    BY <1>1
  <2>2. /\ Len(w.word) \in Nat \ {0} /\ DOMAIN w.word = 1..Len(w.word)
        /\ w.word[Len(w.word)] = "e" \/ w.word[Len(w.word)] = "b"
    <3>1. \/ w = [word |-> <<"s", "p", "a", "c", "e">>, char |-> " "]
          \/ w = [word |-> <<"n", "e", "w", "l", "i", "n", "e">>, char |-> "\n"]
          \/ w = [word |-> <<"t", "a", "b">>, char |-> "\t"]
      BY Zenon DEF Named
    <3>2. CASE w.word = <<"s", "p", "a", "c", "e">>
      <4>1. Len(w.word) = 5 /\ DOMAIN w.word = 1..5 /\ w.word[5] = "e"  BY <3>2
      <4> QED BY <4>1
    <3>3. CASE w.word = <<"n", "e", "w", "l", "i", "n", "e">>
      <4>1. Len(w.word) = 7 /\ DOMAIN w.word = 1..7 /\ w.word[7] = "e"  BY <3>3
      <4> QED BY <4>1
    <3>4. CASE w.word = <<"t", "a", "b">>
      <4>1. Len(w.word) = 3 /\ DOMAIN w.word = 1..3 /\ w.word[3] = "b"  BY <3>4
      <4> QED BY <4>1
    <3>5. \/ w.word = <<"s", "p", "a", "c", "e">>
          \/ w.word = <<"n", "e", "w", "l", "i", "n", "e">>
          \/ w.word = <<"t", "a", "b">>
      <4>1. \A a, b : [word |-> a, char |-> b].word = a  OBVIOUS
      <4> QED BY <3>1, <4>1, Zenon
    <3> QED BY <3>2, <3>3, <3>4, <3>5, Zenon
  <2>3. Len(w.word) \in DOMAIN w.word  BY <2>2
  <2>4. Ch(p + Len(w.word) - 1) # EOF  BY <2>1, <2>2, <2>3, EofIsNoCharacter
  <2>5. p + Len(w.word) - 1 \in Nat \ {0}  BY <2>2
  <2>6. p + Len(w.word) - 1 + 1 \in Positions  BY <2>4, <2>5, ChFacts
  <2>7. p + Len(w.word) - 1 + 1 = p + Len(w.word)  BY <2>2
  <2> QED BY <2>1, <2>6, <2>7 DEF Token
<1>2. CASE Ch(p) # EOF /\ t \in Token(Ch(p), p + 1)
  BY <1>2, ChFacts DEF Token
<1> QED BY <1>1, <1>2 DEF read_character

(* What read_string makes of what it makes of the rest.                     *)
LastOf(q) == IF Escaped(q) THEN q + 1 ELSE q
Chars(from, q) ==
  LET at == LastOf(q)
      char == CASE Escaped(q) /\ Ch(at) = "n" -> "\n"
                [] Escaped(q) /\ Ch(at) = "t" -> "\t"
                [] OTHER -> Ch(at)
  IN  IF Ch(q) = "\"" THEN Token(<< >>, q + 1)
      ELSE IF Ch(at) = EOF THEN {}
      ELSE UNION {Token(<<char>> \o t.value, t.next) : t \in from[at + 1]}
IsFrom(from) == from = [q \in 1..(Len(in) + 2) |-> Chars(from, q)]

LEMMA RestIsLater ==
  ASSUME IsText, NEW q \in 1..(Len(in) + 2), Ch(LastOf(q)) # EOF
  PROVE  LastOf(q) + 1 \in (q + 1)..(Len(in) + 2)
<1>1. Len(in) \in Nat /\ q \in Nat \ {0}  BY SeqFacts DEF IsText
<1>2. LastOf(q) = q + 1 \/ LastOf(q) = q  BY DEF LastOf
<1>3. LastOf(q) \in Nat \ {0}  BY <1>1, <1>2
<1>4. LastOf(q) <= Len(in)  BY <1>3, ChFacts
<1> QED BY <1>1, <1>2, <1>3, <1>4

LEMMA CharsAreLocal ==
  ASSUME IsText, NEW q \in 1..(Len(in) + 2), NEW f, NEW g,
         \A r \in (q + 1)..(Len(in) + 2) : f[r] = g[r]
  PROVE  Chars(f, q) = Chars(g, q)
<1> DEFINE at == LastOf(q)
<1>1. CASE Ch(q) = "\""  BY <1>1, Zenon DEF Chars
<1>2. CASE Ch(q) # "\"" /\ Ch(at) = EOF  BY <1>2, Zenon DEF Chars
<1>3. CASE Ch(q) # "\"" /\ Ch(at) # EOF
  <2>1. at + 1 \in (q + 1)..(Len(in) + 2)  BY <1>3, RestIsLater
  <2>2. f[at + 1] = g[at + 1]  BY <2>1
  <2> QED BY <2>2, Zenon DEF Chars
<1> QED BY <1>1, <1>2, <1>3

LEMMA FromExists ==
  ASSUME IsText
  PROVE  \E from : IsFrom(from)
<1> DEFINE N == Len(in) + 2
           Good(k) == \E f : \A q \in k..N : f[q] = Chars(f, q)
           Bad == {k \in 1..N : ~ Good(k)}
<1>1. N \in Nat /\ N >= 1  BY SeqFacts DEF IsText
<1>2. Bad = {}
  <2> SUFFICES ASSUME Bad # {} PROVE FALSE
    OBVIOUS
  <2>1. PICK k \in Bad : \A n \in Bad : n <= k
    <3>1. Bad \in SUBSET (1..N)  OBVIOUS
    <3> HIDE DEF Bad, N
    <3> QED BY <1>1, <3>1, GreatestIn
  <2>2. k \in 1..N /\ ~ Good(k)  BY <2>1
  <2>3. PICK f : \A q \in (k + 1)..N : f[q] = Chars(f, q)
    <3>1. CASE k = N
      <4>1. (k + 1)..N = {}  BY <1>1, <3>1
      <4> QED BY <4>1
    <3>2. CASE k # N
      <4>1. k + 1 \in 1..N /\ ~ (k + 1 <= k)  BY <1>1, <2>2, <3>2
      <4> HIDE DEF Good, N
      <4>2. Good(k + 1)  BY <2>1, <4>1
      <4> QED BY <4>2 DEF Good
    <3> QED BY <3>1, <3>2
  <2> DEFINE g == [q \in k..N |-> IF q = k THEN Chars(f, k) ELSE f[q]]
  <2>4. ASSUME NEW q \in k..N  PROVE g[q] = Chars(g, q)
    <3>1. q \in 1..(Len(in) + 2)  BY <1>1, <2>2
    <3>2. \A r \in (q + 1)..(Len(in) + 2) : f[r] = g[r]  BY <1>1, <2>2
    <3> HIDE DEF g
    <3>3. Chars(f, q) = Chars(g, q)  BY <3>1, <3>2, CharsAreLocal
    <3>4. g[q] = Chars(f, q)
      <4>1. CASE q = k  BY <4>1 DEF g
      <4>2. CASE q # k
        <5>1. q \in (k + 1)..N  BY <1>1, <2>2, <4>2
        <5>2. g[q] = f[q]  BY <4>2 DEF g
        <5> HIDE DEF N
        <5> QED BY <2>3, <5>1, <5>2
      <4> QED BY <4>1, <4>2
    <3> QED BY <3>3, <3>4
  <2> HIDE DEF g, N
  <2>5. Good(k)  BY <2>4
  <2> QED BY <2>2, <2>5
<1>3. Good(1)
  <2> HIDE DEF Good
  <2> QED BY <1>1, <1>2
<1>4. PICK f : \A q \in 1..N : f[q] = Chars(f, q)  BY <1>3
<1> DEFINE h == [q \in 1..N |-> f[q]]
<1>5. \A q \in 1..N : h[q] = Chars(h, q)
  <2> SUFFICES ASSUME NEW q \in 1..N PROVE h[q] = Chars(h, q)
    OBVIOUS
  <2>1. \A r \in (q + 1)..(Len(in) + 2) : f[r] = h[r]  BY <1>1
  <2>2. h[q] = f[q] /\ f[q] = Chars(f, q)  BY <1>4
  <2> HIDE DEF h
  <2> QED BY <2>1, <2>2, CharsAreLocal
<1>6. h = [q \in 1..N |-> h[q]]  OBVIOUS
<1> HIDE DEF h
<1>7. h = [q \in 1..N |-> Chars(h, q)]  BY <1>5, <1>6
<1> QED BY <1>7 DEF IsFrom

LEMMA StringEnds ==
  ASSUME IsText, NEW p \in Positions, NEW t \in read_string(p)
  PROVE  t.next \in Positions
<1> DEFINE from == CHOOSE from : IsFrom(from)
           N == Len(in) + 2
           Bad == {q \in 1..N : \E u \in from[q] : u.next \notin Positions}
<1>1. N \in Nat /\ Len(in) \in Nat  BY SeqFacts DEF IsText
<1>2. IsFrom(from)  BY FromExists
<1>3. read_string(p) = from[p]  BY DEF read_string, IsFrom, Chars, LastOf
<1> HIDE DEF from
<1>4. \A q \in 1..N : from[q] = Chars(from, q)  BY <1>2 DEF IsFrom
<1>5. Bad = {}
  <2> SUFFICES ASSUME Bad # {} PROVE FALSE
    OBVIOUS
  <2>1. PICK q \in Bad : \A n \in Bad : n <= q
    <3>1. Bad \in SUBSET (1..N)  OBVIOUS
    <3> HIDE DEF Bad, N
    <3> QED BY <1>1, <3>1, GreatestIn
  <2>2. PICK u \in from[q] : u.next \notin Positions  BY <2>1
  <2>3. u \in Chars(from, q) /\ q \in Nat \ {0}  BY <1>1, <1>4, <2>1, <2>2
  <2> DEFINE at == LastOf(q)
  <2>4. CASE Ch(q) = "\""
    <3>1. u \in Token(<< >>, q + 1)  BY <2>3, <2>4, Zenon DEF Chars
    <3>2. Ch(q) # EOF  BY <2>4, EofIsNoCharacter DEF Punctuation
    <3>3. q + 1 \in Positions  BY <2>3, <3>2, ChFacts
    <3> QED BY <2>2, <3>1, <3>3 DEF Token
  <2>5. CASE Ch(q) # "\"" /\ Ch(at) = EOF
    BY <2>3, <2>5, Zenon DEF Chars
  <2>6. CASE Ch(q) # "\"" /\ Ch(at) # EOF
    <3>1. PICK x \in from[at + 1] : \E v : u \in Token(v, x.next)
      <4> DEFINE char == CASE Escaped(q) /\ Ch(at) = "n" -> "\n"
                           [] Escaped(q) /\ Ch(at) = "t" -> "\t"
                           [] OTHER -> Ch(at)
      <4>1. u \in UNION {Token(<<char>> \o x.value, x.next) : x \in from[at + 1]}
        BY <2>3, <2>6, Zenon DEF Chars
      <4> HIDE DEF char, at
      <4> QED BY <4>1
    <3>2. at + 1 \in (q + 1)..(Len(in) + 2)  BY <1>1, <2>1, <2>6, RestIsLater
    <3> HIDE DEF at
    <3>3. at + 1 \in 1..N /\ ~ (at + 1 <= q)  BY <1>1, <2>3, <3>2
    <3>4. at + 1 \notin Bad
      <4> HIDE DEF Bad
      <4> QED BY <2>1, <3>3
    <3>5. x.next \in Positions  BY <3>1, <3>3, <3>4
    <3> QED BY <2>2, <3>1, <3>5 DEF Token
  <2> QED BY <2>4, <2>5, <2>6
<1>6. p \in 1..N  BY <1>1 DEF Positions
<1> QED BY <1>3, <1>5, <1>6

LEMMA SymbolEnds ==
  ASSUME IsText, NEW p \in Positions, Ch(p) \in Subsequent, NEW t \in read_symbol(p)
  PROVE  /\ t.next \in Positions
         /\ \E last \in p..Len(in) : t.value = SubSeq(in, p, last)
<1> DEFINE next == EndOf(p, Subsequent)
<1>1. Len(in) \in Nat /\ p \in Nat \ {0} /\ p <= Len(in) + 1  BY PositionFacts
<1>2. EOF \notin Subsequent  BY EofIsNoCharacter
<1>3. t = [value |-> SubSeq(in, p, next - 1), next |-> next]
  BY DEF read_symbol, Token
<1>4. next \in p..(Len(in) + 1) /\ Ch(next) \notin Subsequent  BY <1>2, EndOfFacts
<1> HIDE DEF next
<1>5. next # p  BY <1>4
<1>6. next \in Positions /\ next - 1 \in p..Len(in)  BY <1>1, <1>4, <1>5 DEF Positions
<1> QED BY <1>3, <1>6

-----------------------------------------------------------------------------
(* The invariant.  Each frame has in a block of the root list what it holds *)
(* while it calls others; what it holds besides is outside of the heap,     *)
(* but for conses, which calls nobody and passes on what it holds.          *)

RootNames(f) == IF f.fn = "read_pair" /\ f.at # "start" THEN <<"car", "cdr">> ELSE << >>

FrameOK(f) ==
  /\ f = [fn |-> f.fn, at |-> f.at, var |-> f.var, pops |-> f.pops,
          entered |-> f.entered, saved |-> f.saved]
  /\ \/ /\ f.fn = "read" /\ f.at \in {"start", "list", "quote"}
        /\ f.var = << >>
     \/ /\ f.fn = "read_pair" /\ f.at = "start"
        /\ f.var = [car |-> NULL, cdr |-> NULL]
     \/ /\ f.fn = "read_pair" /\ f.at \in {"car", "cdr", "dotted"}
        /\ f.var = [car |-> f.var.car, cdr |-> f.var.cdr]
     \/ /\ f.fn = "conses" /\ f.at = "start"
        /\ IsSeq(f.var) /\ Len(f.var) \in 1..3
        /\ \A i \in 1..(Len(f.var) - 2) : f.var[i] \notin Nat

(* Nothing that the heap h has freed.                                       *)
Kept(p, h) == p \in DOMAIN h => h[p] # Freed
Whole(h) == IsSeq(h) /\ \A a \in 1..Len(h) : \A p \in Pointers(h[a]) : Kept(p, h)

AllKept(v, h) == \A p \in Range(v) : Kept(p, h)
CallersKept(s, h) == \A i \in 1..(Len(s) - 1) : AllKept(s[i].var, h)
FramesOK(s) ==
  /\ IsSeq(s) /\ \A i \in 1..Len(s) : FrameOK(s[i])
  /\ \A i \in 1..(Len(s) - 1) : s[i].fn # "conses"
RootsMatch(s, r) ==
  s # << >> => Sorted(r, Len(s)) /\ \A i \in 1..Len(s) : HasBlock(r, i, RootNames(s[i]))

ReaderInv ==
  /\ in \in Inputs /\ pos \in Positions
  /\ Whole(heap) /\ Kept(ret, heap)
  /\ FramesOK(stack) /\ \A i \in 1..Len(stack) : AllKept(stack[i].var, heap)
  /\ IsSeq(roots) /\ RootsMatch(stack, roots)

-----------------------------------------------------------------------------
(* Frames *)

LEMMA TextFacts ==
  ASSUME ReaderInv
  PROVE  IsText /\ pos \in Positions
BY TextsAreCharacters DEF ReaderInv, IsText, IsSeq

LEMMA NamesFacts == \A f : IsSeq(RootNames(f))
BY Tuples DEF RootNames

LEMMA FrontFacts ==
  ASSUME NEW s, IsSeq(s), s # << >>
  PROVE  /\ Len(s) \in Nat \ {0} /\ Last(s) = s[Len(s)]
         /\ IsSeq(Front(s)) /\ Len(Front(s)) = Len(s) - 1
         /\ \A i \in 1..(Len(s) - 1) : Front(s)[i] = s[i]
<1>1. Len(s) \in Nat \ {0}  BY SeqFacts
<1>2. Front(s) = SubSeq(s, 1, Len(s) - 1)  BY DEF Front
<1>3. Len(s) - 1 \in 0..Len(s)  BY <1>1
<1>4. /\ IsSeq(SubSeq(s, 1, Len(s) - 1)) /\ Len(SubSeq(s, 1, Len(s) - 1)) = Len(s) - 1
      /\ \A i \in 1..(Len(s) - 1) : SubSeq(s, 1, Len(s) - 1)[i] = s[i]
  <2> DEFINE n == Len(s) - 1
  <2>1. n \in 0..Len(s)  BY <1>3
  <2> HIDE DEF n
  <2>2. IsSeq(SubSeq(s, 1, n)) /\ Len(SubSeq(s, 1, n)) = n  BY <2>1, SubSeqFacts
  <2>3. \A i \in 1..n : SubSeq(s, 1, n)[i] = s[i]  BY <2>1, SubSeqFacts
  <2> QED BY <2>2, <2>3 DEF n
<1>5. Last(s) = s[Len(s)]  BY DEF Last
<1> QED BY <1>1, <1>2, <1>4, <1>5

LEMMA TopFacts ==
  ASSUME ReaderInv, stack # << >>
  PROVE  /\ Len(stack) \in Nat \ {0} /\ Top = stack[Len(stack)]
         /\ Len(stack) \in 1..Len(stack)
         /\ FrameOK(Top) /\ AllKept(Top.var, heap)
<1>1. Len(stack) \in Nat \ {0}  BY FrontFacts DEF ReaderInv, FramesOK
<1>2. Top = stack[Len(stack)]  BY DEF Top, Last
<1> QED BY <1>1, <1>2 DEF ReaderInv, FramesOK

(* The running function goes on with other variables, which it has rooted.  *)
LEMMA FramesGo ==
  ASSUME NEW s, FramesOK(s), s # << >>, NEW f, FrameOK(f)
  PROVE  /\ FramesOK([s EXCEPT ![Len(s)] = f])
         /\ \A h : CallersKept(s, h) /\ AllKept(f.var, h) =>
              \A i \in 1..Len(s) : AllKept([s EXCEPT ![Len(s)] = f][i].var, h)
<1> DEFINE t == [s EXCEPT ![Len(s)] = f]
<1>1. IsSeq(s) /\ Len(s) \in Nat \ {0} /\ Len(s) \in 1..Len(s)  BY FrontFacts DEF FramesOK
<1>2. IsSeq(t) /\ Len(t) = Len(s) /\ t[Len(s)] = f  BY <1>1, ExceptFacts
<1>3. \A i \in 1..Len(s) : i # Len(s) => t[i] = s[i]  BY <1>1, ExceptFacts
<1> HIDE DEF t
<1>4. \A i \in 1..(Len(s) - 1) : t[i] = s[i] /\ i \in 1..Len(s)  BY <1>1, <1>3
<1>5. FramesOK(t)
  <2>1. \A i \in 1..Len(t) : FrameOK(t[i])
    <3> TAKE i \in 1..Len(t)
    <3>1. i = Len(s) \/ i \in 1..(Len(s) - 1)  BY <1>1, <1>2
    <3> QED BY <3>1, <1>2, <1>4 DEF FramesOK
  <2> QED BY <2>1, <1>2, <1>4 DEF FramesOK
<1>6. ASSUME NEW h, CallersKept(s, h), AllKept(f.var, h), NEW i \in 1..Len(s)
      PROVE  AllKept(t[i].var, h)
  <2>1. i = Len(s) \/ i \in 1..(Len(s) - 1)  BY <1>1
  <2> QED BY <2>1, <1>2, <1>4, <1>6 DEF CallersKept
<1> QED BY <1>5, <1>6 DEF t

LEMMA FramesEnter ==
  ASSUME NEW s, FramesOK(s), s # << >>, s[Len(s)].fn # "conses", NEW g, FrameOK(g)
  PROVE  /\ FramesOK(Append(s, g)) /\ Len(Append(s, g)) = Len(s) + 1
         /\ \A h : (\A i \in 1..Len(s) : AllKept(s[i].var, h)) /\ AllKept(g.var, h) =>
              \A i \in 1..(Len(s) + 1) : AllKept(Append(s, g)[i].var, h)
<1> DEFINE t == Append(s, g)
<1>1. IsSeq(s) /\ Len(s) \in Nat \ {0} /\ Len(s) \in 1..Len(s)  BY FrontFacts DEF FramesOK
<1>2. IsSeq(t) /\ Len(t) = Len(s) + 1 /\ t[Len(s) + 1] = g  BY <1>1, AppendFacts
<1>3. \A i \in 1..Len(s) : t[i] = s[i]  BY <1>1, AppendFacts
<1> HIDE DEF t
<1>4. \A i \in 1..(Len(s) + 1) : i = Len(s) + 1 \/ i \in 1..Len(s)  BY <1>1
<1>5. FramesOK(t)
  <2>1. \A i \in 1..Len(t) : FrameOK(t[i])  BY <1>2, <1>3, <1>4 DEF FramesOK
  <2>2. \A i \in 1..(Len(t) - 1) : t[i].fn # "conses"
    <3> TAKE i \in 1..(Len(t) - 1)
    <3>1. i \in 1..Len(s) /\ (i = Len(s) \/ i \in 1..(Len(s) - 1))  BY <1>1, <1>2
    <3> QED BY <3>1, <1>3 DEF FramesOK
  <2> QED BY <2>1, <2>2, <1>2 DEF FramesOK
<1>6. ASSUME NEW h, \A i \in 1..Len(s) : AllKept(s[i].var, h), AllKept(g.var, h),
             NEW i \in 1..(Len(s) + 1)
      PROVE  AllKept(t[i].var, h)
  BY <1>2, <1>3, <1>4, <1>6
<1> QED BY <1>2, <1>5, <1>6 DEF t

LEMMA FramesLeave ==
  ASSUME NEW s, FramesOK(s), s # << >>
  PROVE  /\ FramesOK(Front(s))
         /\ \A h : CallersKept(s, h) => \A i \in 1..Len(Front(s)) : AllKept(Front(s)[i].var, h)
<1> DEFINE t == Front(s)
<1>1. /\ Len(s) \in Nat \ {0} /\ IsSeq(t) /\ Len(t) = Len(s) - 1
      /\ \A i \in 1..(Len(s) - 1) : t[i] = s[i]
  BY FrontFacts DEF FramesOK
<1> HIDE DEF t
<1>2. \A i \in 1..Len(t) : t[i] = s[i] /\ i \in 1..Len(s) /\ i \in 1..(Len(s) - 1)  BY <1>1
<1>3. \A i \in 1..(Len(t) - 1) : i \in 1..Len(t)  BY <1>1
<1>4. FramesOK(t)  BY <1>1, <1>2, <1>3 DEF FramesOK
<1> QED BY <1>2, <1>4 DEF t, CallersKept

-----------------------------------------------------------------------------
(* Roots *)

LEMMA NoBlock ==
  ASSUME NEW r, IsSeq(r), NEW n
  PROVE  WithBlock(r, n, << >>) = r
<1>1. IsSeq(<< >>) /\ Len(<< >>) = 0  BY Tuples
<1>2. IsSeq(BlockOf(n, << >>)) /\ Len(BlockOf(n, << >>)) = 0  BY <1>1, BlockOfFacts
<1>3. BlockOf(n, << >>) = << >>  BY <1>1, <1>2, SameSeq
<1>4. r \in Seq(Range(r))  BY DEF IsSeq
<1> QED BY <1>3, <1>4, ConcatEmptySeq DEF WithBlock

LEMMA RootsLeave ==
  ASSUME NEW s, FramesOK(s), s # << >>, NEW r, IsSeq(r), RootsMatch(s, r)
  PROVE  /\ IsSeq(WithoutBlock(r, RootNames(Last(s))))
         /\ RootsMatch(Front(s), WithoutBlock(r, RootNames(Last(s))))
         /\ Sorted(WithoutBlock(r, RootNames(Last(s))), Len(s) - 1)
         /\ \A i \in 1..(Len(s) - 1) :
              HasBlock(WithoutBlock(r, RootNames(Last(s))), i, RootNames(s[i]))
         /\ r = WithBlock(WithoutBlock(r, RootNames(Last(s))), Len(s), RootNames(Last(s)))
<1> DEFINE n == Len(s)
           names == RootNames(Last(s))
           b == WithoutBlock(r, names)
<1>1. /\ n \in Nat \ {0} /\ Last(s) = s[n] /\ Len(Front(s)) = n - 1
      /\ \A i \in 1..(n - 1) : Front(s)[i] = s[i]
  BY FrontFacts DEF FramesOK
<1>2. Sorted(r, n) /\ \A i \in 1..n : HasBlock(r, i, RootNames(s[i]))  BY DEF RootsMatch
<1>3. IsSeq(names) /\ HasBlock(r, n, names)  BY <1>1, <1>2, NamesFacts
<1> HIDE DEF names, n
<1>4. /\ IsSeq(b) /\ Sorted(b, n - 1) /\ r = WithBlock(b, n, names)
      /\ \A i \in 1..(n - 1) : \A old : IsSeq(old) /\ HasBlock(r, i, old) => HasBlock(b, i, old)
  BY <1>1, <1>2, <1>3, PopBlock
<1> HIDE DEF b
<1>5. ASSUME NEW i \in 1..(n - 1)  PROVE HasBlock(b, i, RootNames(s[i]))
  <2>1. i \in 1..n  BY <1>1
  <2>2. IsSeq(RootNames(s[i])) /\ HasBlock(r, i, RootNames(s[i]))  BY <2>1, <1>2, NamesFacts
  <2> QED BY <2>2, <1>4
<1>6. RootsMatch(Front(s), b)  BY <1>1, <1>4, <1>5 DEF RootsMatch
<1> QED BY <1>4, <1>5, <1>6 DEF b, n, names

LEMMA RootsGo ==
  ASSUME NEW s, FramesOK(s), s # << >>, NEW r, IsSeq(r), RootsMatch(s, r), NEW f, FrameOK(f),
         NEW t, t = WithBlock(WithoutBlock(r, RootNames(Last(s))), Len(s), RootNames(f))
  PROVE  IsSeq(t) /\ RootsMatch([s EXCEPT ![Len(s)] = f], t)
<1> DEFINE n == Len(s)
           b == WithoutBlock(r, RootNames(Last(s)))
           u == [s EXCEPT ![n] = f]
<1>1. /\ IsSeq(b) /\ Sorted(b, n - 1) /\ \A i \in 1..(n - 1) : HasBlock(b, i, RootNames(s[i]))
  BY RootsLeave
<1>2. n \in Nat \ {0} /\ IsSeq(s) /\ n \in 1..Len(s)  BY FrontFacts DEF FramesOK
<1>3. IsSeq(u) /\ Len(u) = n /\ u[n] = f  BY <1>2, ExceptFacts
<1>4. \A i \in 1..Len(s) : i # n => u[i] = s[i]  BY <1>2, ExceptFacts
<1>5. t = WithBlock(b, n, RootNames(f)) /\ IsSeq(RootNames(f))  BY NamesFacts
<1> HIDE DEF b, u
<1>6. /\ IsSeq(t) /\ Sorted(t, n) /\ HasBlock(t, n, RootNames(f))
      /\ \A i \in 1..(n - 1) : \A old : IsSeq(old) /\ HasBlock(b, i, old) => HasBlock(t, i, old)
  <2> HIDE DEF n
  <2> QED BY <1>1, <1>2, <1>5, PushBlock
<1>7. ASSUME NEW i \in 1..n  PROVE HasBlock(t, i, RootNames(u[i]))
  <2>1. CASE i = n  BY <2>1, <1>3, <1>6
  <2>2. CASE i # n
    <3>1. i \in 1..(n - 1) /\ i \in 1..Len(s)  BY <2>2, <1>2
    <3>2. u[i] = s[i] /\ IsSeq(RootNames(s[i]))  BY <2>2, <3>1, <1>4, NamesFacts
    <3> QED BY <3>1, <3>2, <1>1, <1>6
  <2> QED BY <2>1, <2>2
<1>8. RootsMatch(u, t)  BY <1>3, <1>6, <1>7 DEF RootsMatch
<1> QED BY <1>6, <1>8 DEF u

(* A function has rooted nothing when it is called.                         *)
LEMMA RootsEnter ==
  ASSUME NEW s, FramesOK(s), s # << >>, NEW r, IsSeq(r), RootsMatch(s, r),
         NEW g, RootNames(g) = << >>
  PROVE  RootsMatch(Append(s, g), r)
<1> DEFINE n == Len(s)
           t == Append(s, g)
<1>1. n \in Nat \ {0} /\ IsSeq(s)  BY FrontFacts DEF FramesOK
<1>2. IsSeq(t) /\ Len(t) = n + 1 /\ t[n + 1] = g  BY <1>1, AppendFacts
<1>3. \A i \in 1..n : t[i] = s[i]  BY <1>1, AppendFacts
<1>4. Sorted(r, n) /\ \A i \in 1..n : HasBlock(r, i, RootNames(s[i]))  BY DEF RootsMatch
<1> HIDE DEF n, t
<1>5. n + 1 \in Nat \ {0} /\ (n + 1) - 1 = n  BY <1>1
<1>6. r = WithBlock(r, n + 1, << >>) /\ IsSeq(<< >>)  BY NoBlock, Tuples
<1>7. Sorted(r, n + 1) /\ HasBlock(r, n + 1, << >>)
  <2>1. Sorted(WithBlock(r, n + 1, << >>), n + 1)  BY <1>4, <1>5, <1>6, PushBlock
  <2>2. HasBlock(WithBlock(r, n + 1, << >>), n + 1, << >>)  BY <1>4, <1>5, <1>6, PushBlock
  <2> QED BY <2>1, <2>2, <1>6
<1>8. ASSUME NEW i \in 1..(n + 1)  PROVE HasBlock(r, i, RootNames(t[i]))
  <2>1. i = n + 1 \/ i \in 1..n  BY <1>1
  <2> QED BY <2>1, <1>2, <1>3, <1>4, <1>7
<1> QED BY <1>2, <1>7, <1>8 DEF RootsMatch, t

-----------------------------------------------------------------------------
(* The heap *)

LEMMA OutsideIsKept ==
  ASSUME NEW h, IsSeq(h), NEW p, p \notin Nat
  PROVE  Kept(p, h)
BY SeqFacts DEF Kept

(* What a function that is about to allocate has rooted.                    *)
LEMMA RootedFacts ==
  ASSUME ReaderInv, stack # << >>, NEW i \in 1..Len(stack), NEW f, f = stack[i],
         f.fn = "read_pair", f.at # "start"
  PROVE  f.var.car \in RootedPointers /\ f.var.cdr \in RootedPointers
<1> DEFINE names == <<"car", "cdr">>
<1>1. RootNames(f) = names  BY DEF RootNames
<1>2. HasBlock(roots, i, names)  BY <1>1 DEF ReaderInv, RootsMatch
<1>3. PICK b \in 0..Len(roots) : Block(roots, i, names, b)  BY <1>2 DEF HasBlock
<1>4. Len(names) = 2 /\ names[1] = "car" /\ names[2] = "cdr"  OBVIOUS
<1>5. Len(roots) \in Nat  BY SeqFacts DEF ReaderInv
<1> HIDE DEF names
<1>6. /\ b + 1 \in 1..Len(roots) /\ roots[b + 1].name = "car" /\ roots[b + 1].frame = i
      /\ b + 2 \in 1..Len(roots) /\ roots[b + 2].name = "cdr" /\ roots[b + 2].frame = i
  <2>1. /\ \A k \in 1..Len(roots) : roots[k].frame = i <=> k \in b + 1..b + 2
        /\ \A j \in 1..2 : b + j \in 1..Len(roots) /\ roots[b + j].name = names[j]
    BY <1>3, <1>4 DEF Block
  <2>2. 1 \in 1..2 /\ 2 \in 1..2 /\ b + 1 \in b + 1..b + 2 /\ b + 2 \in b + 1..b + 2  BY <1>5
  <2> QED BY <2>1, <2>2, <1>4
<1>7. roots[b + 1] \in Range(roots) /\ roots[b + 2] \in Range(roots)
  BY <1>6, SeqFacts DEF ReaderInv
<1> QED BY <1>6, <1>7 DEF RootedPointers

(* A collection spares what the callers hold, the arguments, and all that   *)
(* these lead to.                                                          *)
LEMMA CollectedFacts ==
  ASSUME ReaderInv, stack # << >>, NEW arguments, \A p \in arguments : Kept(p, heap),
         NEW h, h = Collected(arguments)
  PROVE  /\ Whole(h) /\ Len(h) = Len(heap)
         /\ \A p \in arguments : Kept(p, h)
         /\ CallersKept(stack, h)
<1> DEFINE start == RootedPointers \union VmPointers \union arguments
           pointers == [a \in Addr |-> Pointers(heap[a])]
           M == Marked(pointers, start)
<1>1. IsSeq(heap) /\ Len(heap) \in Nat /\ Addr = 1..Len(heap)
  BY SeqFacts DEF ReaderInv, Whole, Addr
<1>2. h = [a \in Addr |-> IF a \in M THEN heap[a] ELSE Freed]
  BY DEF Collected, Swept
<1>3. /\ start \intersect Addr \subseteq M /\ M \subseteq Addr
      /\ \A a \in M : Pointers(heap[a]) \intersect Addr \subseteq M
  <2>1. DOMAIN pointers = Addr /\ \A a \in Addr : pointers[a] = Pointers(heap[a])  OBVIOUS
  <2>2. IsFiniteSet(Addr)  BY <1>1, FS_Interval
  <2> HIDE DEF pointers, start
  <2>3. IsFiniteSet(DOMAIN pointers)  BY <2>1, <2>2
  <2>4. /\ start \intersect DOMAIN pointers \subseteq M /\ M \subseteq DOMAIN pointers
        /\ ClosedUnder(pointers, M)
    <3>1. start \intersect DOMAIN pointers \subseteq M  BY <2>3, MarkedFacts
    <3>2. M \subseteq DOMAIN pointers  BY <2>3, MarkedFacts
    <3>3. ClosedUnder(pointers, M)  BY <2>3, MarkedFacts
    <3> QED BY <3>1, <3>2, <3>3
  <2> HIDE DEF M
  <2> QED BY <2>1, <2>4 DEF ClosedUnder
<1> HIDE DEF M, pointers
<1>4. IsSeq(h) /\ Len(h) = Len(heap) /\ DOMAIN h = 1..Len(heap)
  <2> DEFINE S == Range(heap) \union {Freed}
  <2>1. h \in [1..Len(heap) -> S]  BY <1>1, <1>2 DEF Range
  <2> HIDE DEF S
  <2> QED BY <1>1, <2>1, MadeSeq
<1>5. ASSUME NEW p, Kept(p, heap), p \in Addr => p \in M
      PROVE  Kept(p, h)
  BY <1>1, <1>2, <1>4, <1>5 DEF Kept, Addr
<1>6. ASSUME NEW a \in 1..Len(h), NEW p \in Pointers(h[a])  PROVE Kept(p, h)
  <2>1. CASE a \in M
    <3>1. h[a] = heap[a] /\ a \in 1..Len(heap)  BY <2>1, <1>1, <1>2, <1>4
    <3>2. Kept(p, heap)  BY <1>6, <3>1 DEF ReaderInv, Whole
    <3>3. p \in Addr => p \in M  BY <1>3, <1>6, <2>1, <3>1
    <3> QED BY <1>5, <3>2, <3>3
  <2>2. CASE a \notin M
    <3>1. h[a] = Freed  BY <2>2, <1>1, <1>2, <1>4
    <3>2. Pointers(Freed) = {}  BY DEF Pointers, Freed
    <3> QED BY <1>6, <3>1, <3>2
  <2> QED BY <2>1, <2>2
<1>7. \A p \in arguments : Kept(p, h)
  <2> SUFFICES ASSUME NEW p \in arguments PROVE Kept(p, h)
    OBVIOUS
  <2>1. p \in Addr => p \in M  BY <1>3
  <2> QED BY <1>5, <2>1
<1>8. CallersKept(stack, h)
  <2> SUFFICES ASSUME NEW i \in 1..(Len(stack) - 1), NEW p \in Range(stack[i].var)
               PROVE  Kept(p, h)
    BY DEF CallersKept, AllKept
  <2> DEFINE f == stack[i]
  <2>1. i \in 1..Len(stack)  BY TopFacts
  <2>2. FrameOK(f) /\ f.fn # "conses" /\ AllKept(f.var, heap)  BY <2>1 DEF ReaderInv, FramesOK
  <2>3. CASE f.var = << >>
    <3>1. Range(<< >>) = {}  BY DEF Range
    <3> QED BY <2>3, <3>1
  <2>4. CASE f.var = [car |-> NULL, cdr |-> NULL]
    <3>1. p = NULL  BY <2>4 DEF Range
    <3>2. p \notin Nat  BY <3>1, ValuesAreNoAddresses
    <3> QED BY <3>2, <1>4, OutsideIsKept
  <2>5. CASE f.fn = "read_pair" /\ f.at # "start" /\ f.var = [car |-> f.var.car, cdr |-> f.var.cdr]
    <3>1. p = f.var.car \/ p = f.var.cdr
      <4>1. \A x, y : Range([car |-> x, cdr |-> y]) = {x, y}  BY DEF Range
      <4>2. p \in Range([car |-> f.var.car, cdr |-> f.var.cdr])  BY <2>5
      <4> HIDE DEF f
      <4> QED BY <4>1, <4>2
    <3>2. p \in RootedPointers  BY <2>1, <2>5, <3>1, RootedFacts
    <3>3. p \in Addr => p \in M  BY <1>3, <3>2
    <3>4. Kept(p, heap)  BY <2>2 DEF AllKept
    <3> QED BY <1>5, <3>3, <3>4
  <2> QED BY <2>2, <2>3, <2>4, <2>5 DEF FrameOK
<1> QED BY <1>4, <1>6, <1>7, <1>8 DEF Whole

LEMMA AppendKeeps ==
  ASSUME NEW h, Whole(h), NEW o, o # Freed, \A p \in Pointers(o) : Kept(p, h)
  PROVE  /\ Whole(Append(h, o)) /\ Kept(Len(h) + 1, Append(h, o))
         /\ \A p : Kept(p, h) => Kept(p, Append(h, o))
<1> DEFINE k == Append(h, o)
<1>1. IsSeq(h) /\ Len(h) \in Nat /\ DOMAIN h = 1..Len(h)  BY SeqFacts DEF Whole
<1>2. /\ IsSeq(k) /\ Len(k) = Len(h) + 1 /\ k[Len(h) + 1] = o
      /\ \A a \in 1..Len(h) : k[a] = h[a]
  <2>1. \A a \in 1..Len(h) : k[a] = h[a]  BY <1>1, AppendFacts
  <2> QED BY <1>1, <2>1, AppendFacts
<1>3. DOMAIN k = 1..(Len(h) + 1)  BY <1>2, SeqFacts
<1> HIDE DEF k
<1>4. \A a \in 1..(Len(h) + 1) : a = Len(h) + 1 \/ a \in 1..Len(h)  BY <1>1
<1>5. ASSUME NEW p, Kept(p, h)  PROVE Kept(p, k)
  BY <1>1, <1>2, <1>3, <1>4, <1>5 DEF Kept
<1>6. Kept(Len(h) + 1, k)  BY <1>2 DEF Kept
<1>7. ASSUME NEW a \in 1..Len(k), NEW p \in Pointers(k[a])  PROVE Kept(p, k)
  <2>1. CASE a = Len(h) + 1  BY <2>1, <1>2, <1>5, <1>7
  <2>2. CASE a \in 1..Len(h)
    <3>1. p \in Pointers(h[a])  BY <2>2, <1>2, <1>7
    <3>2. Kept(p, h)  BY <2>2, <3>1 DEF Whole
    <3> QED BY <3>2, <1>5
  <2> QED BY <2>1, <2>2, <1>2, <1>4
<1> QED BY <1>2, <1>5, <1>6, <1>7 DEF k, Whole

LEMMA HeapStays ==
  ASSUME ReaderInv
  PROVE  Whole(heap) /\ CallersKept(stack, heap)
<1>1. \A i \in 1..(Len(stack) - 1) : i \in 1..Len(stack)
  BY SeqFacts DEF ReaderInv, FramesOK
<1> QED BY <1>1 DEF ReaderInv, CallersKept

LEMMA AllocKeeps ==
  ASSUME ReaderInv, stack # << >>, NEW arguments, \A p \in arguments : Kept(p, heap),
         NEW o, o # Freed, Pointers(o) \subseteq arguments, gc_alloc(o, arguments)
  PROVE  /\ Whole(heap') /\ CallersKept(stack, heap')
         /\ Kept(NewAddr, heap') /\ \A p \in arguments : Kept(p, heap')
<1>1. PICK h : /\ heap' = Append(h, o) /\ Whole(h) /\ Len(h) = Len(heap)
               /\ CallersKept(stack, h) /\ \A p \in arguments : Kept(p, h)
  <2>1. CASE heap' = Append(heap, o)  BY <2>1, HeapStays
  <2>2. CASE heap' = Append(Collected(arguments), o)
    <3> DEFINE h == Collected(arguments)
    <3>1. /\ Whole(h) /\ Len(h) = Len(heap) /\ CallersKept(stack, h)
          /\ \A p \in arguments : Kept(p, h)
      BY CollectedFacts
    <3> HIDE DEF h
    <3>2. heap' = Append(h, o)  BY <2>2 DEF h
    <3> QED BY <3>1, <3>2
  <2> QED BY <2>1, <2>2 DEF gc_alloc
<1>2. /\ Whole(heap') /\ Kept(Len(h) + 1, heap')
      /\ \A p : Kept(p, h) => Kept(p, heap')
  <2>1. \A p \in Pointers(o) : Kept(p, h)  BY <1>1
  <2> QED BY <1>1, <2>1, AppendKeeps
<1>3. Kept(NewAddr, heap')  BY <1>1, <1>2 DEF NewAddr
<1>4. CallersKept(stack, heap')  BY <1>1, <1>2 DEF CallersKept, AllKept
<1> QED BY <1>1, <1>2, <1>3, <1>4

-----------------------------------------------------------------------------
(* What a step does *)

Below == WithoutBlock(roots, RootNames(Top))
Reads == in' = in /\ pos' \in Positions

LEMMA ReturnKeeps ==
  ASSUME ReaderInv, stack # << >>, NEW v, Return(v), Kept(v, heap'),
         Whole(heap'), CallersKept(stack, heap'), roots' = Below, Reads
  PROVE  ReaderInv'
<1>1. FramesOK(stack) /\ IsSeq(roots) /\ RootsMatch(stack, roots) /\ in \in Inputs
  BY DEF ReaderInv
<1>2. stack' = Front(stack) /\ ret' = v /\ Top = Last(stack)  BY DEF Return, Top
<1>3. FramesOK(stack')  BY <1>1, <1>2, FramesLeave
<1>4. \A i \in 1..Len(stack') : AllKept(stack'[i].var, heap')  BY <1>1, <1>2, FramesLeave
<1>5. IsSeq(roots') /\ RootsMatch(stack', roots')
  <2>1. IsSeq(Below)  BY <1>1, <1>2, RootsLeave DEF Below
  <2>2. RootsMatch(Front(stack), Below)  BY <1>1, <1>2, RootsLeave DEF Below
  <2> QED BY <2>1, <2>2, <1>2
<1>6. in' \in Inputs /\ pos' \in Positions'  BY <1>1 DEF Reads, Positions
<1> QED BY <1>2, <1>3, <1>4, <1>5, <1>6 DEF ReaderInv

(* The running function goes on, and what it has rooted is the same.        *)
LEMMA GoesKeeps ==
  ASSUME ReaderInv, stack # << >>, NEW f, stack' = TopBecomes(f), FrameOK(f),
         RootNames(f) = RootNames(Top), AllKept(f.var, heap'), Kept(ret', heap'),
         Whole(heap'), CallersKept(stack, heap'), roots' = roots, Reads
  PROVE  ReaderInv'
<1>1. FramesOK(stack) /\ IsSeq(roots) /\ RootsMatch(stack, roots) /\ in \in Inputs
  BY DEF ReaderInv
<1>2. stack' = [stack EXCEPT ![Len(stack)] = f] /\ Top = Last(stack)  BY DEF TopBecomes, Top
<1>3. FramesOK(stack')
  <2>1. FramesOK([stack EXCEPT ![Len(stack)] = f])  BY <1>1, FramesGo
  <2> QED BY <2>1, <1>2
<1>4. Len(stack') = Len(stack)  BY <1>1, <1>2, FrontFacts, ExceptFacts DEF FramesOK
<1>5. \A i \in 1..Len(stack) : AllKept(stack'[i].var, heap')  BY <1>1, <1>2, FramesGo
<1>6. IsSeq(roots') /\ RootsMatch(stack', roots')
  <2>1. roots = WithBlock(Below, Len(stack), RootNames(f))  BY <1>1, <1>2, RootsLeave DEF Below
  <2>2. IsSeq(roots) /\ RootsMatch([stack EXCEPT ![Len(stack)] = f], roots)
    BY <1>1, <1>2, <2>1, RootsGo DEF Below
  <2> QED BY <2>2, <1>2
<1>7. in' \in Inputs /\ pos' \in Positions'  BY <1>1 DEF Reads, Positions
<1> QED BY <1>3, <1>4, <1>5, <1>6, <1>7 DEF ReaderInv

(* It calls, and may root its variables before, if it has not yet.          *)
Roots(at, v, rooted) ==
  \/ rooted = << >> /\ RootNames(Continue(at, v)) = RootNames(Top)
  \/ RootNames(Top) = << >> /\ RootNames(Continue(at, v)) = rooted

LEMMA EndKeeps ==
  ASSUME ReaderInv, NEW how, End(how)
  PROVE  ReaderInv'
<1>1. stack' = << >> /\ ret' = NULL /\ UNCHANGED <<heap, roots, in, pos>>  BY DEF End, vm
<1>2. FramesOK(stack') /\ \A i \in 1..Len(stack') : AllKept(stack'[i].var, heap')
  BY <1>1, Tuples DEF FramesOK
<1>3. Kept(NULL, heap)  BY ValuesAreNoAddresses, OutsideIsKept DEF ReaderInv, Whole
<1>4. RootsMatch(stack', roots')  BY <1>1 DEF RootsMatch
<1>5. Positions' = Positions  BY <1>1 DEF Positions
<1> QED BY <1>1, <1>2, <1>3, <1>4, <1>5 DEF ReaderInv

LEMMA PushedFacts ==
  ASSUME NEW names, IsSeq(names)
  PROVE  Push(names) = WithBlock(roots, Len(stack), names)
<1>1. DOMAIN names = 1..Len(names)  BY SeqFacts
<1> QED BY <1>1 DEF Push, WithBlock, BlockOf, Root

LEMMA CalleeFacts ==
  /\ FrameOK(ReadFrame) /\ RootNames(ReadFrame) = << >>
  /\ FrameOK(PairFrame) /\ RootNames(PairFrame) = << >>
  /\ \A h : IsSeq(h) => AllKept(ReadFrame.var, h) /\ AllKept(PairFrame.var, h)
<1>1. FrameOK(ReadFrame) /\ RootNames(ReadFrame) = << >>
  BY DEF FrameOK, ReadFrame, Frame, RootNames
<1>2. FrameOK(PairFrame) /\ RootNames(PairFrame) = << >>
  BY DEF FrameOK, PairFrame, Frame, RootNames
<1>3. ASSUME NEW h, IsSeq(h)  PROVE AllKept(ReadFrame.var, h) /\ AllKept(PairFrame.var, h)
  <2>1. Range(ReadFrame.var) = {}  BY DEF ReadFrame, Frame, Range
  <2>2. Range(PairFrame.var) = {NULL}  BY DEF PairFrame, Frame, Range
  <2>3. Kept(NULL, h)  BY <1>3, ValuesAreNoAddresses, OutsideIsKept
  <2> QED BY <2>1, <2>2, <2>3 DEF AllKept
<1> QED BY <1>1, <1>2, <1>3

LEMMA InvokeKeeps ==
  ASSUME ReaderInv, stack # << >>, NEW at, NEW v, NEW rooted, IsSeq(rooted),
         NEW callee \in {ReadFrame, PairFrame}, NEW next \in Positions,
         Invoke(at, v, rooted, callee, next),
         FrameOK(Continue(at, v)), Continue(at, v).fn # "conses", AllKept(v, heap),
         Roots(at, v, rooted)
  PROVE  ReaderInv'
<1>1. CASE End("overflowed")  BY <1>1, EndKeeps
<1>2. CASE /\ Call(at, v, callee) /\ roots' = Push(rooted) /\ pos' = next
           /\ UNCHANGED <<heap, vm, in, outcome>>
  <2> DEFINE f == Continue(at, v)
             n == Len(stack)
             t == [stack EXCEPT ![n] = f]
  <2>1. /\ FramesOK(stack) /\ IsSeq(roots) /\ RootsMatch(stack, roots) /\ in \in Inputs
        /\ CallersKept(stack, heap) /\ Whole(heap) /\ IsSeq(heap)
    BY HeapStays DEF ReaderInv, Whole
  <2>2. stack' = Append(t, callee) /\ ret' = NULL /\ heap' = heap /\ Top = Last(stack)
    BY <1>2 DEF Call, TopBecomes, Top
  <2>3. f.var = v
    <3>1. FrameOK(Top)  BY TopFacts
    <3> QED BY <3>1 DEF Continue, FrameOK
  <2> HIDE DEF f
  <2>4. FramesOK(t) /\ \A i \in 1..n : AllKept(t[i].var, heap)  BY <2>1, <2>3, FramesGo DEF f
  <2>5. n \in Nat \ {0} /\ n \in 1..Len(stack) /\ IsSeq(stack)  BY TopFacts, <2>1 DEF FramesOK
  <2>6. Len(t) = n /\ t[n] = f /\ t # << >>  BY <2>5, ExceptFacts, Tuples
  <2>7. roots' = WithBlock(Below, n, RootNames(f))
    <3>1. roots = WithBlock(Below, n, RootNames(Top)) /\ IsSeq(Below)
      BY <2>1, <2>2, RootsLeave DEF Below
    <3>2. roots' = WithBlock(roots, n, rooted)  BY <1>2, PushedFacts
    <3>3. CASE rooted = << >> /\ RootNames(f) = RootNames(Top)
      BY <3>1, <3>2, <3>3, <2>1, NoBlock
    <3>4. CASE RootNames(Top) = << >> /\ RootNames(f) = rooted
      BY <3>1, <3>2, <3>4, NoBlock
    <3> QED BY <3>3, <3>4 DEF Roots, f
  <2>8. IsSeq(roots') /\ RootsMatch(t, roots')
    <3>1. FrameOK(f)  BY DEF f
    <3>2. roots' = WithBlock(WithoutBlock(roots, RootNames(Last(stack))), Len(stack), RootNames(f))
      BY <2>2, <2>7 DEF Below
    <3> HIDE DEF n
    <3> QED BY <3>1, <3>2, <2>1, RootsGo DEF n
  <2>9. FrameOK(callee) /\ RootNames(callee) = << >> /\ AllKept(callee.var, heap)
    BY <2>1, CalleeFacts
  <2> HIDE DEF t
  <2>10. t[Len(t)].fn # "conses"  BY <2>6 DEF f
  <2>11. FramesOK(stack') /\ Len(stack') = n + 1  BY <2>2, <2>4, <2>6, <2>9, <2>10, FramesEnter
  <2>12. \A i \in 1..(n + 1) : AllKept(stack'[i].var, heap')
    BY <2>2, <2>4, <2>6, <2>9, <2>10, FramesEnter
  <2>13. RootsMatch(stack', roots')  BY <2>2, <2>4, <2>6, <2>8, <2>9, RootsEnter
  <2>14. Kept(NULL, heap)  BY <2>1, ValuesAreNoAddresses, OutsideIsKept
  <2>15. in' \in Inputs /\ pos' \in Positions'  BY <1>2, <2>1 DEF Positions
  <2> QED BY <2>1, <2>2, <2>8, <2>11, <2>12, <2>13, <2>14, <2>15 DEF ReaderInv
<1> QED BY <1>1, <1>2 DEF Invoke

-----------------------------------------------------------------------------
(* The actions *)

LEMMA ContinueFacts ==
  ASSUME ReaderInv, stack # << >>, NEW at, NEW v
  PROVE  Continue(at, v) = [fn |-> Top.fn, at |-> at, var |-> v, pops |-> Top.pops,
                            entered |-> Top.entered, saved |-> Top.saved]
<1>1. FrameOK(Top)  BY TopFacts
<1> QED BY <1>1, RecordFacts DEF FrameOK, Continue

(* What the running function is, and which roots it leaves.                 *)
LEMMA ReadingFacts ==
  ASSUME ReaderInv, stack # << >>, Top.fn = "read"
  PROVE  /\ Top.var = << >> /\ RootNames(Top) = << >> /\ Below = roots
         /\ \A at \in {"start", "list", "quote"} :
              /\ FrameOK(Continue(at, Top.var)) /\ Continue(at, Top.var).fn = "read"
              /\ RootNames(Continue(at, Top.var)) = << >>
<1>1. Top.var = << >>  BY TopFacts DEF FrameOK
<1>2. RootNames(Top) = << >>  BY DEF RootNames
<1>3. Below = roots
  <2>1. roots = WithBlock(Below, Len(stack), << >>) /\ IsSeq(Below)
    BY <1>2, RootsLeave DEF Below, Top, ReaderInv
  <2> QED BY <2>1, NoBlock
<1>4. ASSUME NEW at \in {"start", "list", "quote"}
      PROVE  /\ FrameOK(Continue(at, Top.var)) /\ Continue(at, Top.var).fn = "read"
             /\ RootNames(Continue(at, Top.var)) = << >>
  BY <1>1, ContinueFacts DEF FrameOK, RootNames
<1> QED BY <1>1, <1>2, <1>3, <1>4

(* read returns a value that is outside of the heap, or kept by it.         *)
LEMMA ReadReturnKeeps ==
  ASSUME ReaderInv, stack # << >>, Top.fn = "read", NEW v, Return(v), Kept(v, heap'),
         heap' = heap, roots' = roots, Reads
  PROVE  ReaderInv'
BY ReadingFacts, HeapStays, ReturnKeeps

(* read makes an object, which points to nothing.                           *)
LEMMA ReadMakeKeeps ==
  ASSUME ReaderInv, stack # << >>, Top.fn = "read", NEW o, o # Freed, Pointers(o) = {},
         gc_alloc(o, {}), Return(NewAddr), roots' = roots, Reads
  PROVE  ReaderInv'
<1>1. Whole(heap') /\ CallersKept(stack, heap') /\ Kept(NewAddr, heap')  BY AllocKeeps
<1> QED BY <1>1, ReadingFacts, ReturnKeeps

LEMMA ReadInvokeKeeps ==
  ASSUME ReaderInv, stack # << >>, Top.fn = "read", NEW at \in {"list", "quote"},
         NEW callee \in {ReadFrame, PairFrame}, NEW next \in Positions,
         Invoke(at, Top.var, << >>, callee, next)
  PROVE  ReaderInv'
<1>1. FrameOK(Continue(at, Top.var)) /\ Continue(at, Top.var).fn # "conses"  BY ReadingFacts
<1>2. Roots(at, Top.var, << >>)  BY ReadingFacts DEF Roots
<1>3. IsSeq(<< >>) /\ AllKept(Top.var, heap)  BY Tuples, TopFacts
<1> QED BY <1>1, <1>2, <1>3, InvokeKeeps

LEMMA AtFacts == \A fn, at : At(fn, at) => stack # << >> /\ Top.fn = fn /\ Top.at = at
  BY DEF At

(* The character at the place where the reader is.                          *)
LEMMA HereFacts ==
  ASSUME ReaderInv
  PROVE  /\ IsText /\ place \in Positions /\ place \in Nat \ {0}
         /\ c # EOF => place + 1 \in Positions
         /\ c # EOF /\ Ch(place + 1) # EOF => place + 2 \in Positions
<1>1. IsText /\ place \in Positions /\ place \in Nat \ {0}  BY TextFacts, PlaceFacts
<1>2. c # EOF => place + 1 \in Positions  BY <1>1, ChFacts DEF c
<1>3. Ch(place + 1) # EOF => (place + 1) + 1 \in Positions
  <2>1. place + 1 \in Nat \ {0}  BY <1>1
  <2> QED BY <1>1, <2>1, ChFacts
<1>4. (place + 1) + 1 = place + 2  BY <1>1
<1> QED BY <1>1, <1>2, <1>3, <1>4

LEMMA NewObjects ==
  /\ \A n : make_number(n) => gc_alloc(Number(n), {}) /\ Number(n) # Freed /\ Pointers(Number(n)) = {}
  /\ \A n : make_character(n) => gc_alloc(Character(n), {}) /\ Character(n) # Freed /\ Pointers(Character(n)) = {}
  /\ \A n : make_string(n) => gc_alloc(String(n), {}) /\ String(n) # Freed /\ Pointers(String(n)) = {}
  /\ \A f, s : cons(f, s) => gc_alloc(Pair(f, s), {f, s}) /\ Pair(f, s) # Freed /\ Pointers(Pair(f, s)) = {f, s}
<1>1. \A n : Number(n) # Freed /\ Pointers(Number(n)) = {}  BY DEF Number, Freed, Pointers
<1>2. \A n : Character(n) # Freed /\ Pointers(Character(n)) = {}  BY DEF Character, Freed, Pointers
<1>3. \A n : String(n) # Freed /\ Pointers(String(n)) = {}  BY DEF String, Freed, Pointers
<1>4. \A f, s : Pair(f, s) # Freed /\ Pointers(Pair(f, s)) = {f, s}
  BY DEF Pair, Freed, Pointers, pair_pointers
<1> QED BY <1>1, <1>2, <1>3, <1>4 DEF make_number, make_character, make_string, cons

LEMMA ReadIsOutside ==
  ASSUME ReaderInv
  PROVE  \A v \in {NULL, true, false, the_empty_list} : Kept(v, heap)
BY ValuesAreNoAddresses, OutsideIsKept DEF ReaderInv, Whole

LEMMA NumberActions == ReaderInv /\ read_a_number => ReaderInv'
<1> SUFFICES ASSUME ReaderInv, read_a_number PROVE ReaderInv'
  OBVIOUS
<1>1. stack # << >> /\ Top.fn = "read"  BY AtFacts DEF read_a_number, Reading
<1>2. CASE \E t \in read_number(place) : make_number(t.value) /\ Make(t)
  <2>1. PICK t \in read_number(place) : make_number(t.value) /\ Make(t)  BY <1>2
  <2>2. Ch(place) \in Digit \/ Ch(place) = "-"  BY DEF read_a_number, IsNumber, c
  <2>3. t.next \in Positions  BY <2>2, HereFacts, NumberEnds
  <2>4. Return(NewAddr) /\ roots' = roots /\ Reads  BY <2>1, <2>3 DEF Make, Reads
  <2> QED BY <1>1, <2>1, <2>4, NewObjects, ReadMakeKeeps
<1>3. CASE NoToken(read_number(place))  BY <1>3, EndKeeps DEF NoToken, Exit
<1> QED BY <1>2, <1>3 DEF read_a_number

LEMMA CharacterActions == ReaderInv /\ read_a_character => ReaderInv'
<1> SUFFICES ASSUME ReaderInv, read_a_character PROVE ReaderInv'
  OBVIOUS
<1>1. stack # << >> /\ Top.fn = "read"  BY AtFacts DEF read_a_character, Literal, Reading
<1>2. CASE \E t \in read_character(place + 2) : make_character(t.value) /\ Make(t)
  <2>1. PICK t \in read_character(place + 2) : make_character(t.value) /\ Make(t)  BY <1>2
  <2>2. place + 2 \in Nat \ {0}  BY HereFacts
  <2>3. t.next \in Positions  BY <2>2, HereFacts, CharacterEnds
  <2>4. Return(NewAddr) /\ roots' = roots /\ Reads  BY <2>1, <2>3 DEF Make, Reads
  <2> QED BY <1>1, <2>1, <2>4, NewObjects, ReadMakeKeeps
<1>3. CASE NoToken(read_character(place + 2))  BY <1>3, EndKeeps DEF NoToken, Exit
<1> QED BY <1>2, <1>3 DEF read_a_character

LEMMA StringActions == ReaderInv /\ read_a_string => ReaderInv'
<1> SUFFICES ASSUME ReaderInv, read_a_string PROVE ReaderInv'
  OBVIOUS
<1>1. stack # << >> /\ Top.fn = "read"  BY AtFacts DEF read_a_string, Reading
<1>2. CASE \E t \in read_string(place + 1) : make_string(t.value) /\ Make(t)
  <2>1. PICK t \in read_string(place + 1) : make_string(t.value) /\ Make(t)  BY <1>2
  <2>2. c # EOF  BY EofIsNoCharacter DEF read_a_string, Punctuation
  <2>3. t.next \in Positions  BY <2>2, HereFacts, StringEnds
  <2>4. Return(NewAddr) /\ roots' = roots /\ Reads  BY <2>1, <2>3 DEF Make, Reads
  <2> QED BY <1>1, <2>1, <2>4, NewObjects, ReadMakeKeeps
<1>3. CASE NoToken(read_string(place + 1))  BY <1>3, EndKeeps DEF NoToken, Exit
<1> QED BY <1>2, <1>3 DEF read_a_string

LEMMA FinishKeeps ==
  ASSUME ReaderInv, stack # << >>, Top.fn = "read", NEW v, Kept(v, heap),
         NEW next \in Positions, Finish(v, next)
  PROVE  ReaderInv'
<1>1. Return(v) /\ heap' = heap /\ roots' = roots /\ Reads  BY DEF Finish, OnlyTheStack, Reads
<1> QED BY <1>1, ReadReturnKeeps

LEMMA BooleanActions == ReaderInv /\ read_boolean => ReaderInv'
<1> SUFFICES ASSUME ReaderInv, NEW ch \in {"t", "f"}, NEW v \in {true, false},
                    Literal(ch), Finish(v, place + 2)
             PROVE  ReaderInv'
  BY DEF read_boolean
<1>1. stack # << >> /\ Top.fn = "read"  BY AtFacts DEF Literal, Reading
<1>2. c # EOF /\ Ch(place + 1) # EOF  BY EofIsNoCharacter DEF Literal, Punctuation
<1>3. place + 2 \in Positions  BY <1>2, HereFacts
<1> QED BY <1>1, <1>3, ReadIsOutside, FinishKeeps

LEMMA SymbolActions == ReaderInv /\ read_a_symbol => ReaderInv'
<1> SUFFICES ASSUME ReaderInv, read_a_symbol PROVE ReaderInv'
  OBVIOUS
<1>1. stack # << >> /\ Top.fn = "read"  BY AtFacts DEF read_a_symbol, Reading
<1>2. CASE Exit  BY <1>2, EndKeeps DEF Exit
<1>3. CASE \E t \in read_symbol(place) :
             /\ heap' \in {heap, Collected({})}
             /\ Return(symbol[t.value]) /\ pos' = t.next
             /\ UNCHANGED <<roots, vm, in, outcome>>
  <2>1. PICK t \in read_symbol(place) :
             /\ heap' \in {heap, Collected({})}
             /\ Return(symbol[t.value]) /\ pos' = t.next
             /\ UNCHANGED <<roots, vm, in, outcome>>
    BY <1>3
  <2>2. Ch(place) \in Subsequent
    BY DEF read_a_symbol, IsSymbol, Subsequent, c
  <2>3. t.next \in Positions /\ \E last \in place..Len(in) : t.value = SubSeq(in, place, last)
    BY <2>2, HereFacts, SymbolEnds
  <2>4. symbol[t.value] \notin Nat
    <3>1. PICK last \in place..Len(in) : t.value = SubSeq(in, place, last)  BY <2>3
    <3>2. Len(in) \in Nat /\ DOMAIN in = 1..Len(in)  BY HereFacts, SeqFacts DEF IsText
    <3>3. last \in DOMAIN in /\ place \in 1..last  BY <3>2, HereFacts
    <3> QED BY <3>1, <3>3, SymbolsAreNoAddresses DEF ReaderInv
  <2>5. Whole(heap') /\ CallersKept(stack, heap')
    <3>1. CASE heap' = heap  BY <3>1, HeapStays
    <3>2. CASE heap' = Collected({})  BY <3>2, <1>1, CollectedFacts
    <3> QED BY <2>1, <3>1, <3>2
  <2>6. Kept(symbol[t.value], heap')  BY <2>4, <2>5, OutsideIsKept DEF Whole
  <2>7. roots' = Below /\ Reads  BY <1>1, <2>1, <2>3, ReadingFacts DEF Reads
  <2> QED BY <1>1, <2>1, <2>5, <2>6, <2>7, ReturnKeeps
<1> QED BY <1>2, <1>3 DEF read_a_symbol

LEMMA ListActions ==
  ReaderInv /\ (read_list \/ read_list_return \/ read_quote \/ read_end) => ReaderInv'
<1> SUFFICES ASSUME ReaderInv PROVE read_list \/ read_list_return \/ read_quote \/ read_end => ReaderInv'
  OBVIOUS
<1>1. ASSUME read_list PROVE ReaderInv'
  <2>1. stack # << >> /\ Top.fn = "read"  BY <1>1, AtFacts DEF read_list, Reading
  <2>2. c # EOF  BY <1>1, EofIsNoCharacter DEF read_list, Punctuation
  <2>3. place + 1 \in Positions  BY <2>2, HereFacts
  <2>4. Invoke("list", Top.var, << >>, PairFrame, place + 1)  BY <1>1 DEF read_list
  <2> QED BY <2>1, <2>3, <2>4, ReadInvokeKeeps
<1>2. ASSUME read_list_return PROVE ReaderInv'
  <2>1. stack # << >> /\ Top.fn = "read" /\ Finish(ret, pos)  BY <1>2, AtFacts DEF read_list_return
  <2> QED BY <2>1, FinishKeeps DEF ReaderInv
<1>3. ASSUME read_quote PROVE ReaderInv'
  <2>1. stack # << >> /\ Top.fn = "read"  BY <1>3, AtFacts DEF read_quote, Reading
  <2>2. c # EOF  BY <1>3, EofIsNoCharacter DEF read_quote, Punctuation
  <2>3. place + 1 \in Positions  BY <2>2, HereFacts
  <2>4. Invoke("quote", Top.var, << >>, ReadFrame, place + 1)  BY <1>3 DEF read_quote
  <2> QED BY <2>1, <2>3, <2>4, ReadInvokeKeeps
<1>4. ASSUME read_end PROVE ReaderInv'
  <2>1. stack # << >> /\ Top.fn = "read" /\ Finish(NULL, place)
    BY <1>4, AtFacts DEF read_end, Reading
  <2> QED BY <2>1, HereFacts, ReadIsOutside, FinishKeeps
<1> QED BY <1>1, <1>2, <1>3, <1>4

LEMMA ErrorActions ==
  ReaderInv /\ (read_unknown_literal \/ read_unexpected) => ReaderInv'
BY EndKeeps DEF read_unknown_literal, read_unexpected, Exit

LEMMA NoRoots ==
  ASSUME ReaderInv, stack # << >>, RootNames(Top) = << >>
  PROVE  Below = roots
<1>1. roots = WithBlock(Below, Len(stack), << >>) /\ IsSeq(Below)
  BY RootsLeave DEF Below, Top, ReaderInv
<1> QED BY <1>1, NoBlock

LEMMA ReplaceLast ==
  ASSUME NEW s, IsSeq(s), s # << >>, NEW f
  PROVE  Front(s) \o <<f>> = [s EXCEPT ![Len(s)] = f]
<1> DEFINE n == Len(s)
           t == Front(s) \o <<f>>
           u == [s EXCEPT ![n] = f]
           b == Front(s)
<1>1. /\ n \in Nat \ {0} /\ IsSeq(b) /\ Len(b) = n - 1
      /\ \A i \in 1..(n - 1) : b[i] = s[i]
  BY FrontFacts
<1>2. IsSeq(<<f>>) /\ Len(<<f>>) = 1 /\ <<f>>[1] = f  BY Tuples
<1> DEFINE last == <<f>>
<1> HIDE DEF b, last
<1>3. /\ IsSeq(b \o last) /\ Len(b \o last) = Len(b) + Len(last)
      /\ \A i \in 1..Len(b) : (b \o last)[i] = b[i]
      /\ \A i \in 1..Len(last) : (b \o last)[Len(b) + i] = last[i]
  <2>1. IsSeq(last)  BY <1>2 DEF last
  <2>2. IsSeq(b \o last) /\ Len(b \o last) = Len(b) + Len(last)  BY <1>1, <2>1, ConcatFacts
  <2>3. \A i \in 1..Len(b) : (b \o last)[i] = b[i]  BY <1>1, <2>1, ConcatFacts
  <2>4. \A i \in 1..Len(last) : (b \o last)[Len(b) + i] = last[i]  BY <1>1, <2>1, ConcatFacts
  <2> QED BY <2>2, <2>3, <2>4
<1>4. t = b \o last /\ Len(last) = 1 /\ last[1] = f  BY <1>2 DEF b, last
<1>5. n \in 1..Len(s)  BY <1>1
<1>6. IsSeq(u) /\ Len(u) = n /\ u[n] = f  BY <1>5, ExceptFacts
<1>7. \A i \in 1..Len(s) : i # n => u[i] = s[i]  BY <1>5, ExceptFacts
<1> HIDE DEF t, u, n
<1>8. Len(t) = n /\ t[n] = f /\ \A i \in 1..(n - 1) : t[i] = s[i]
  <2>1. Len(t) = n  BY <1>1, <1>3, <1>4
  <2>2. t[n] = f
    <3>1. 1 \in 1..Len(last) /\ Len(b) + 1 = n  BY <1>1, <1>4
    <3> QED BY <3>1, <1>3, <1>4
  <2>3. \A i \in 1..(n - 1) : t[i] = s[i]  BY <1>1, <1>3, <1>4
  <2> QED BY <2>1, <2>2, <2>3
<1>9. \A i \in 1..n : i = n \/ (i # n /\ i \in 1..(n - 1) /\ i \in 1..Len(s))  BY <1>1 DEF n
<1>10. \A i \in 1..n : t[i] = u[i]  BY <1>6, <1>7, <1>8, <1>9
<1>11. IsSeq(t)  BY <1>3, <1>4
<1>12. t = u  BY <1>6, <1>8, <1>10, <1>11, SameSeq
<1> QED BY <1>12 DEF t, u, n

LEMMA QuotedActions == ReaderInv /\ read_quoted => ReaderInv'
<1> SUFFICES ASSUME ReaderInv, read_quoted PROVE ReaderInv'
  OBVIOUS
<1> DEFINE quote == symbol[<<"q", "u", "o", "t", "e">>]
           elements == <<quote, ret, the_empty_list>>
           f == Conses(elements)
<1>1. stack # << >> /\ Top.fn = "read"  BY AtFacts DEF read_quoted
<1>2. IsSeq(elements) /\ Len(elements) = 3 /\ elements[1] = quote  BY Tuples
<1>3. Range(elements) = {quote, ret, the_empty_list}  BY DEF Range
<1>4. quote \notin Nat  BY SymbolsAreNoAddresses
<1>5. Kept(quote, heap) /\ Kept(ret, heap) /\ Kept(the_empty_list, heap)
  BY <1>4, OutsideIsKept, ReadIsOutside DEF ReaderInv, Whole
<1>6. AllKept(elements, heap)  BY <1>3, <1>5 DEF AllKept
<1>7. stack' = Front(stack) \o <<f>>  BY DEF read_quoted
<1> HIDE DEF elements, quote
<1>8. FrameOK(f) /\ RootNames(f) = << >> /\ f.var = elements
  <2>1. \A i \in 1..(Len(elements) - 2) : i = 1  BY <1>2
  <2>2. \A i \in 1..(Len(elements) - 2) : elements[i] \notin Nat  BY <2>1, <1>2, <1>4
  <2>3. Len(elements) \in 1..3  BY <1>2
  <2> QED BY <1>2, <2>2, <2>3 DEF FrameOK, Conses, Frame, RootNames
<1> HIDE DEF f
<1>9. stack' = TopBecomes(f)  BY <1>1, <1>7, ReplaceLast DEF TopBecomes, ReaderInv, FramesOK
<1>10. ret' = NULL /\ heap' = heap /\ roots' = roots /\ Reads
  BY TextFacts DEF read_quoted, OnlyTheStack, Reads
<1>11. RootNames(f) = RootNames(Top)  BY <1>1, <1>8, ReadingFacts
<1> QED BY <1>1, <1>6, <1>8, <1>9, <1>10, <1>11, HeapStays, ReadIsOutside, GoesKeeps

LEMMA ConsesFacts ==
  ASSUME ReaderInv, stack # << >>, Top.fn = "conses"
  PROVE  /\ RootNames(Top) = << >> /\ IsSeq(Top.var) /\ Len(Top.var) \in 1..3
         /\ \A i \in 1..(Len(Top.var) - 2) : Top.var[i] \notin Nat
         /\ \A i \in 1..Len(Top.var) : Kept(Top.var[i], heap)
<1>1. FrameOK(Top) /\ AllKept(Top.var, heap)  BY TopFacts
<1>2. IsSeq(Top.var) /\ Len(Top.var) \in 1..3  BY <1>1 DEF FrameOK
<1>3. \A i \in 1..(Len(Top.var) - 2) : Top.var[i] \notin Nat  BY <1>1 DEF FrameOK
<1>4. \A i \in 1..Len(Top.var) : Kept(Top.var[i], heap)  BY <1>1, <1>2, SeqFacts DEF AllKept
<1>5. RootNames(Top) = << >>  BY DEF RootNames
<1> QED BY <1>2, <1>3, <1>4, <1>5

LEMMA ConsesActions == ReaderInv /\ (read_conses \/ read_conses_return) => ReaderInv'
<1> SUFFICES ASSUME ReaderInv PROVE read_conses \/ read_conses_return => ReaderInv'
  OBVIOUS
<1>1. ASSUME read_conses PROVE ReaderInv'
  <2> DEFINE e == Top.var
             n == Len(e)
             rest == SubSeq(e, 1, n - 2)
             last == <<NewAddr>>
             v == rest \o last
             f == Continue("start", v)
  <2>1. conses /\ stack # << >> /\ Top.fn = "conses" /\ n > 1
    BY <1>1, AtFacts DEF read_conses, conses
  <2>2. /\ RootNames(Top) = << >> /\ IsSeq(e) /\ n \in 1..3
        /\ \A i \in 1..(n - 2) : e[i] \notin Nat
        /\ \A i \in 1..n : Kept(e[i], heap)
    BY <2>1, ConsesFacts
  <2>3. cons(e[n - 1], e[n]) /\ stack' = TopBecomes(f) /\ ret' = NULL
    BY <2>1 DEF conses, Goto
  <2>4. Whole(heap') /\ CallersKept(stack, heap') /\ Kept(NewAddr, heap')
    <3>1. n - 1 \in 1..n /\ n \in 1..n  BY <2>1, <2>2
    <3>2. \A p \in {e[n - 1], e[n]} : Kept(p, heap)  BY <2>2, <3>1
    <3>3. /\ gc_alloc(Pair(e[n - 1], e[n]), {e[n - 1], e[n]})
          /\ Pair(e[n - 1], e[n]) # Freed
          /\ Pointers(Pair(e[n - 1], e[n])) \subseteq {e[n - 1], e[n]}
      BY <2>3, NewObjects
    <3> QED BY <2>1, <3>2, <3>3, AllocKeeps
  <2>5. f = [fn |-> Top.fn, at |-> "start", var |-> v, pops |-> Top.pops,
             entered |-> Top.entered, saved |-> Top.saved]
    BY <2>1, ContinueFacts
  <2> HIDE DEF e, f
  <2>6. n - 2 \in 0..Len(e)  BY <2>1, <2>2
  <2>7. IsSeq(rest) /\ Len(rest) = n - 2
    <3> DEFINE k == n - 2
    <3> HIDE DEF k
    <3>1. IsSeq(SubSeq(e, 1, k)) /\ Len(SubSeq(e, 1, k)) = k  BY <2>2, <2>6, SubSeqFacts DEF k
    <3> QED BY <3>1 DEF k
  <2>8. \A i \in 1..(n - 2) : rest[i] = e[i]
    <3> DEFINE k == n - 2
    <3> HIDE DEF k
    <3>1. \A i \in 1..k : SubSeq(e, 1, k)[i] = e[i]  BY <2>2, <2>6, SubSeqFacts DEF k
    <3> QED BY <3>1 DEF k
  <2>9. IsSeq(last) /\ Len(last) = 1 /\ last[1] = NewAddr  BY Tuples
  <2> HIDE DEF rest, last
  <2>10. IsSeq(v) /\ Len(v) = n - 1
    <3>1. IsSeq(rest \o last) /\ Len(rest \o last) = Len(rest) + Len(last)
      BY <2>7, <2>9, ConcatFacts
    <3>2. n \in Nat  BY <2>2
    <3> QED BY <3>1, <3>2, <2>7, <2>9
  <2>11. \A i \in 1..(n - 2) : v[i] = e[i]
    <3>1. \A i \in 1..Len(rest) : (rest \o last)[i] = rest[i]  BY <2>7, <2>9, ConcatFacts
    <3> QED BY <3>1, <2>7, <2>8
  <2>12. v[n - 1] = NewAddr
    <3>1. \A i \in 1..Len(last) : (rest \o last)[Len(rest) + i] = last[i]
      BY <2>7, <2>9, ConcatFacts
    <3>2. 1 \in 1..Len(last) /\ Len(rest) + 1 = n - 1  BY <2>2, <2>7, <2>9
    <3> QED BY <3>1, <3>2, <2>9
  <2> HIDE DEF v
  <2>13. \A i \in 1..(Len(v) - 2) : v[i] \notin Nat
    <3>1. \A i \in 1..(Len(v) - 2) : i \in 1..(n - 2)  BY <2>2, <2>10
    <3> QED BY <3>1, <2>2, <2>11
  <2>14. FrameOK(f) /\ RootNames(f) = RootNames(Top) /\ f.var = v
    <3>1. Len(v) \in 1..3  BY <2>1, <2>2, <2>10
    <3> QED BY <3>1, <2>1, <2>2, <2>5, <2>10, <2>13 DEF FrameOK, RootNames
  <2>15. AllKept(v, heap')
    <3> SUFFICES ASSUME NEW p \in Range(v) PROVE Kept(p, heap')
      BY DEF AllKept
    <3>1. PICK i \in 1..Len(v) : p = v[i]  BY <2>10, SeqFacts DEF Range
    <3>2. i = n - 1 \/ i \in 1..(n - 2)  BY <3>1, <2>2, <2>10
    <3>3. CASE i = n - 1  BY <3>1, <3>3, <2>4, <2>12
    <3>4. CASE i \in 1..(n - 2)
      <4>1. p \notin Nat  BY <3>1, <3>4, <2>2, <2>11
      <4> QED BY <4>1, <2>4, OutsideIsKept DEF Whole
    <3> QED BY <3>2, <3>3, <3>4
  <2>16. Kept(ret', heap')  BY <2>3, <2>4, ValuesAreNoAddresses, OutsideIsKept DEF Whole
  <2>17. roots' = roots /\ Reads  BY <1>1, TextFacts DEF read_conses, conses, Reads
  <2> QED BY <2>1, <2>3, <2>4, <2>14, <2>15, <2>16, <2>17, GoesKeeps
<1>2. ASSUME read_conses_return PROVE ReaderInv'
  <2>1. stack # << >> /\ Top.fn = "conses" /\ Return(Top.var[1]) /\ heap' = heap /\ roots' = roots
    BY <1>2, AtFacts DEF read_conses_return, conses_return
  <2>2. RootNames(Top) = << >> /\ 1 \in 1..Len(Top.var)  BY <2>1, ConsesFacts
  <2>3. Kept(Top.var[1], heap)  BY <2>1, <2>2, ConsesFacts
  <2>4. Reads  BY <1>2, TextFacts DEF read_conses_return, Reads
  <2> QED BY <2>1, <2>2, <2>3, <2>4, NoRoots, HeapStays, ReturnKeeps
<1> QED BY <1>1, <1>2

(* read_pair, before it has rooted its variables and after.                 *)
LEMMA PairFacts ==
  ASSUME ReaderInv, stack # << >>, Top.fn = "read_pair"
  PROVE  /\ Top.at = "start" => RootNames(Top) = << >>
         /\ Top.at # "start" => RootNames(Top) = <<"car", "cdr">>
         /\ Top.var = [car |-> Top.var.car, cdr |-> Top.var.cdr]
         /\ Kept(Top.var.car, heap) /\ Kept(Top.var.cdr, heap)
         /\ \A at \in {"car", "cdr", "dotted"} : \A x, y :
              LET f == Continue(at, [car |-> x, cdr |-> y]) IN
                FrameOK(f) /\ f.fn # "conses" /\ RootNames(f) = <<"car", "cdr">>
<1>1. FrameOK(Top) /\ AllKept(Top.var, heap)  BY TopFacts
<1>2. Top.var = [car |-> Top.var.car, cdr |-> Top.var.cdr]  BY <1>1 DEF FrameOK
<1> DEFINE v == Top.var
<1>3. Kept(v.car, heap) /\ Kept(v.cdr, heap)
  <2>1. \A x, y : Range([car |-> x, cdr |-> y]) = {x, y}  BY DEF Range
  <2>2. AllKept(v, heap) /\ v = [car |-> v.car, cdr |-> v.cdr]  BY <1>1, <1>2
  <2> HIDE DEF v
  <2>3. v.car \in Range(v) /\ v.cdr \in Range(v)  BY <2>1, <2>2
  <2> QED BY <2>2, <2>3 DEF AllKept
<1>4. ASSUME NEW at \in {"car", "cdr", "dotted"}, NEW x, NEW y,
             NEW f, f = Continue(at, [car |-> x, cdr |-> y])
      PROVE  FrameOK(f) /\ f.fn # "conses" /\ RootNames(f) = <<"car", "cdr">>
  <2> DEFINE w == [car |-> x, cdr |-> y]
  <2>1. f = [fn |-> Top.fn, at |-> at, var |-> w, pops |-> Top.pops,
             entered |-> Top.entered, saved |-> Top.saved]
    BY <1>4, ContinueFacts
  <2>2. w = [car |-> w.car, cdr |-> w.cdr]  OBVIOUS
  <2> HIDE DEF w
  <2>3. f = [fn |-> f.fn, at |-> f.at, var |-> f.var, pops |-> f.pops,
             entered |-> f.entered, saved |-> f.saved]
        /\ f.fn = "read_pair" /\ f.at = at /\ f.var = w
    BY <2>1
  <2> QED BY <2>2, <2>3 DEF FrameOK, RootNames
<1>5. Top.at = "start" => RootNames(Top) = << >>  BY DEF RootNames
<1>6. Top.at # "start" => RootNames(Top) = <<"car", "cdr">>  BY DEF RootNames
<1> QED BY <1>2, <1>3, <1>4, <1>5, <1>6

LEMMA PairInvokeKeeps ==
  ASSUME ReaderInv, stack # << >>, Top.fn = "read_pair", NEW at \in {"car", "cdr", "dotted"},
         NEW x, Kept(x, heap), NEW y, Kept(y, heap), NEW rooted,
         \/ Top.at = "start" /\ rooted = <<"car", "cdr">>
         \/ Top.at # "start" /\ rooted = << >>,
         NEW callee \in {ReadFrame, PairFrame}, NEW next \in Positions,
         Invoke(at, [car |-> x, cdr |-> y], rooted, callee, next)
  PROVE  ReaderInv'
<1> DEFINE v == [car |-> x, cdr |-> y]
<1>1. AllKept(v, heap)
  <2>1. Range(v) = {x, y}  BY DEF Range
  <2> QED BY <2>1 DEF AllKept
<1>2. /\ FrameOK(Continue(at, v)) /\ Continue(at, v).fn # "conses"
      /\ RootNames(Continue(at, v)) = <<"car", "cdr">>
  BY PairFacts
<1>3. IsSeq(rooted)  BY Tuples
<1>4. Invoke(at, v, rooted, callee, next)  OBVIOUS
<1> HIDE DEF v
<1>5. Roots(at, v, rooted)  BY <1>2, PairFacts DEF Roots
<1> QED BY <1>1, <1>2, <1>3, <1>4, <1>5, InvokeKeeps

LEMMA PairConsKeeps ==
  ASSUME ReaderInv, stack # << >>, Top.fn = "read_pair", Top.at # "start",
         NEW next \in Positions, read_pair_cons(next)
  PROVE  ReaderInv'
<1>1. /\ cons(Top.var.car, ret) /\ Return(NewAddr) /\ roots' = Pop(2) /\ pos' = next
      /\ in' = in
  BY DEF read_pair_cons
<1>2. Whole(heap') /\ CallersKept(stack, heap') /\ Kept(NewAddr, heap')
  <2>1. \A p \in {Top.var.car, ret} : Kept(p, heap)  BY PairFacts DEF ReaderInv
  <2>2. /\ gc_alloc(Pair(Top.var.car, ret), {Top.var.car, ret})
        /\ Pair(Top.var.car, ret) # Freed
        /\ Pointers(Pair(Top.var.car, ret)) \subseteq {Top.var.car, ret}
    BY <1>1, NewObjects
  <2> QED BY <2>1, <2>2, AllocKeeps
<1>3. roots' = Below
  <2>1. RootNames(Top) = <<"car", "cdr">> /\ Len(<<"car", "cdr">>) = 2  BY PairFacts, Tuples
  <2> QED BY <1>1, <2>1 DEF Below, WithoutBlock, Pop
<1> QED BY <1>1, <1>2, <1>3, ReturnKeeps DEF Reads

LEMMA PairActions == ReaderInv /\ ReadPair => ReaderInv'
<1> SUFFICES ASSUME ReaderInv, ReadPair PROVE ReaderInv'
  OBVIOUS
<1> DEFINE v == Top.var
<1>0. Kept(ret, heap) /\ pos \in Positions /\ place \in Positions  BY HereFacts, TextFacts DEF ReaderInv
<1>1. CASE read_pair_end
  <2>1. stack # << >> /\ Top.fn = "read_pair" /\ Top.at = "start" /\ Finish(the_empty_list, place + 1)
    BY <1>1, AtFacts DEF read_pair_end
  <2>2. c # EOF  BY <1>1, EofIsNoCharacter DEF read_pair_end, Punctuation
  <2>3. place + 1 \in Positions  BY <2>2, HereFacts
  <2>4. Return(the_empty_list) /\ heap' = heap /\ roots' = roots /\ Reads
    BY <2>1, <2>3 DEF Finish, OnlyTheStack, Reads
  <2>5. roots' = Below  BY <2>1, <2>4, PairFacts, NoRoots
  <2> QED BY <2>1, <2>4, <2>5, HeapStays, ReadIsOutside, ReturnKeeps
<1>2. CASE read_pair_car
  <2>1. /\ stack # << >> /\ Top.fn = "read_pair" /\ Top.at = "start"
        /\ Invoke("car", v, <<"car", "cdr">>, ReadFrame, place)
    BY <1>2, AtFacts DEF read_pair_car
  <2>2. v = [car |-> v.car, cdr |-> v.cdr] /\ Kept(v.car, heap) /\ Kept(v.cdr, heap)
    BY <2>1, PairFacts
  <2> HIDE DEF v
  <2>3. Invoke("car", [car |-> v.car, cdr |-> v.cdr], <<"car", "cdr">>, ReadFrame, place)
    BY <2>1, <2>2, Zenon
  <2> QED BY <1>0, <2>1, <2>2, <2>3, PairInvokeKeeps
<1>3. ASSUME stack # << >>, Top.fn = "read_pair"
      PROVE  WithCar = [car |-> ret, cdr |-> v.cdr] /\ Kept(v.cdr, heap)
  <2>1. v = [car |-> v.car, cdr |-> v.cdr] /\ Kept(v.cdr, heap)  BY <1>3, PairFacts
  <2> HIDE DEF v
  <2>2. [v EXCEPT !.car = ret] = [car |-> ret, cdr |-> v.cdr]  BY <2>1
  <2> QED BY <2>1, <2>2 DEF WithCar, v
<1>4. CASE read_pair_cdr
  <2>1. /\ stack # << >> /\ Top.fn = "read_pair" /\ Top.at = "car"
        /\ Invoke("cdr", WithCar, << >>, PairFrame, place)
    BY <1>4, AtFacts DEF read_pair_cdr
  <2>2. Invoke("cdr", [car |-> ret, cdr |-> v.cdr], << >>, PairFrame, place)
    BY <1>3, <2>1, Zenon
  <2> HIDE DEF v
  <2> QED BY <1>0, <1>3, <2>1, <2>2, PairInvokeKeeps
<1>5. CASE read_pair_dot
  <2>1. stack # << >> /\ Top.fn = "read_pair" /\ Top.at = "car"
    BY <1>5, AtFacts DEF read_pair_dot
  <2>2. CASE Exit  BY <2>2, EndKeeps DEF Exit
  <2>3. CASE Invoke("dotted", WithCar, << >>, ReadFrame, place + 1)
    <3>1. c # EOF  BY <1>5, EofIsNoCharacter DEF read_pair_dot, Punctuation
    <3>2. place + 1 \in Positions  BY <3>1, HereFacts
    <3>3. Invoke("dotted", [car |-> ret, cdr |-> v.cdr], << >>, ReadFrame, place + 1)
      BY <1>3, <2>1, <2>3, Zenon
    <3> HIDE DEF v
    <3> QED BY <1>0, <1>3, <2>1, <3>2, <3>3, PairInvokeKeeps
  <2> QED BY <1>5, <2>2, <2>3 DEF read_pair_dot
<1>6. CASE read_pair_dotted
  <2>1. stack # << >> /\ Top.fn = "read_pair" /\ Top.at = "dotted"
    BY <1>6, AtFacts DEF read_pair_dotted
  <2>2. CASE Exit  BY <2>2, EndKeeps DEF Exit
  <2>3. CASE c = ")" /\ read_pair_cons(place + 1)
    <3>1. c # EOF  BY <2>3, EofIsNoCharacter DEF Punctuation
    <3>2. place + 1 \in Positions  BY <3>1, HereFacts
    <3> QED BY <2>1, <2>3, <3>2, PairConsKeeps
  <2> QED BY <1>6, <2>2, <2>3 DEF read_pair_dotted
<1>7. CASE read_pair_return
  <2>1. stack # << >> /\ Top.fn = "read_pair" /\ Top.at = "cdr" /\ read_pair_cons(pos)
    BY <1>7, AtFacts DEF read_pair_return
  <2> QED BY <1>0, <2>1, PairConsKeeps
<1> QED BY <1>1, <1>2, <1>4, <1>5, <1>6, <1>7 DEF ReadPair

-----------------------------------------------------------------------------
(* The theorems *)

LEMMA ReadActions == ReaderInv /\ Read => ReaderInv'
BY NumberActions, CharacterActions, StringActions, BooleanActions, SymbolActions,
   ListActions, ErrorActions, QuotedActions, ConsesActions
   DEF Read

LEMMA StutterKeeps == ReaderInv /\ UNCHANGED vars => ReaderInv'
<1> SUFFICES ASSUME ReaderInv, UNCHANGED vars PROVE ReaderInv'
  OBVIOUS
<1>1. UNCHANGED <<heap, stack, ret, roots, in, pos>>  BY DEF vars
<1>2. Positions' = Positions  BY <1>1 DEF Positions
<1> QED BY <1>1, <1>2 DEF ReaderInv

LEMMA InitIsRight == Init => ReaderInv
<1> SUFFICES ASSUME Init PROVE ReaderInv
  OBVIOUS
<1>1. in \in Inputs /\ pos = 1  BY DEF Init, Start
<1>2. pos \in Positions
  <2>1. Len(in) \in Nat  BY <1>1, TextsAreCharacters
  <2> QED BY <1>1, <2>1 DEF Positions
<1> DEFINE o == Bindings(NULL, << >>)
<1>3. heap = <<o>> /\ ret = NULL /\ stack = <<ReadFrame>> /\ roots = << >>
  BY DEF Init, Start
<1>4. Whole(heap)
  <2>1. Pointers(o) = {NULL}
    <3>1. Range(<< >>) = {}  BY DEF Range
    <3>2. Pointers(o) = {NULL} \union Range(<< >>)
      BY DEF Pointers, Bindings, environment_find_pointers
    <3> QED BY <3>1, <3>2
  <2> HIDE DEF o
  <2>2. IsSeq(<<o>>) /\ Len(<<o>>) = 1 /\ <<o>>[1] = o  BY Tuples
  <2> DEFINE h == <<o>>
  <2>3. Kept(NULL, h)  BY <2>2, ValuesAreNoAddresses, OutsideIsKept
  <2>4. \A a \in 1..Len(h) : \A p \in Pointers(h[a]) : Kept(p, h)  BY <2>1, <2>2, <2>3
  <2> QED BY <1>3, <2>2, <2>4 DEF Whole
<1>5. Kept(ret, heap)  BY <1>3, <1>4, ValuesAreNoAddresses, OutsideIsKept DEF Whole
<1> DEFINE s == <<ReadFrame>>
<1>6. IsSeq(s) /\ Len(s) = 1 /\ s[1] = ReadFrame  BY Tuples
<1> HIDE DEF s
<1>7. FramesOK(s) /\ \A i \in 1..Len(s) : AllKept(s[i].var, heap)
  <2>1. FrameOK(ReadFrame) /\ AllKept(ReadFrame.var, heap)  BY <1>4, CalleeFacts DEF Whole
  <2> QED BY <1>6, <2>1 DEF FramesOK
<1>8. IsSeq(roots) /\ RootsMatch(s, roots)
  <2>1. IsSeq(<< >>) /\ Len(<< >>) = 0  BY Tuples
  <2>2. Sorted(<< >>, 1) /\ HasBlock(<< >>, 1, << >>)
    BY <2>1 DEF Sorted, HasBlock, Block
  <2>3. \A i \in 1..Len(s) : RootNames(s[i]) = << >> /\ i = 1  BY <1>6, CalleeFacts
  <2> QED BY <1>3, <1>6, <2>1, <2>2, <2>3 DEF RootsMatch
<1> QED BY <1>1, <1>2, <1>3, <1>4, <1>5, <1>7, <1>8 DEF ReaderInv, s

(* The reader's frames, its roots and its heap go together, and its place   *)
(* stays in the text, whatever the text is (read.c:69-288).                 *)
THEOREM ReaderIsInvariant == Spec => []ReaderInv
<1>1. ReaderInv /\ [Next]_vars => ReaderInv'
  BY ReadActions, PairActions, StutterKeeps DEF Next
<1> QED BY <1>1, InitIsRight, PTL DEF Spec

(* No collection frees an element that was read while the list around it is *)
(* not finished, a result on its way to cons, or anything they hold         *)
(* (read.c:160-204, 275).                                                  *)
THEOREM NothingReadIsFreed == Spec => []NoUseAfterFree
<1>1. ReaderInv => NoUseAfterFree
  <2> SUFFICES ASSUME ReaderInv, NEW p \in Held \union UNION {Pointers(heap[a]) : a \in Live}, p \in Addr
               PROVE  p \in Live
    BY DEF NoUseAfterFree
  <2>1. DOMAIN heap = 1..Len(heap) /\ DOMAIN stack = 1..Len(stack)
    BY SeqFacts DEF ReaderInv, Whole, FramesOK
  <2>2. Kept(p, heap)
    <3>1. CASE p = ret  BY <3>1 DEF ReaderInv
    <3>2. CASE \E i \in 1..Len(stack) : p \in Range(stack[i].var)
      BY <3>2 DEF ReaderInv, AllKept
    <3>3. CASE \E a \in Live : p \in Pointers(heap[a])
      <4>1. PICK a \in Live : p \in Pointers(heap[a])  BY <3>3
      <4>2. a \in 1..Len(heap)  BY <2>1 DEF Live, Addr
      <4> QED BY <4>1, <4>2 DEF ReaderInv, Whole
    <3> DEFINE A == {Range(stack[i].var) : i \in DOMAIN stack}
               B == {Pointers(heap[a]) : a \in Live}
    <3>0. p \in ({ret} \union UNION A) \union UNION B  BY DEF Held
    <3>4. p = ret \/ (\E S \in A : p \in S) \/ \E S \in B : p \in S
      <4> HIDE DEF A, B
      <4> QED BY <3>0
    <3>5. (\E S \in A : p \in S)
          => \E i \in 1..Len(stack) : p \in Range(stack[i].var)
      BY <2>1
    <3>6. (\E S \in B : p \in S) => \E a \in Live : p \in Pointers(heap[a])
      OBVIOUS
    <3> HIDE DEF A, B
    <3> QED BY <3>1, <3>2, <3>3, <3>4, <3>5, <3>6
  <2> QED BY <2>2 DEF Kept, Live, Addr
<1> QED BY <1>1, ReaderIsInvariant, PTL
=============================================================================
