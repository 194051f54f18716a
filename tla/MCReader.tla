------------------------------ MODULE MCReader ------------------------------
(***************************************************************************)
(* Texts for the reader, and what they mean: a grammar of data, given as   *)
(* the data that a text spells, by splitting it in every possible way; and *)
(* the texts that the writer puts out for small data.                      *)
(***************************************************************************)
EXTENDS Reader, Writer

CONSTANT Symbols    (* enough of them for the names below                  *)
VARIABLE written    (* the datum that the writer made the text of, if so   *)

Texts(S, n) == UNION {[1..k -> S] : k \in 0..n}
Names ==
  {<<"a">> \o s : s \in Texts({"a", "1"}, 3) \union Texts({"a"}, 5)} \union
  {<<"+">>, <<"-">>, <<"q", "u", "o", "t", "e">>}

(* The symbols of these names, and one more that all the other names share. *)
Known ==
  FoldSet(LAMBDA name, f : f @@ (name :> CHOOSE s \in Symbols \ Range(f) : TRUE), << >>, Names)
MCSymbol ==
  [name \in Seq(STRING) |-> IF name \in Names THEN Known[name]
                           ELSE CHOOSE s \in Symbols \ Range(Known) : TRUE]
MCNameOf == AntiFunction(Known)

-----------------------------------------------------------------------------
(* The grammar.  What a text spells is a datum, and whether a delimiter     *)
(* must follow it.                                                         *)

First(u, k) == SubSeq(u, 1, k)
From(u, k) == SubSeq(u, k, Len(u))
Splits(u) == 0..Len(u)

RECURSIVE Layout(_)
Layout(u) ==
  \/ u = << >>
  \/ Head(u) \in Space /\ Layout(Tail(u))
  \/ /\ Head(u) = ";"
     /\ \E k \in DOMAIN u :
          u[k] = "\n" /\ (\A i \in 1..(k - 1) : u[i] # "\n") /\ Layout(From(u, k + 1))
(* Up to the end of the stream, where a comment need not end.               *)
LayoutToEnd(u) == Layout(u) \/ Layout(Append(u, "\n"))

RECURSIVE Decimal(_)
Decimal(u) ==
  IF u = << >> THEN 0
  ELSE 10 * Decimal(First(u, Len(u) - 1)) + (CHOOSE d \in 0..9 : ToString(d) = u[Len(u)])
Digits(u) == u # << >> /\ Range(u) \subseteq Digit

RECURSIVE StringChars(_)
StringChars(u) ==
  IF u = << >> THEN {<< >>}
  ELSE IF Head(u) = "\"" THEN {}
  ELSE IF Head(u) # "\\" THEN {<<Head(u)>> \o s : s \in StringChars(Tail(u))}
  ELSE IF Len(u) = 1 THEN {}
  ELSE LET ch == CASE u[2] = "n" -> "\n" [] u[2] = "t" -> "\t" [] OTHER -> u[2]
       IN  {<<ch>> \o s : s \in StringChars(From(u, 3))}

Spelling(d, open) == [datum |-> d, open |-> open]
Atoms(u) ==
  (IF Digits(u) THEN {Spelling(Number(Decimal(u)), TRUE)} ELSE {}) \union
  (IF u # << >> /\ Head(u) = "-" /\ Digits(Tail(u))
     THEN {Spelling(Number(- Decimal(Tail(u))), TRUE)} ELSE {}) \union
  (IF u \in {<<"+">>, <<"-">>} \/ (u # << >> /\ Head(u) \in Initial /\ Range(u) \subseteq Subsequent)
     THEN {Spelling(symbol[u], TRUE)} ELSE {}) \union
  (IF u = <<"#", "t">> THEN {Spelling(true, FALSE)} ELSE {}) \union
  (IF u = <<"#", "f">> THEN {Spelling(false, FALSE)} ELSE {}) \union
  (IF Len(u) = 3 /\ First(u, 2) = <<"#", "\\">> THEN {Spelling(Character(u[3]), TRUE)} ELSE {}) \union
  (IF u = <<"#", "\\", "s", "p", "a", "c", "e">> THEN {Spelling(Character(" "), TRUE)} ELSE {}) \union
  (IF u = <<"#", "\\", "t", "a", "b">> THEN {Spelling(Character("\t"), TRUE)} ELSE {}) \union
  (IF Len(u) > 1 /\ Head(u) = "\"" /\ Last(u) = "\""
     THEN {Spelling(String(s), FALSE) : s \in StringChars(SubSeq(u, 2, Len(u) - 1))} ELSE {})

Fits(x, ch) == x.open => is_delimiter(ch)
Follows(u, k) == IF k < Len(u) THEN u[k + 1] ELSE ")"

RECURSIVE Spelled(_), Bare(_), Items(_), Dotted(_)
Spelled(u) == UNION {Bare(From(u, k + 1)) : k \in {k \in Splits(u) : Layout(First(u, k))}}
Bare(u) ==
  Atoms(u) \union
  (IF u # << >> /\ Head(u) = "'"
     THEN {Spelling(DataPair(symbol[<<"q", "u", "o", "t", "e">>],
                             DataPair(x.datum, the_empty_list)), x.open) : x \in Spelled(Tail(u))}
     ELSE {}) \union
  (IF Len(u) > 1 /\ Head(u) = "(" /\ Last(u) = ")"
     THEN {Spelling(d, FALSE) : d \in Items(SubSeq(u, 2, Len(u) - 1))}
     ELSE {})
(* What stands between parentheses, and what may stand after an element.    *)
Items(u) ==
  (IF Layout(u) THEN {the_empty_list} ELSE {}) \union
  UNION {UNION {{DataPair(x.datum, d) : d \in Items(From(u, k + 1)) \union Dotted(From(u, k + 1))} :
                  x \in {x \in Spelled(First(u, k)) : Fits(x, Follows(u, k))}} : k \in DOMAIN u}
Dotted(u) ==
  UNION {LET v == From(u, k + 1) IN
           UNION {{x.datum : x \in {x \in Spelled(First(v, j)) : Fits(x, Follows(v, j))}} :
                    j \in {j \in Splits(v) : Layout(From(v, j + 1)) /\ is_delimiter(Follows(v, 0))}} :
         k \in {k \in DOMAIN u : u[k] = "." /\ Layout(First(u, k - 1))}}

-----------------------------------------------------------------------------

RECURSIVE IsIncomplete(_)
IsIncomplete(d) ==
  IF d = NULL THEN TRUE
  ELSE ~ (d \in Outside) /\ d.kind = "pair" /\ (IsIncomplete(d.car) \/ IsIncomplete(d.cdr))

(* The reader is right about every text of GrammarInputs: what it returns   *)
(* is what the text up to there spells; where it exits, or reads an         *)
(* unfinished list until the C stack is full, no beginning of the text      *)
(* spells anything; NULL comes of a text of layout only, or, inside of a    *)
(* quotation, of one that ends after the quotation mark (read.c:157-288).   *)
ReadsTheGrammar ==
  Done /\ written = NULL =>
    IF outcome # "running"
      THEN \A k \in Splits(in) : \A x \in Spelled(First(in, k)) : ~ Fits(x, Ch(k + 1))
    ELSE IF IsIncomplete(Datum(ret))
      THEN /\ pos = Len(in) + 1
           /\ \E k \in Splits(in) :
                /\ LayoutToEnd(From(in, k + 1))
                /\ IF ret = NULL THEN k = 0 ELSE k > 0 /\ in[k] = "'"
    ELSE \E x \in Spelled(First(in, pos - 1)) : x.datum = Datum(ret) /\ Fits(x, Ch(pos))

GrammarInputs ==
  Texts({"(", ")", "'", ";", "\n", "a", "1"}, 4) \union
  Texts({"-", "+", "1", " "}, 3) \union
  {<<"(">> \o s \o <<")">> : s \in Texts({"(", ")", ".", "a", "\n"}, 6)} \union
  {<<"#">> \o s : s \in Texts({"\\", "t", "s", "p", "a", "(", " "}, 3)} \union
  {<<"\"">> \o s : s \in Texts({"\"", "\\", "n", "a"}, 4)}

-----------------------------------------------------------------------------
(* What the writer puts out for small data.                                *)

Characters == {"a", "s", " ", "\n", "\t", "(", ")", ";", "\"", "\\"}
Leaves ==
  {true, false, the_empty_list} \union Range(Known) \union
  {Number(n) : n \in {0, 7, -1, 120, -1035}} \union
  {Character(ch) : ch \in Characters} \union
  {String(s) : s \in Texts({"a", "n", "\n", "\t", "\"", "\\"}, 2)}
Pairs(A, D) == {DataPair(x, y) : x \in A, y \in D}
Few == {the_empty_list, true, symbol[<<"+">>], Number(-1), Character(" "), String(<<"\"">>)}
Nested == Few \union Pairs(Few, Few)
WrittenData == Leaves \union Pairs(Leaves, Leaves) \union Pairs(Nested, Nested)

GrammarInit == written = NULL /\ Init
WrittenInit == written \in WrittenData /\ in = Text(write(written)) /\ Start
MCNext == Next /\ UNCHANGED written
MCSpec == (GrammarInit \/ WrittenInit) /\ [][MCNext]_<<vars, written>>

(* What was written on the standard output reads back as the same datum,    *)
(* all of it and nothing more: nothing in a string, a character or a dotted *)
(* list is taken for something else (write.c:6-179, read.c:69-288).         *)
WrittenReadsBack ==
  Done /\ written # NULL => outcome = "running" /\ pos = Len(in) + 1 /\ Datum(ret) = written
=============================================================================
