------------------------------ MODULE Numbers ------------------------------
(***************************************************************************)
(* The procedures on numbers of src/model/procedures.c, and those between   *)
(* numbers, strings and characters, with the widths of C's types.          *)
(*                                                                         *)
(* A number is a long, but quotient and remainder take their operands as    *)
(* ints, atoi gives an int, a character is a char, and number->string       *)
(* prints into a buffer of fixed size.  Signed overflow wraps around, as    *)
(* it does in the code that the compiler makes of these loops; a division   *)
(* that the processor cannot do ends the process.                          *)
(***************************************************************************)
EXTENDS Integers, Sequences, SequencesExt

CONSTANTS
  LongWidth, IntWidth, CharWidth,   (* in bits, the first the largest       *)
  BufferSize,                       (* of val, in number->string            *)
  Operands,                         (* the lists of numbers given           *)
  Texts                             (* the strings given: a sign, digits    *)

VARIABLES
  proc,     (* the procedure called                                         *)
  given,    (* its arguments                                                *)
  args,     (* those it has not looked at                                   *)
  result,   (* its result so far, for comparisons the number before         *)
  pc,       (* running, or how it has ended                                 *)
  back      (* whether it converts back what another one converted          *)

vars == <<proc, given, args, result, pc, back>>

Ints(w) == -(2^(w - 1)) .. (2^(w - 1) - 1)
Wrap(n, w) == ((n + 2^(w - 1)) % 2^w) - 2^(w - 1)
long(n) == Wrap(n, LongWidth)
int(n) == Wrap(n, IntWidth)
char(n) == Wrap(n, CharWidth)

(* A string: a number in decimal, or what is left of it.                    *)
Decimal(n) ==
  LET digits[m \in Nat] == IF m < 10 THEN <<m>> ELSE Append(digits[m \div 10], m % 10)
  IN  [minus |-> n < 0, digits |-> digits[IF n < 0 THEN -n ELSE n]]
Signed(minus, n) == IF minus THEN -n ELSE n
Value(text) == Signed(text.minus, FoldLeft(LAMBDA n, d : 10 * n + d, 0, text.digits))

-----------------------------------------------------------------------------

Sums == {"+", "-", "*"}
Comparisons == {"=", "<", ">"}
Divisions == {"quotient", "remainder"}
Conversions == {"number->string", "integer->char"}

Arity(p) ==
  CASE p \in {"+", "*"} -> 0..3
    [] p \in Comparisons \union {"-"} -> 1..3
    [] p \in Divisions -> {2}
    [] p \in Conversions -> {1}

(* The numbers that a loop starts from.                                     *)
First(p, s) == IF p \in Comparisons \union {"-"} THEN s[1] ELSE IF p = "*" THEN 1 ELSE 0
Init ==
  /\ pc = "running" /\ back = FALSE
  /\ \/ /\ proc \in Sums \union Comparisons \union Divisions \union Conversions
        /\ given \in {s \in Operands : Len(s) \in Arity(proc)}
        /\ result = First(proc, given)
        /\ args = IF proc \in Comparisons \union {"-"} THEN Tail(given) ELSE given
     \/ /\ proc = "string->number" /\ given \in Texts /\ args = given /\ result = 0

Running(p) == pc = "running" /\ proc = p
Continue(n) == result' = n /\ args' = Tail(args) /\ UNCHANGED <<proc, given, pc, back>>
Return(v) == result' = v /\ pc' = "returned" /\ UNCHANGED <<proc, given, args, back>>

add_procedure ==
  /\ Running("+")
  /\ IF args # << >> THEN Continue(long(result + Head(args))) ELSE Return(result)
subtract_procedure ==
  /\ Running("-")
  /\ IF args # << >> THEN Continue(long(result - Head(args)))
     ELSE Return(IF Len(given) = 1 THEN long(- result) ELSE result)
multiply_procedure ==
  /\ Running("*")
  /\ IF args # << >> THEN Continue(long(result * Head(args))) ELSE Return(result)

(* int num, int denom, and the division that truncates.                     *)
Quotient(n, d) ==
  Signed((n < 0) # (d < 0), Signed(n < 0, n) \div Signed(d < 0, d))
quotient_procedure ==
  /\ proc \in Divisions /\ pc = "running"
  /\ LET num == int(args[1])
         denom == int(args[2])
     IN  IF denom = 0 \/ Quotient(num, denom) \notin Ints(IntWidth)
           THEN pc' = "crashed" /\ UNCHANGED <<proc, given, args, result, back>>
           ELSE Return(IF proc = "quotient" THEN Quotient(num, denom)
                       ELSE num - denom * Quotient(num, denom))

(* The numbers are compared to the first one, or each to the one before.    *)
numeric_equals_procedure ==
  /\ Running("=")
  /\ IF args = << >> THEN Return(TRUE)
     ELSE IF Head(args) # result THEN Return(FALSE) ELSE Continue(result)
(* Mutant: always to the first one. *)
less_than_procedure_First ==
  /\ Running("<")
  /\ IF args = << >> THEN Return(TRUE)
     ELSE IF Head(args) <= result THEN Return(FALSE) ELSE Continue(result)
less_than_procedure ==
  /\ Running("<")
  /\ IF args = << >> THEN Return(TRUE)
     ELSE IF Head(args) <= result THEN Return(FALSE) ELSE Continue(Head(args))
greater_than_procedure ==
  /\ Running(">")
  /\ IF args = << >> THEN Return(TRUE)
     ELSE IF Head(args) >= result THEN Return(FALSE) ELSE Continue(Head(args))

(* snprintf keeps what fits, the terminator included.                       *)
Cut(s, room) == IF Len(s) <= room THEN s ELSE SubSeq(s, 1, room)
(* Mutant: room is kept for a sign that may not be there. *)
Printed_SignAlways(n) == [Decimal(n) EXCEPT !.digits = Cut(@, BufferSize - 2)]
Printed(n) ==
  [Decimal(n) EXCEPT !.digits = Cut(@, BufferSize - 1 - (IF n < 0 THEN 1 ELSE 0))]
integer_to_string_procedure == Running("number->string") /\ Return(Printed(args[1]))

(* atoi: strtol, which stops at the limits, to an int.                      *)
strtol(text) ==
  LET n == Value(text) limit == 2^(LongWidth - 1)
  IN  IF n >= limit THEN limit - 1 ELSE IF n < - limit THEN - limit ELSE n
string_to_integer_procedure == Running("string->number") /\ Return(int(strtol(args)))

integer_to_char_procedure == Running("integer->char") /\ Return(char(args[1]))
char_to_integer_procedure == Running("char->integer") /\ Return(args)

(* The program converts a result back.                                      *)
ConvertBack ==
  /\ pc = "returned" /\ proc \in Conversions
  /\ proc' = IF proc = "number->string" THEN "string->number" ELSE "char->integer"
  /\ args' = result /\ pc' = "running" /\ back' = TRUE
  /\ UNCHANGED <<given, result>>

Next ==
  \/ add_procedure \/ subtract_procedure \/ multiply_procedure
  \/ quotient_procedure
  \/ numeric_equals_procedure \/ less_than_procedure \/ greater_than_procedure
  \/ integer_to_string_procedure \/ string_to_integer_procedure
  \/ integer_to_char_procedure \/ char_to_integer_procedure
  \/ ConvertBack
  \/ pc # "running" /\ UNCHANGED vars

Spec == Init /\ [][Next]_vars

-----------------------------------------------------------------------------

Returned(S) == pc = "returned" /\ proc \in S

(* A sum, difference or product that fits is exact, even if a partial       *)
(* result on the way did not fit (procedures.c:13-48).                      *)
Exact ==
  CASE proc = "+" -> FoldLeft(LAMBDA n, m : n + m, 0, given)
    [] proc = "*" -> FoldLeft(LAMBDA n, m : n * m, 1, given)
    [] proc = "-" -> IF Len(given) = 1 THEN - given[1]
                     ELSE FoldLeft(LAMBDA n, m : n - m, given[1], Tail(given))
ExactIfItFits ==
  Returned(Sums) => result \in Ints(LongWidth) /\
                    (Exact \in Ints(LongWidth) => result = Exact)

(* Operands that fit in an int are divided as Scheme divides them: the      *)
(* remainder is smaller than the divisor and has the sign of the dividend.  *)
(* The process ends only for the divisor 0, or for the least number divided *)
(* by -1, or where larger operands are cut to these (procedures.c:49-66).   *)
Divides(n, d, q, r) ==
  n = q * d + r /\ Signed(r < 0, r) < Signed(d < 0, d) /\ (r = 0 \/ (r < 0) = (n < 0))
DivisionIsRight ==
  proc \in Divisions =>
    LET n == int(given[1])  d == int(given[2])
    IN  /\ pc = "crashed" <=> pc # "running" /\ (d = 0 \/ (d = -1 /\ -n \notin Ints(IntWidth)))
        /\ pc = "returned" =>
             \E m \in Ints(IntWidth) : IF proc = "quotient" THEN Divides(n, d, result, m)
                             ELSE Divides(n, d, m, result)

(* A comparison of several numbers holds if it does of each two of them in  *)
(* their order (procedures.c:67-117).                                       *)
ComparesAllPairs ==
  Returned(Comparisons) =>
    result = \A i, j \in DOMAIN given :
               i < j => CASE proc = "=" -> given[i] = given[j]
                          [] proc = "<" -> given[i] < given[j]
                          [] proc = ">" -> given[i] > given[j]

(* What the procedures on numbers promise, together.                        *)
ArithmeticIsRight == ExactIfItFits /\ DivisionIsRight /\ ComparesAllPairs

(* number->string writes the number if it has room for it, and otherwise    *)
(* all but its last digit; read back, it is the same number if that is an   *)
(* int (procedures.c:175-187).                                              *)
NumbersReadBack ==
  /\ Returned({"number->string"}) => Value(result) \in {given[1], Quotient(given[1], 10)}
  /\ Returned({"number->string"}) /\ given[1] > -(10^(BufferSize - 2)) => Value(result) = given[1]
  /\ Returned({"string->number"}) /\ back /\ given[1] \in Ints(IntWidth) =>
       result = given[1]

(* A character has the number that it was made of, if that is one.          *)
CharactersReadBack ==
  Returned({"char->integer"}) /\ given[1] \in Ints(CharWidth) => result = given[1]

(* What the conversions promise, together.                                  *)
ConversionsReadBack == NumbersReadBack /\ CharactersReadBack
=============================================================================
