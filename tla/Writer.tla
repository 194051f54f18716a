------------------------------- MODULE Writer -------------------------------
(***************************************************************************)
(* The writer of src/write.c: the characters that write and display put    *)
(* out for a datum, in order, each with the stream it goes to, which is    *)
(* not always the one that the caller named.                               *)
(***************************************************************************)
EXTENDS Data

CONSTANTS
  name_of,       (* from symbols to their names, sequences of characters   *)
  eof

Outside == DOMAIN name_of \union {true, false, the_empty_list, eof}
IsA(d, kind) == d \notin Outside /\ d.kind = kind

To(stream, chars) == [i \in DOMAIN chars |-> [char |-> chars[i], to |-> stream]]
fprintf(chars) == To("stream", chars)
putchar(ch) == To("stdout", <<ch>>)

(* %ld *)
decimal(n) ==
  LET digits[k \in Nat] ==
        IF k < 10 THEN <<ToString(k)>> ELSE digits[k \div 10] \o <<ToString(k % 10)>>
  IN  IF n < 0 THEN <<"-">> \o digits[- n] ELSE digits[n]

character(ch) ==
  CASE ch = " " -> <<"s", "p", "a", "c", "e">>
    [] ch = "\n" -> <<"n", "e", "w", "l", "i", "n", "e">>
    [] ch = "\t" -> <<"t", "a", "b">>
    [] OTHER -> <<ch>>

(* The characters of a string: those that are not escaped, and the mark     *)
(* that closes it, go to the standard output (write.c:141, 145).           *)
(* Mutant: a backslash is not escaped. *)
in_string_NoBackslash(ch) ==
  CASE ch = "\n" -> fprintf(<<"\\", "n">>)
    [] ch = "\t" -> fprintf(<<"\\", "t">>)
    [] ch = "\"" -> fprintf(<<"\\", "\"">>)
    [] OTHER -> putchar(ch)
in_string(ch) ==
  CASE ch = "\\" -> fprintf(<<"\\", "\\">>)
    [] ch = "\n" -> fprintf(<<"\\", "n">>)
    [] ch = "\t" -> fprintf(<<"\\", "t">>)
    [] ch = "\"" -> fprintf(<<"\\", "\"">>)
    [] OTHER -> putchar(ch)
write_string(s) ==
  fprintf(<<"\"">>) \o FlattenSeq([i \in DOMAIN s |-> in_string(s[i])]) \o putchar("\"")

boolean(d, yes, no) == fprintf(IF d = true THEN yes ELSE no)
Mark(kind) ==
  CASE kind = "procedure" -> <<"#", "<", "p", "r", "o", "c", "e", "d", "u", "r", "e", ">">>
    [] kind = "environment" ->
         <<"#", "<", "e", "n", "v", "i", "r", "o", "n", "m", "e", "n", "t", ">">>
    [] kind = "input port" -> <<"#", "<", "i", "n", "p", "u", "t", " ", "p", "o", "r", "t", ">">>
    [] kind = "output port" ->
         <<"#", "<", "o", "u", "t", "p", "u", "t", " ", "p", "o", "r", "t", ">">>
    [] kind = "eof" -> <<"#", "<", "e", "o", "f", ">">>
InParentheses(chars) == fprintf(<<"(">> \o chars \o <<")">>)

(* What write and display put out for anything but a pair. *)
write_leaf(d) ==
  CASE d \in {true, false} -> boolean(d, <<"#", "t">>, <<"#", "f">>)
    [] d = the_empty_list -> fprintf(<<"(", ")">>)
    [] d = eof -> InParentheses(Mark("eof"))
    [] d \in DOMAIN name_of -> fprintf(name_of[d])
    [] IsA(d, "number") -> fprintf(decimal(d.value))
    [] IsA(d, "character") -> fprintf(<<"#", "\\">> \o character(d.value))
    [] IsA(d, "string") -> write_string(d.value)
    [] IsA(d, "procedure") \/ IsA(d, "environment") -> fprintf(Mark(d.kind))
    [] OTHER -> InParentheses(Mark(d.kind))
display_leaf(d) ==
  CASE d \in {true, false} ->
         boolean(d, <<"t", "r", "u", "e">>, <<"f", "a", "l", "s", "e">>)
    [] IsA(d, "character") -> fprintf(<<d.value>>)
    [] IsA(d, "string") -> fprintf(d.value)
    [] IsA(d, "procedure") \/ IsA(d, "environment") -> InParentheses(Mark(d.kind))
    [] OTHER -> write_leaf(d)

(* write_pair and display_pair, which differ in what they call: the element *)
(* and the rest of the list, or what its last pair holds after a dot.       *)
RECURSIVE print(_, _), print_pair(_, _)
print(writes, d) ==
  IF IsA(d, "pair") THEN fprintf(<<"(">>) \o print_pair(writes, d) \o fprintf(<<")">>)
  ELSE IF writes THEN write_leaf(d) ELSE display_leaf(d)
print_pair(writes, d) ==
  print(writes, d.car) \o
    (IF IsA(d.cdr, "pair") THEN fprintf(<<" ">>) \o print_pair(writes, d.cdr)
     ELSE IF d.cdr # the_empty_list THEN fprintf(<<" ", ".", " ">>) \o print(writes, d.cdr)
     ELSE << >>)

write(d) == print(TRUE, d)
display(d) == print(FALSE, d)

(* What is seen where stream is the standard output. *)
Text(output) == [i \in DOMAIN output |-> output[i].char]
=============================================================================
