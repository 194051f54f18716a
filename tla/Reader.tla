------------------------------- MODULE Reader -------------------------------
(***************************************************************************)
(* The reader of src/read.c on the machine of Machine.tla: a recursive     *)
(* descent over a stream of characters that allocates what it has read     *)
(* while the lists around it wait in rooted variables of its C frames.     *)
(*                                                                         *)
(* The stream is a text and a position in it; ungetc moves the position    *)
(* back, twice in a row before a symbol + or - (read.c:22, 270), which C   *)
(* does not promise and the C library here allows.  Symbols are values     *)
(* outside of the heap, kept by the vm.                                    *)
(***************************************************************************)
EXTENDS Machine

CONSTANTS
  Letter,        (* the characters for which isalpha holds                 *)
  EOF,
  symbol,        (* from names, sequences of characters, to symbols        *)
  Inputs,        (* the texts that may be read                             *)
  MaxDepth       (* how many calls of read and read_pair the C stack holds *)

(* Symbols are outside of the heap. *)
ASSUME SymbolsAreNoAddresses ==
  /\ symbol[<<"q", "u", "o", "t", "e">>] \notin Nat
  /\ \A text \in Inputs : \A last \in DOMAIN text : \A first \in 1..last :
       symbol[SubSeq(text, first, last)] \notin Nat

VARIABLES in, pos, outcome
vars == <<heap, stack, ret, roots, env, environment_stack, in, pos, outcome>>

Space == {" ", "\n", "\t"}
Digit == {"0", "1", "2", "3", "4", "5", "6", "7", "8", "9"}
is_delimiter(c) == c \in Space \union {EOF, "(", ")", "\"", ";"}
Initial == Letter \union {"*", "/", ">", "<", "=", "?", "!"}
Subsequent == Initial \union Digit \union {"+", "-"}
Punctuation == {"(", ")", "'", "\"", ";", "#", ".", "\\"}

(* EOF is none of the characters, of the texts or of those looked for.      *)
ASSUME TextsAreCharacters ==
  \A text \in Inputs : text \in Seq(Range(text)) /\ EOF \notin Range(text)
ASSUME EofIsNoCharacter ==
  EOF \notin Space \union Subsequent \union Punctuation
               \union {"a", "b", "c", "e", "f", "i", "l", "n", "p", "s", "t", "w"}

-----------------------------------------------------------------------------
(* The stream *)

Ch(p) == IF p <= Len(in) THEN in[p] ELSE EOF
After(p) == IF p <= Len(in) THEN p + 1 ELSE p

(* Where the characters of S, from p on, are at their end. *)
EndOf(p, S) ==
  CHOOSE q \in p..(Len(in) + 1) : Ch(q) \notin S /\ \A r \in p..(q - 1) : Ch(r) \in S

(* Mutant: what follows a comment's line is not looked at again. *)
eat_whitespace_OneLine ==
  LET eat[p \in 1..(Len(in) + 1)] ==
        IF Ch(p) \in Space THEN eat[p + 1]
        ELSE IF Ch(p) = ";" THEN After(EndOf(p, Range(in) \ {"\n"}))
        ELSE p
  IN  eat[pos]
eat_whitespace ==
  LET eat[p \in 1..(Len(in) + 1)] ==
        IF Ch(p) \in Space THEN eat[p + 1]
        ELSE IF Ch(p) = ";" THEN eat[After(EndOf(p, Range(in) \ {"\n"}))]
        ELSE p
  IN  eat[pos]

-----------------------------------------------------------------------------
(* Tokens: what is read from a place on, and where it ends; the empty set   *)
(* where the reader prints an error and exits.                              *)

Token(value, next) == {[value |-> value, next |-> next]}

read_number(p) ==
  LET minus == Ch(p) = "-"
      first == IF minus THEN p + 1 ELSE p
      next == EndOf(first, Digit)
      digit(c) == CHOOSE d \in 0..9 : ToString(d) = c
      num == FoldLeft(LAMBDA n, c : 10 * n + digit(c), 0, SubSeq(in, first, next - 1))
  IN  IF is_delimiter(Ch(next)) THEN Token(IF minus THEN - num ELSE num, next) ELSE {}

(* The character names, each known by its first two letters. *)
Named(p) ==
  {w \in {[word |-> <<"s", "p", "a", "c", "e">>, char |-> " "],
          [word |-> <<"n", "e", "w", "l", "i", "n", "e">>, char |-> "\n"],
          [word |-> <<"t", "a", "b">>, char |-> "\t"]} :
     Ch(p) = w.word[1] /\ Ch(p + 1) = w.word[2]}
read_character(p) ==
  IF Named(p) # {}
    THEN UNION {Token(w.char, p + Len(w.word)) :
                  w \in {w \in Named(p) :
                           /\ \A i \in DOMAIN w.word : Ch(p + i - 1) = w.word[i]
                           /\ is_delimiter(Ch(p + Len(w.word)))}}
  ELSE IF Ch(p) # EOF /\ is_delimiter(Ch(p + 1)) THEN Token(Ch(p), p + 1)
  ELSE {}

Escaped(p) == Ch(p) = "\\"
read_string(p) ==
  LET from[q \in 1..(Len(in) + 2)] ==
        LET at == IF Escaped(q) THEN q + 1 ELSE q
            char == CASE Escaped(q) /\ Ch(at) = "n" -> "\n"
                      [] Escaped(q) /\ Ch(at) = "t" -> "\t"
                      [] OTHER -> Ch(at)
        IN  IF Ch(q) = "\"" THEN Token(<< >>, q + 1)
            ELSE IF Ch(at) = EOF THEN {}
            ELSE UNION {Token(<<char>> \o t.value, t.next) : t \in from[at + 1]}
  IN  from[p]

read_symbol(p) ==
  LET next == EndOf(p, Subsequent)
  IN  IF is_delimiter(Ch(next)) THEN Token(SubSeq(in, p, next - 1), next) ELSE {}

-----------------------------------------------------------------------------

ReadFrame == Frame("read", "start", << >>)
PairFrame == Frame("read_pair", "start", [car |-> NULL, cdr |-> NULL])

(* read is called, on a stream that holds the text in. *)
Start ==
  /\ pos = 1 /\ outcome = "running"
  /\ heap = <<Bindings(NULL, << >>)>> /\ env = 1 /\ environment_stack = << >>
  /\ stack = <<ReadFrame>> /\ ret = NULL /\ roots = << >>
Init == in \in Inputs /\ Start

vm == <<env, environment_stack>>
OnlyTheStack == UNCHANGED <<heap, roots, vm, in, outcome>>

End(how) ==
  /\ stack' = << >> /\ ret' = NULL /\ outcome' = how
  /\ UNCHANGED <<heap, roots, vm, in, pos>>
Exit == End("exited")

(* A call, with these variables rooted before: the C stack may be full. *)
Invoke(at, v, rooted, callee, next) ==
  IF Len(stack) = MaxDepth THEN End("overflowed")
  ELSE /\ Call(at, v, callee)
       /\ roots' = Push(rooted) /\ pos' = next
       /\ UNCHANGED <<heap, vm, in, outcome>>

(* read, up to the first character that is not layout. *)
place == eat_whitespace
c == Ch(place)
Reading == At("read", "start")
Finish(v, next) == Return(v) /\ pos' = next /\ OnlyTheStack

(* A token makes an object; without one, the process ends. *)
Make(t) == Return(NewAddr) /\ pos' = t.next /\ UNCHANGED <<roots, vm, in, outcome>>
NoToken(tokens) == tokens = {} /\ Exit

IsNumber == c \in Digit \/ (c = "-" /\ Ch(place + 1) \in Digit)
read_a_number ==
  /\ Reading /\ IsNumber
  /\ \/ \E t \in read_number(place) : make_number(t.value) /\ Make(t)
     \/ NoToken(read_number(place))

Literal(ch) == Reading /\ c = "#" /\ Ch(place + 1) = ch
read_boolean ==
  \/ Literal("t") /\ Finish(true, place + 2)
  \/ Literal("f") /\ Finish(false, place + 2)
read_a_character ==
  /\ Literal("\\")
  /\ \/ \E t \in read_character(place + 2) : make_character(t.value) /\ Make(t)
     \/ NoToken(read_character(place + 2))
read_unknown_literal ==
  Reading /\ c = "#" /\ Ch(place + 1) \notin {"t", "f", "\\"} /\ Exit

read_a_string ==
  /\ Reading /\ c = "\""
  /\ \/ \E t \in read_string(place + 1) : make_string(t.value) /\ Make(t)
     \/ NoToken(read_string(place + 1))

(* read_pair takes the place of read, which has nothing more to do. *)
read_list == Reading /\ c = "(" /\ Invoke("list", Top.var, << >>, PairFrame, place + 1)
read_list_return == At("read", "list") /\ Finish(ret, pos)

(* make_symbol, which allocates if the symbol is new. *)
IsSymbol == c \in Initial \/ (c \in {"+", "-"} /\ is_delimiter(Ch(place + 1)))
read_a_symbol ==
  /\ Reading /\ IsSymbol
  /\ \/ read_symbol(place) = {} /\ Exit
     \/ \E t \in read_symbol(place) :
          /\ heap' \in {heap, Collected({})}
          /\ Return(symbol[t.value]) /\ pos' = t.next
          /\ UNCHANGED <<roots, vm, in, outcome>>

(* cons(quote_symbol, cons(read(...), the_empty_list)) *)
read_quote == Reading /\ c = "'" /\ Invoke("quote", Top.var, << >>, ReadFrame, place + 1)
read_quoted ==
  /\ At("read", "quote")
  /\ stack' = Front(stack) \o <<Conses(<<symbol[<<"q", "u", "o", "t", "e">>], ret, the_empty_list>>)>>
  /\ ret' = NULL /\ UNCHANGED pos /\ OnlyTheStack
read_conses == conses /\ UNCHANGED <<in, pos, outcome>>
read_conses_return == conses_return /\ UNCHANGED <<in, pos, outcome>>

read_end == Reading /\ c = EOF /\ Finish(NULL, place)
read_unexpected ==
  /\ Reading /\ ~ IsNumber /\ ~ IsSymbol
  /\ c \notin {"#", "\"", "(", "'", EOF}
  /\ Exit

(* read_pair: the rest of a list, of which the opening parenthesis or an    *)
(* element has been read.  At the end of the stream it goes on like before  *)
(* any other element.                                                       *)
read_pair_end ==
  At("read_pair", "start") /\ c = ")" /\ Finish(the_empty_list, place + 1)
(* Mutant: only one of the variables is rooted. *)
read_pair_car_RootsCdrTwice ==
  /\ At("read_pair", "start") /\ c # ")"
  /\ Invoke("car", Top.var, <<"cdr", "cdr">>, ReadFrame, place)
read_pair_car ==
  /\ At("read_pair", "start") /\ c # ")"
  /\ Invoke("car", Top.var, <<"car", "cdr">>, ReadFrame, place)
WithCar == [Top.var EXCEPT !.car = ret]
read_pair_cdr ==
  /\ At("read_pair", "car") /\ c # "."
  /\ Invoke("cdr", WithCar, << >>, PairFrame, place)
read_pair_dot ==
  /\ At("read_pair", "car") /\ c = "."
  /\ IF is_delimiter(Ch(place + 1))
       THEN Invoke("dotted", WithCar, << >>, ReadFrame, place + 1)
       ELSE Exit
read_pair_cons(next) ==
  /\ cons(Top.var.car, ret)
  /\ Return(NewAddr) /\ roots' = Pop(2) /\ pos' = next
  /\ UNCHANGED <<vm, in, outcome>>
read_pair_dotted ==
  /\ At("read_pair", "dotted")
  /\ IF c = ")" THEN read_pair_cons(place + 1) ELSE Exit
read_pair_return == At("read_pair", "cdr") /\ read_pair_cons(pos)

Done == stack = << >>
Read ==
  \/ read_a_number \/ read_boolean \/ read_a_character \/ read_unknown_literal
  \/ read_a_string \/ read_list \/ read_list_return \/ read_a_symbol
  \/ read_quote \/ read_quoted \/ read_conses \/ read_conses_return
  \/ read_end \/ read_unexpected
ReadPair ==
  \/ read_pair_end \/ read_pair_car \/ read_pair_cdr \/ read_pair_dot
  \/ read_pair_dotted \/ read_pair_return
Next == Read \/ ReadPair \/ (Done /\ UNCHANGED vars)

Spec == Init /\ [][Next]_vars

-----------------------------------------------------------------------------

(* Elements that have been read are kept alive by the frames of the lists   *)
(* around them while the rest of the text is read and allocated, and so is  *)
(* each result on its way from read to cons; and so is all that they hold   *)
(* themselves (read.c:160-204, 275).                                       *)
Held == {ret} \union UNION {Range(stack[i].var) : i \in DOMAIN stack}
NoUseAfterFree ==
  \A p \in Held \union UNION {Pointers(heap[a]) : a \in Live} : p \in Addr => p \in Live
=============================================================================
