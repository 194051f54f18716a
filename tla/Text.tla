-------------------------------- MODULE Text --------------------------------
(***************************************************************************)
(* What a string of src/util/string.h promises: a text that characters and *)
(* C strings are appended to, without a limit that a caller would notice.  *)
(***************************************************************************)
EXTENDS Naturals, Sequences

CONSTANTS Char, NUL, CStrings

VARIABLE text

Init == text = << >>

AppendChar(c) == text' = Append(text, c)
AppendCString(t) == text' = text \o t

(* The length of the C string that starts where the text does: a NUL, which *)
(* a text may contain, ends it.                                             *)
IsCLength(n) ==
  /\ n \in 0..Len(text)
  /\ \A i \in 1..n : text[i] # NUL
  /\ n < Len(text) => text[n + 1] = NUL
Concat == \E n \in 0..Len(text) :
  IsCLength(n) /\ text' = SubSeq(text, 1, n) \o SubSeq(text, 1, n)

Next ==
  \/ \E c \in Char : AppendChar(c)
  \/ \E t \in CStrings : AppendCString(t)
  \/ Concat

Spec == Init /\ [][Next]_text
=============================================================================
