------------------------------- MODULE Stacks -------------------------------
(***************************************************************************)
(* What stack.h promises: stacks are sequences, the top first.              *)
(***************************************************************************)
EXTENDS Sequences, SequencesExt

CONSTANTS Stack, Void

VARIABLES
  content,   (* the values of each stack that there is                    *)
  result     (* what the last call has returned or shown to its callback    *)

vars == <<content, result>>

Init == content = << >> /\ result = << >>

(* The stacks when s is a stack of the values c. *)
With(s, c) == [t \in DOMAIN content \union {s} |-> IF t = s THEN c ELSE content[t]]

Create(s) == s \notin DOMAIN content /\ content' = With(s, << >>) /\ result' = << >>
Push(s, v) ==
  s \in DOMAIN content /\ content' = [content EXCEPT ![s] = <<v>> \o @] /\ result' = << >>
Pop(s) ==
  /\ s \in DOMAIN content /\ content[s] # << >>
  /\ content' = [content EXCEPT ![s] = Tail(@)] /\ result' = <<Head(content[s])>>
ForEach(s) == s \in DOMAIN content /\ result' = content[s] /\ UNCHANGED content
ReverseInto(s, t) ==
  /\ s \in DOMAIN content /\ t \notin DOMAIN content
  /\ content' = With(t, Reverse(content[s])) /\ result' = << >>
Destroy(s) ==
  /\ s \in DOMAIN content
  /\ content' = [t \in DOMAIN content \ {s} |-> content[t]] /\ result' = << >>

Next == \E s \in Stack :
  \/ Create(s) \/ Pop(s) \/ ForEach(s) \/ Destroy(s)
  \/ \E v \in Void : Push(s, v)
  \/ \E t \in Stack : ReverseInto(s, t)

Spec == Init /\ [][Next]_vars
=============================================================================
