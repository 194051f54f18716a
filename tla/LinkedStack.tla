---------------------------- MODULE LinkedStack ----------------------------
(***************************************************************************)
(* stack.c: a list of entries and their number, which tells whether the     *)
(* stack is empty.  checked_free overwrites the first word of an entry,     *)
(* which is the pointer to the next one.                                   *)
(*                                                                         *)
(* Nothing is popped from an empty stack, and memory does not run out.      *)
(***************************************************************************)
EXTENDS Null, Naturals, Sequences, Functions

CONSTANTS
  Stack, Void,   (* stacks; what the pointers to void point to              *)
  Address,       (* bound: the places for entries                           *)
  mem_mix

ASSUME AddressAssumption == NULL # mem_mix /\ NULL \notin Address /\ mem_mix \notin Address

VARIABLES
  memory,        (* the entry at each address                               *)
  free,          (* the addresses where there is none                       *)
  stk,           (* top and entries of each stack that there is             *)
  shown          (* what the last call has returned or shown to its callback *)

stack_vars == <<memory, free, stk, shown>>

StackInit ==
  /\ memory = [a \in Address |-> [next |-> mem_mix, val |-> NULL]] /\ free = Address
  /\ stk = << >> /\ shown = << >>

(* The entries that a walk from a comes by; one through freed memory gets lost. *)
Walk(a) ==
  LET from[b \in Address \union {NULL, mem_mix}] ==
        IF b \in Address THEN <<b>> \o from[memory[b].next]
        ELSE IF b = NULL THEN << >> ELSE <<mem_mix>>
  IN  from[a]
Entries(s) == Walk(stk[s].top)
Values(s) == LET e == Entries(s) IN
  [i \in DOMAIN e |-> IF e[i] \in Address THEN memory[e[i]].val ELSE mem_mix]
Gone(freed) ==
  [a \in Address |-> IF a \in freed THEN [memory[a] EXCEPT !.next = mem_mix] ELSE memory[a]]

WithStack(s, header) == [t \in DOMAIN stk \union {s} |-> IF t = s THEN header ELSE stk[t]]

stack_create(s) ==
  /\ s \notin DOMAIN stk
  /\ stk' = WithStack(s, [top |-> NULL, entries |-> 0])
  /\ shown' = << >> /\ UNCHANGED <<memory, free>>
stack_is_empty(s) == stk[s].entries = 0
create_entry(a, next, val) == [memory EXCEPT ![a] = [next |-> next, val |-> val]]
stack_push(s, v) ==
  /\ s \in DOMAIN stk
  /\ \E a \in free :
       /\ memory' = create_entry(a, stk[s].top, v) /\ free' = free \ {a}
       /\ stk' = [stk EXCEPT ![s] = [top |-> a, entries |-> @.entries + 1]]
  /\ shown' = << >>
(* Mutant: the entry is freed before its link is read. *)
stack_pop_FreesFirst(s) ==
  /\ s \in DOMAIN stk /\ ~ stack_is_empty(s)
  /\ LET tmp == stk[s].top IN
       /\ memory' = Gone({tmp}) /\ free' = free \union {tmp}
       /\ stk' = [stk EXCEPT ![s] = [top |-> memory'[tmp].next, entries |-> @.entries - 1]]
       /\ shown' = <<memory[tmp].val>>
stack_pop(s) ==
  /\ s \in DOMAIN stk /\ ~ stack_is_empty(s)
  /\ LET tmp == stk[s].top IN
       /\ stk' = [stk EXCEPT ![s] = [top |-> memory[tmp].next, entries |-> @.entries - 1]]
       /\ memory' = Gone({tmp}) /\ free' = free \union {tmp}
       /\ shown' = <<memory[tmp].val>>
stack_foreach(s) ==
  s \in DOMAIN stk /\ shown' = Values(s) /\ UNCHANGED <<memory, free, stk>>
(* The new entries, at the addresses at, from the bottom to the top.        *)
stack_reverse(s, t) ==
  /\ s \in DOMAIN stk /\ t \notin DOMAIN stk
  /\ LET vals == Values(s) IN
       \E at \in [1 .. Len(vals) -> free] :
         /\ IsInjective(at)
         /\ memory' = [a \in Address |->
              IF a \in Range(at)
                THEN LET i == CHOOSE i \in DOMAIN at : at[i] = a
                     IN  [next |-> IF i = 1 THEN NULL ELSE at[i - 1], val |-> vals[i]]
                ELSE memory[a]]
         /\ free' = free \ Range(at)
         /\ stk' = WithStack(t, [top |-> IF vals = << >> THEN NULL ELSE at[Len(vals)],
                                 entries |-> Len(vals)])
  /\ shown' = << >>
stack_destroy(s) ==
  /\ s \in DOMAIN stk
  /\ LET popped == {Entries(s)[i] : i \in 1 .. stk[s].entries} IN
       memory' = Gone(popped) /\ free' = free \union popped
  /\ stk' = [t \in DOMAIN stk \ {s} |-> stk[t]] /\ shown' = << >>

StackNext == \E s \in Stack :
  \/ stack_create(s) \/ stack_pop(s) \/ stack_foreach(s) \/ stack_destroy(s)
  \/ \E v \in Void : stack_push(s, v)
  \/ \E t \in Stack : stack_reverse(s, t)

LinkedSpec == StackInit /\ [][StackNext]_stack_vars

-----------------------------------------------------------------------------

(* The stacks of stack.c, as linked entries, are those of stack.h: pushing,  *)
(* popping, reversing and destroying them leaves the others what they were, *)
(* whatever entries were freed and used again in between (stack.c:24-85).  *)
K == INSTANCE Stacks WITH content <- [s \in DOMAIN stk |-> Values(s)], result <- shown
StackSpec == K!Spec
=============================================================================
