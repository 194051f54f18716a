----------------------------- MODULE MCLibrary -----------------------------
(***************************************************************************)
(* The parts that keep their state to themselves: strings, array lists, the *)
(* types of the collector, stacks, and the procedures on numbers.  None     *)
(* calls another one here, so a behaviour is one of a single part, which is *)
(* chosen at the start; the others stay as they are.                       *)
(***************************************************************************)
EXTENDS StringBuffer, ArrayList, TypeRegistry, LinkedStack

CONSTANTS ca, cb, o1, o2, o3, pair, symbol, primitive, environment, vm,
          st1, st2, v1, v2, a1, a2, a3, a4

VARIABLES part,
          proc, given, args, number, pc, back    (* of Numbers              *)

number_vars == <<proc, given, args, number, pc, back>>

-----------------------------------------------------------------------------
(* Texts of up to two steps of INCREMENT, an order in which o1 is before the *)
(* others, which compare equal, and two stacks of four entries together:    *)
(* each can be reversed into the other when it has two.                    *)
MCCStrings == {<< >>, <<ca>>, <<cb, ca>>, <<ca, cb, ca, cb>>, <<cb, cb, cb, ca, ca, cb>>}
MCPrecedes(p, q) == p = o1 /\ q # o1

(* Longs of 8 bits, ints of 5, characters of 4, and a buffer that has room  *)
(* for every positive number but not for the longest negative ones, like    *)
(* the 20 bytes for longs of 64 bits.                                       *)
All == -128..127
Edges == {-128, -127, -100, -99, -17, -16, -10, -1, 0, 1, 2, 15, 16, 64, 127}
MCOperands ==
  {<< >>} \union {<<n>> : n \in All} \union {<<n, m>> : n \in All, m \in Edges}
  \union {<<n, m, k>> : n, m, k \in Edges}
Digits == {0, 1, 2, 5, 9}
MCTexts ==
  {[minus |-> m, digits |-> s] : m \in BOOLEAN,
     s \in {<< >>} \union {<<d>> : d \in Digits} \union {<<d, e>> : d, e \in Digits}
           \union {<<d, e, g>> : d, e, g \in Digits}}
Num == INSTANCE Numbers WITH
  result <- number, LongWidth <- 8, IntWidth <- 5, CharWidth <- 4, BufferSize <- 4,
  Operands <- MCOperands, Texts <- MCTexts

-----------------------------------------------------------------------------

MCInit ==
  /\ part \in {"strings", "lists", "types", "stacks", "numbers"}
  /\ StringInit /\ ArrayListInit /\ TypesInit /\ StackInit
  /\ IF part = "numbers" THEN Num!Init
     ELSE proc = "none" /\ given = << >> /\ args = << >> /\ number = 0 /\ pc = "idle" /\ back = FALSE

MCNext ==
  /\ UNCHANGED part
  /\ \/ /\ part = "strings" /\ StringNext
        /\ UNCHANGED <<list_vars, type_vars, stack_vars, number_vars>>
     \/ /\ part = "lists" /\ ArrayListNext
        /\ UNCHANGED <<str, type_vars, stack_vars, number_vars>>
     \/ /\ part = "types" /\ TypesNext
        /\ UNCHANGED <<str, list_vars, stack_vars, number_vars>>
     \/ /\ part = "stacks" /\ StackNext
        /\ UNCHANGED <<str, list_vars, type_vars, number_vars>>
     \/ /\ part = "numbers" /\ Num!Next
        /\ UNCHANGED <<str, list_vars, type_vars, stack_vars>>

MCSpec == MCInit /\ [][MCNext]_<<part, str, list_vars, type_vars, stack_vars, number_vars>>

(* The procedures on numbers give what Scheme says wherever the widths of   *)
(* C's types allow it, and fail only where they do not                      *)
(* (procedures.c:13-117).                                                  *)
ArithmeticIsRight == Num!ArithmeticIsRight

(* A number or a character that is converted and back is the same if it is  *)
(* one that the conversion has room for (procedures.c:175-187, 203-213).   *)
ConversionsReadBack == Num!ConversionsReadBack
=============================================================================
