--------------------------- MODULE MCSymbolTable ---------------------------
(***************************************************************************)
(* Two kinds of programs, told apart at the start: those whose strings may  *)
(* die in string->symbol, where freed memory may spell two of the names,    *)
(* and careful ones, which hold on to each string for as long.             *)
(***************************************************************************)
EXTENDS SymbolTable

VARIABLE careful

Careful == INSTANCE SymbolTable WITH Freed <- {}

MCInit == Init /\ careful \in BOOLEAN
MCNext ==
  \/ careful /\ Careful!Next /\ UNCHANGED careful
  \/ ~ careful /\ Next /\ UNCHANGED careful
MCSpec == MCInit /\ [][MCNext]_<<vars, careful>>

(* For a careful program the symbol table is the interner: one symbol a     *)
(* name, one name a symbol, whatever is forgotten and collected in between  *)
(* (object.c:129-152).  It is InternerSpec, of the careful behaviours.      *)
CarefulProgramsIntern ==
  /\ careful => I!Init
  /\ [][careful => I!Next]_<<Known, answer>>
=============================================================================
