------------------------------ MODULE Session ------------------------------
(***************************************************************************)
(* A run of the interpreter: the loop of src/repl.c, which reads, evaluates *)
(* and prints one input after another in one vm, and the primitive          *)
(* procedures of procedures.c that read, write, load files, end the process *)
(* or make a fresh top level.                                               *)
(*                                                                         *)
(* A text is the sequence of the data in it, and reading one of them is a  *)
(* single step (Reader has what happens inside): the objects appear, after *)
(* a collection or without one.  The initial environment is made in one    *)
(* step too (Bootstrap).                                                   *)
(*                                                                         *)
(* Two things are undefined in the code, and may be a crash or nothing     *)
(* here: a collection that follows the variable result of load, which is a *)
(* root before it has a value, and writing such a value.  The end of the   *)
(* input is passed to eval as a NULL pointer, which is a crash.            *)
(***************************************************************************)
EXTENDS Eval, Data

CONSTANTS
  eof,
  Wild,             (* what an uninitialised variable holds                *)
  load_procedure, read_procedure, write_procedure, display_procedure,
  error_procedure, start_environment_procedure, gc_info_procedure,
  is_boolean_procedure, is_symbol_procedure, is_integer_procedure,
  is_string_procedure, is_pair_procedure, is_procedure_procedure, is_eof_procedure

(* What a variable holds that was never set is told from any value.         *)
ASSUME WildIsNoValue ==
  /\ eof \notin Nat
  /\ Wild \notin Nat \union {NULL, true, false, the_empty_list, eof}
  /\ Wild \notin Symbol \union Primitive \union Range(init_environment)

VARIABLES
  stdin,            (* the data that the terminal has still to give        *)
  arguments,        (* the texts of the command line still to be evaluated *)
  loading,          (* what is left of the files being loaded              *)
  printed,          (* what the process has written, and by which function *)
  crashed

streams == <<stdin, arguments, loading, printed>>
sessionVars == <<vars, streams, crashed>>

(* What is to be read is what the reader makes of texts: constants, pairs,   *)
(* and what they point to.                                                 *)
ReadIn(datum, v) == v \in DOMAIN datum.objects \/ v \in Constant
IsDatum(datum) ==
  /\ datum.objects \in Seq(Range(datum.objects)) /\ ReadIn(datum, datum.at)
  /\ \A o \in Range(datum.objects) :
       \/ o.kind \in {"number", "character", "string"}
       \/ o.kind = "pair" /\ ReadIn(datum, o.car) /\ ReadIn(datum, o.cdr)
IsText(t) == t \in Seq(Range(t)) /\ \A datum \in Range(t) : IsDatum(datum)
TextsAreRead ==
  \A p \in Programs :
    /\ IsText(p.stdin) /\ \A f \in DOMAIN p.files : IsText(p.files[f])
    /\ p.arguments \in Seq(Range(p.arguments)) /\ \A t \in Range(p.arguments) : IsText(t)

(* A run of the program: what is typed, the arguments, and the files.       *)
interactive == program.arguments = << >>
FilesHaveData == \A f \in DOMAIN program.files : program.files[f] # << >>

SessionInit ==
  \E p \in Programs :
    /\ program = p
    /\ stdin = p.stdin /\ arguments = p.arguments /\ loading = << >> /\ printed = << >>
    /\ heap = <<Bindings(NULL, init_environment)>> /\ env = 1 /\ environment_stack = << >>
    /\ stack = <<Frame("main", "read", << >>)>> /\ ret = NULL /\ roots = << >>
    /\ exited = FALSE /\ crashed = FALSE

-----------------------------------------------------------------------------
(* read and write, called from the running function *)

(* The next datum of a text, NULL at its end.                               *)
ReadValue(text) ==
  IF text = << >> THEN NULL ELSE Placed(heap, Head(text), Head(text).at)
read(text) ==
  IF text = << >> THEN UNCHANGED heap
  ELSE \E h \in {heap, Collected({})} : heap' = Stored(h, Head(text))
Rest(text) == IF text = << >> THEN << >> ELSE Tail(text)

Output(by, p) == [by |-> by, datum |-> Datum(p)]
WriteTo(by, p) == printed' = Append(printed, Output(by, p))

(* eval(context, the datum that was read): the running function goes on at  *)
(* the place at.                                                           *)
EvalRead(at, v, text) ==
  /\ read(text)
  /\ Call(at, v, EvalFrame(ReadValue(text)))
  /\ roots' = Append(roots, [frame |-> Len(stack) + 1, name |-> "exp"])
  /\ UNCHANGED others

-----------------------------------------------------------------------------
(* main *)

text == IF interactive THEN stdin ELSE Head(arguments)
main_read ==
  /\ At("main", "read") /\ (interactive \/ arguments # << >>) /\ text # << >>
  /\ EvalRead("write", << >>, text)
  /\ IF interactive THEN stdin' = Rest(stdin) ELSE UNCHANGED stdin
  /\ UNCHANGED <<arguments, loading, printed>>
(* At the end of a text eval looks at the type of NULL.                     *)
main_end ==
  /\ At("main", "read") /\ (interactive \/ arguments # << >>) /\ text = << >>
  /\ crashed' = TRUE
  /\ UNCHANGED <<vars, streams>>
main_write ==
  /\ At("main", "write")
  /\ WriteTo("write", ret)
  /\ arguments' = Rest(arguments)
  /\ Goto("read", << >>) /\ OnlyTheStack
  /\ UNCHANGED <<stdin, loading>>
main_return ==
  /\ At("main", "read") /\ ~ interactive /\ arguments = << >>
  /\ Finish(NULL) /\ UNCHANGED streams

-----------------------------------------------------------------------------
(* load_procedure *)

Calls(p) == At("eval", "primitive") /\ var.proc = p
called == [var EXCEPT !.proc = NULL, !.args = NULL]

(* Mutant: the current environment, whichever it is. *)
load_environment_Current == env
load_environment == TopLevel
load_file ==
  /\ Calls(load_procedure) /\ heap[car(args)].value \in DOMAIN program.files
  /\ Call("loaded", called, [Frame("load", "read", [result |-> Wild]) EXCEPT !.pops = 1])
  /\ roots' = Append(roots, [frame |-> Len(stack) + 1, name |-> "result"])
  /\ vm_push_environment(load_environment)
  /\ loading' = Append(loading, program.files[heap[car(args)].value])
  /\ UNCHANGED <<heap, exited, program, stdin, arguments, printed>>
load_no_file ==
  /\ Calls(load_procedure) /\ heap[car(args)].value \notin DOMAIN program.files
  /\ Exit /\ UNCHANGED streams
load_read ==
  /\ At("load", "read") /\ Last(loading) # << >>
  /\ EvalRead("result", var, Last(loading))
  /\ loading' = Front(loading) \o <<Rest(Last(loading))>>
  /\ UNCHANGED <<stdin, arguments, printed>>
(* Mutant: the value is dropped. *)
load_result_Dropped ==
  At("load", "result") /\ Goto("read", var) /\ OnlyTheStack /\ UNCHANGED streams
load_result ==
  At("load", "result") /\ Goto("read", [result |-> ret]) /\ OnlyTheStack /\ UNCHANGED streams
(* Mutants: the root, or the environment, is not given back. *)
load_return_KeepsRoot ==
  /\ At("load", "read") /\ Last(loading) = << >>
  /\ Return(var.result) /\ PopEnvironments(Top.pops)
  /\ loading' = Front(loading)
  /\ UNCHANGED <<heap, roots, exited, program, stdin, arguments, printed>>
load_return_KeepsEnvironment ==
  /\ At("load", "read") /\ Last(loading) = << >>
  /\ Return(var.result) /\ roots' = Pop(1)
  /\ loading' = Front(loading)
  /\ UNCHANGED <<heap, others, stdin, arguments, printed>>
load_return ==
  /\ At("load", "read") /\ Last(loading) = << >>
  /\ Return(var.result) /\ roots' = Pop(1) /\ PopEnvironments(Top.pops)
  /\ loading' = Front(loading)
  /\ UNCHANGED <<heap, exited, program, stdin, arguments, printed>>
load_loaded == At("eval", "loaded") /\ EvalReturn(ret) /\ UNCHANGED <<heap, streams>>

-----------------------------------------------------------------------------
(* The other procedures *)

call_read ==
  /\ Calls(read_procedure)
  /\ read(stdin) /\ stdin' = Rest(stdin)
  /\ EvalReturn(IF stdin = << >> THEN eof ELSE ReadValue(stdin))
  /\ UNCHANGED <<arguments, loading, printed>>
call_write ==
  /\ \/ Calls(write_procedure) /\ WriteTo("write", car(args))
     \/ Calls(display_procedure) /\ WriteTo("display", car(args))
  /\ EvalReturn(ok_symbol)
  /\ UNCHANGED <<heap, stdin, arguments, loading>>
call_error ==
  /\ Calls(error_procedure)
  /\ printed' = printed \o [i \in DOMAIN Elements(args) |-> Output("error", Elements(args)[i])]
  /\ Exit /\ UNCHANGED <<stdin, arguments, loading>>
(* init_environment, and a Scheme object for it.                            *)
call_start_environment ==
  /\ Calls(start_environment_procedure)
  /\ environment_create(NULL, init_environment)
  /\ Goto("wrap", [var EXCEPT !.proc = NULL, !.args = NewAddr])
  /\ UNCHANGED <<roots, others, streams>>
(* gc_info looks at the type of each object that a root points to.          *)
call_gc_info ==
  Calls(gc_info_procedure) /\ EvalReturn(ok_symbol) /\ UNCHANGED <<heap, streams>>

Holds(p, v) ==
  CASE p = is_boolean_procedure -> v \in {true, false}
    [] p = is_symbol_procedure -> v \in Symbol
    [] p = is_integer_procedure -> is_number(v)
    [] p = is_string_procedure -> Is(v, "string")
    [] p = is_pair_procedure -> is_pair(v)
    [] p = is_procedure_procedure -> v \in Primitive \/ Is(v, "procedure")
    [] p = is_eof_procedure -> v = eof
predicates ==
  {is_boolean_procedure, is_symbol_procedure, is_integer_procedure, is_string_procedure,
   is_pair_procedure, is_procedure_procedure, is_eof_procedure}
call_predicate ==
  /\ At("eval", "primitive") /\ var.proc \in predicates
  /\ EvalReturn(Truth(Holds(var.proc, car(args)))) /\ UNCHANGED <<heap, streams>>

-----------------------------------------------------------------------------

Main == main_read \/ main_write \/ main_return
Load == load_file \/ load_no_file \/ load_read \/ load_result \/ load_return \/ load_loaded
Other ==
  \/ call_read \/ call_write \/ call_error \/ call_start_environment \/ call_gc_info
  \/ call_predicate

(* Where a step may meet the uninitialised variable.                        *)
Allocates == Len(heap') > Len(heap)
AtRisk ==
  \/ Wild \in RootedPointers /\ (Allocates \/ Calls(gc_info_procedure))
  \/ At("main", "write") /\ ret = Wild
MayCrash == crashed' \in (IF AtRisk THEN BOOLEAN ELSE {FALSE})

Ended == crashed \/ stack = << >>
SessionStep ==
  /\ ~ crashed
  /\ \/ (Main \/ Load \/ Other \/ (Step /\ UNCHANGED streams)) /\ MayCrash
     \/ main_end
SessionNext == SessionStep \/ (Ended /\ UNCHANGED sessionVars)

(* The one thread goes on.                                                  *)
SessionSpec == SessionInit /\ [][SessionNext]_sessionVars /\ WF_sessionVars(SessionStep)

-----------------------------------------------------------------------------

(* One input leaves nothing behind for the next but the values of the top   *)
(* level: when the loop reads again no variable is rooted and no            *)
(* environment saved, whatever files the last input has loaded, from        *)
(* whichever environment (repl.c:17-36, procedures.c:321-340).              *)
CleanBetweenInputs ==
  At("main", "read") => roots = << >> /\ environment_stack = << >> /\ env = 1

(* If no file is empty, the uninitialised variable is there only until the  *)
(* first expression of a file has been evaluated, and no procedure ever     *)
(* returns it (procedures.c:321-340).                                       *)
NothingWildEscapes ==
  FilesHaveData =>
    /\ ret # Wild /\ \A a \in Live : Wild \notin Pointers(heap[a])
    /\ At("load", "read") /\ var.result = Wild =>
         Last(loading) \in Range(program.files)

(* Every run comes to an end, one way or another: evaluation goes round no  *)
(* circle, no input is read twice, and there is always a next step          *)
(* (repl.c:17-36, eval.c:481-546).                                         *)
SessionEnds == <>Ended
=============================================================================
