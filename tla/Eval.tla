-------------------------------- MODULE Eval --------------------------------
(***************************************************************************)
(* The evaluator of src/eval.c on the machine of Machine.tla.  An action   *)
(* is what a C function does between two points where something else may   *)
(* happen: the call of another function that allocates, its return, or an  *)
(* allocation, which may free objects.                                     *)
(*                                                                         *)
(* What is asked of the code: that each pointer that a C function still    *)
(* has to read is kept alive by some root, across every allocation that    *)
(* its callees make; that roots and environments are released exactly as   *)
(* they were taken, on every path, tail calls included; and that what      *)
(* comes out is the value that Scheme gives the program.                   *)
(*                                                                         *)
(* Where the code relies on the program being well formed (an if has three *)
(* parts, a begin has a body, car is of a pair, calls have the right       *)
(* number of arguments), so does the model.                                *)
(***************************************************************************)
EXTENDS Machine

CONSTANTS
  quote_symbol, define_symbol, set_bang_symbol, ok_symbol, if_symbol,
  lambda_symbol, begin_symbol, cond_symbol, else_symbol, let_symbol,
  and_symbol, or_symbol,
  Variable,         (* the other symbols                                   *)
  add_procedure, is_empty_procedure, is_eq_procedure, cons_procedure,
  car_procedure, cdr_procedure, set_car_procedure, set_cdr_procedure,
  list_procedure, apply_procedure, eval_procedure,
  interaction_environment_procedure, null_environment_procedure,
  OtherPrimitive,   (* those that other modules model                      *)
  init_environment, (* the top level: from symbols to primitive procedures *)
  Programs          (* programs as the reader leaves them in the heap: the *)
                    (* objects, from address 2 on, and the expression      *)

VARIABLES
  exited,           (* exit(1) was called                                  *)
  program           (* the program being evaluated                         *)

vars == <<heap, stack, ret, roots, env, environment_stack, exited, program>>

Symbol == Variable \union
  {quote_symbol, define_symbol, set_bang_symbol, ok_symbol, if_symbol, lambda_symbol,
   begin_symbol, cond_symbol, else_symbol, let_symbol, and_symbol, or_symbol}
Primitive ==
  {add_procedure, is_empty_procedure, is_eq_procedure, cons_procedure, car_procedure,
   cdr_procedure, set_car_procedure, set_cdr_procedure, list_procedure, apply_procedure,
   eval_procedure, interaction_environment_procedure, null_environment_procedure}
  \union OtherPrimitive

(* Symbols and primitive procedures are no addresses either. *)
ASSUME SymbolsAreNoAddresses ==
  \A v \in Symbol \union Primitive \union Range(init_environment) : v \notin Nat

Constant == Symbol \union {true, false, the_empty_list}

(* The reader leaves constants and pairs, and what they point to with them. *)
ReadBy(p, v) == IF v \in Nat THEN v \in 2..(Len(p.objects) + 1) ELSE v \in Constant
ProgramsAreRead ==
  \A p \in Programs :
    /\ p.objects \in Seq(Range(p.objects)) /\ ReadBy(p, p.exp)
    /\ \A o \in Range(p.objects) :
         \/ o.kind \in {"number", "character", "string"}
         \/ o = Pair(o.car, o.cdr) /\ ReadBy(p, o.car) /\ ReadBy(p, o.cdr)

EvalFrame(e) == Frame("eval", "tailcall", [exp |-> e, proc |-> NULL, args |-> NULL])

(* The repl has read an expression, in an interpreter just started, and    *)
(* calls eval, which roots its parameter.                                  *)
Init ==
  \E p \in Programs :
    /\ program = p
    /\ heap = <<Bindings(NULL, init_environment)>> \o p.objects
    /\ env = 1 /\ environment_stack = << >>
    /\ stack = <<EvalFrame(p.exp)>>
    /\ ret = NULL
    /\ roots = <<[frame |-> 1, name |-> "exp"]>>
    /\ exited = FALSE

-----------------------------------------------------------------------------
(* eval: calls and returns *)

var == Top.var
exp == var.exp
With(e) == [var EXCEPT !.exp = e]

others == <<env, environment_stack, exited, program>>
OnlyTheStack == UNCHANGED <<heap, roots, others>>

(* Another function is called, or the running one returns; nothing more. *)
Invoke(at, v, callee) == Call(at, v, callee) /\ OnlyTheStack
Finish(v) == Return(v) /\ OnlyTheStack

(* eval(context, e), called from the running function. *)
CallEval(at, v, e) ==
  /\ Call(at, v, EvalFrame(e))
  /\ roots' = Append(roots, [frame |-> Len(stack) + 1, name |-> "exp"])
  /\ UNCHANGED <<heap, others>>

(* eval falls out of its dispatch with rval = v. *)
EvalReturn(v) ==
  /\ Return(v)
  /\ roots' = Pop(1)
  /\ PopEnvironments(Top.pops)
  /\ UNCHANGED <<exited, program>>

(* goto tailcall with exp = e. *)
TailCall(e) == Goto("tailcall", With(e)) /\ OnlyTheStack

(* exit(1) *)
Exit ==
  /\ stack' = << >> /\ ret' = NULL /\ exited' = TRUE
  /\ UNCHANGED <<heap, roots, env, environment_stack, program>>

-----------------------------------------------------------------------------
(* eval: the dispatch at the label tailcall *)

Dispatch == At("eval", "tailcall")
Form(tag) == Dispatch /\ is_pair(exp) /\ car(exp) = tag

is_self_evaluating(e) ==
  e \in {true, false} \/ \E kind \in {"number", "character", "string"} : Is(e, kind)
eval_self_evaluating ==
  /\ Dispatch
  /\ is_self_evaluating(exp)
  /\ EvalReturn(exp) /\ UNCHANGED heap

(* Anything but a pair, a symbol or a constant is no expression. *)
eval_unexpected ==
  /\ Dispatch
  /\ ~ is_self_evaluating(exp) /\ exp \notin Symbol /\ ~ is_pair(exp)
  /\ Exit

eval_variable ==
  /\ Dispatch
  /\ exp \in Symbol
  /\ IF Binder(exp) = NULL
       THEN Exit
       ELSE EvalReturn(heap[Binder(exp)].bindings[exp]) /\ UNCHANGED heap

(* Mutant: the quoted expression itself is the next one to evaluate. *)
eval_quoted_Again == Form(quote_symbol) /\ TailCall(exp)
eval_quoted == Form(quote_symbol) /\ EvalReturn(cadr(exp)) /\ UNCHANGED heap

eval_if == Form(if_symbol) /\ CallEval("if", var, cadr(exp))
eval_if_chosen ==
  /\ At("eval", "if")
  /\ TailCall(IF ret # false THEN caddr(exp) ELSE cadr(cddr(exp)))

eval_lambda ==
  /\ Form(lambda_symbol)
  /\ make_compound_procedure(cadr(exp), cddr(exp))
  /\ EvalReturn(NewAddr)

(* eval_assignment: an unbound variable is reported and left alone. *)
eval_assignment == Form(set_bang_symbol) /\ CallEval("set!", var, caddr(exp))
eval_assignment_set ==
  /\ At("eval", "set!")
  /\ heap' = IF Binder(cadr(exp)) = NULL THEN heap
             ELSE Bound(Binder(cadr(exp)), cadr(exp), ret)
  /\ EvalReturn(ok_symbol)

eval_define ==
  Form(define_symbol) /\ cadr(exp) \in Symbol /\ CallEval("define", var, caddr(exp))
eval_define_set ==
  /\ At("eval", "define")
  /\ heap' = Bound(env, cadr(exp), ret)
  /\ EvalReturn(ok_symbol)

(* The other forms are rewritten, and the result evaluated in their place. *)
Rewrite(callee) == Invoke("rewritten", var, callee)
eval_complex_define ==
  /\ Form(define_symbol) /\ cadr(exp) \notin Symbol
  /\ Rewrite(Frame("transform_complex_define", "start", [exp |-> exp]))
eval_cond ==
  /\ Form(cond_symbol)
  /\ Rewrite(Frame("transform_cond_clauses", "start",
                   [cond_clauses |-> cdr(exp), condition |-> NULL, exp |-> NULL]))
eval_let ==
  /\ Form(let_symbol)
  /\ Rewrite(Frame("transform_let", "start",
                   [let |-> exp, bindings |-> cadr(exp), vars |-> NULL, inits |-> NULL]))
eval_rewritten == At("eval", "rewritten") /\ TailCall(ret)

(* begin, or, and: exp runs along the list, the last element in tail call. *)
Sequence(form, list) ==
  IF cdr(list) = the_empty_list
    THEN TailCall(car(list))
    ELSE CallEval(form, With(list), car(list))

eval_begin == Form(begin_symbol) /\ Sequence("begin", cdr(exp))
eval_begin_next == At("eval", "begin") /\ Sequence("begin", cdr(exp))

eval_or ==
  /\ Form(or_symbol)
  /\ IF cdr(exp) = the_empty_list
       THEN EvalReturn(false) /\ UNCHANGED heap
       ELSE Sequence("or", cdr(exp))
(* Mutant: the value of the test is not the value of the or. *)
eval_or_next_True ==
  /\ At("eval", "or")
  /\ IF ret # false THEN EvalReturn(true) /\ UNCHANGED heap ELSE Sequence("or", cdr(exp))
eval_or_next ==
  /\ At("eval", "or")
  /\ IF ret # false THEN EvalReturn(ret) /\ UNCHANGED heap ELSE Sequence("or", cdr(exp))

eval_and ==
  /\ Form(and_symbol)
  /\ IF cdr(exp) = the_empty_list
       THEN EvalReturn(true) /\ UNCHANGED heap
       ELSE Sequence("and", cdr(exp))
eval_and_next ==
  /\ At("eval", "and")
  /\ IF ret = false THEN EvalReturn(ret) /\ UNCHANGED heap ELSE Sequence("and", cdr(exp))

-----------------------------------------------------------------------------
(* eval: applications *)

Keyword == {quote_symbol, define_symbol, set_bang_symbol, if_symbol, lambda_symbol,
            begin_symbol, cond_symbol, let_symbol, and_symbol, or_symbol}

(* proc and args are rooted before the operator is evaluated. *)
eval_application ==
  /\ Dispatch /\ is_pair(exp) /\ car(exp) \notin Keyword
  /\ Call("proc", var, EvalFrame(car(exp)))
  /\ roots' = Append(Push(<<"proc", "args">>), [frame |-> Len(stack) + 1, name |-> "exp"])
  /\ UNCHANGED <<heap, others>>

ListOfValues(exps) == Frame("list_of_values", "start", [exps |-> exps, tmp |-> NULL])
eval_operands ==
  /\ At("eval", "proc")
  /\ Invoke("args", [var EXCEPT !.proc = ret], ListOfValues(cdr(exp)))

(* The apply primitive: another procedure, and all its arguments in a list. *)
eval_apply ==
  /\ At("eval", "args") /\ var.proc = apply_procedure
  /\ Invoke("applied", [var EXCEPT !.proc = car(ret), !.args = ret], Conses(Elements(cdr(ret))))

(* The eval primitive: a tail call in another environment. *)
eval_eval ==
  /\ At("eval", "args") /\ var.proc = eval_procedure
  /\ vm_push_environment(heap[cadr(ret)].value)
  /\ stack' = TopBecomes(
       [Continue("tailcall", [exp |-> car(ret), proc |-> NULL, args |-> NULL])
          EXCEPT !.pops = @ + 1])
  /\ roots' = Pop(2) /\ ret' = NULL
  /\ UNCHANGED <<heap, exited, program>>

(* Otherwise the arguments are there, and so is the procedure. *)
Arguments == Goto("call", [var EXCEPT !.args = ret]) /\ OnlyTheStack
eval_arguments ==
  At("eval", "args") /\ var.proc \notin {apply_procedure, eval_procedure} /\ Arguments
eval_applied == At("eval", "applied") /\ Arguments

(* A primitive procedure is called with its arguments no longer rooted. *)
eval_primitive ==
  /\ At("eval", "call") /\ var.proc \in Primitive
  /\ Goto("primitive", var)
  /\ roots' = Pop(2)
  /\ UNCHANGED <<heap, others>>

(* A compound one has its body evaluated, in tail call, in its environment *)
(* extended by the arguments.                                              *)
(* Mutant: the environment pushed is not counted. *)
eval_compound_Uncounted ==
  /\ At("eval", "call") /\ Is(var.proc, "procedure")
  /\ vm_push_environment(heap[var.proc].env)
  /\ stack' = TopBecomes(Continue("extend", var))
  /\ UNCHANGED <<heap, ret, roots, exited, program>>
eval_compound ==
  /\ At("eval", "call") /\ Is(var.proc, "procedure")
  /\ vm_push_environment(heap[var.proc].env)
  /\ stack' = TopBecomes([Continue("extend", var) EXCEPT !.pops = @ + 1])
  /\ UNCHANGED <<heap, ret, roots, exited, program>>
eval_extend ==
  /\ At("eval", "extend")
  /\ environment_create(env, Parameters(heap[var.proc].arguments, var.args))
  /\ env' = NewAddr
  /\ Goto("body", [var EXCEPT !.args = NULL])
  /\ UNCHANGED <<roots, environment_stack, exited, program>>
eval_body ==
  /\ At("eval", "body")
  /\ cons(begin_symbol, heap[var.proc].body)
  /\ Goto("tailcall", [exp |-> NewAddr, proc |-> NULL, args |-> NULL])
  /\ roots' = Pop(2)
  /\ UNCHANGED others

(* list_of_values: each value waits, rooted, for the list of the others. *)
list_of_values_end ==
  /\ At("list_of_values", "start") /\ var.exps = the_empty_list
  /\ Finish(the_empty_list)
(* Mutant: the wrong variable is rooted. *)
list_of_values_first_RootsExps ==
  /\ At("list_of_values", "start") /\ var.exps # the_empty_list
  /\ Call("first", var, EvalFrame(car(var.exps)))
  /\ roots' = Append(Push(<<"exps">>), [frame |-> Len(stack) + 1, name |-> "exp"])
  /\ UNCHANGED <<heap, others>>
list_of_values_first ==
  /\ At("list_of_values", "start") /\ var.exps # the_empty_list
  /\ Call("first", var, EvalFrame(car(var.exps)))
  /\ roots' = Append(Push(<<"tmp">>), [frame |-> Len(stack) + 1, name |-> "exp"])
  /\ UNCHANGED <<heap, others>>
list_of_values_rest ==
  /\ At("list_of_values", "first")
  /\ Invoke("rest", [exps |-> NULL, tmp |-> ret], ListOfValues(cdr(var.exps)))
list_of_values_cons ==
  /\ At("list_of_values", "rest")
  /\ cons(var.tmp, ret)
  /\ Return(NewAddr) /\ roots' = Pop(1)
  /\ UNCHANGED others

-----------------------------------------------------------------------------
(* The primitive procedures (procedures.c) *)

args == var.args
Truth(b) == IF b THEN true ELSE false
Same(p, q) ==
  \/ p = q
  \/ \E kind \in {"number", "character", "string"} :
       Is(p, kind) /\ Is(q, kind) /\ heap[p].value = heap[q].value

(* Those that only look. *)
Looking == {car_procedure, cdr_procedure, list_procedure, is_empty_procedure, is_eq_procedure}
Value(p) ==
  CASE p = car_procedure -> car(car(args))
    [] p = cdr_procedure -> cdr(car(args))
    [] p = list_procedure -> args
    [] p = is_empty_procedure -> Truth(car(args) = the_empty_list)
    [] p = is_eq_procedure -> Truth(Same(car(args), cadr(args)))
call_looking ==
  /\ At("eval", "primitive") /\ var.proc \in Looking
  /\ EvalReturn(Value(var.proc)) /\ UNCHANGED heap

call_set_car ==
  /\ At("eval", "primitive") /\ var.proc = set_car_procedure
  /\ heap' = [heap EXCEPT ![car(args)].car = cadr(args)]
  /\ EvalReturn(ok_symbol)
call_set_cdr ==
  /\ At("eval", "primitive") /\ var.proc = set_cdr_procedure
  /\ heap' = [heap EXCEPT ![car(args)].cdr = cadr(args)]
  /\ EvalReturn(ok_symbol)

(* Those that allocate, when they have read their arguments. *)
call_cons ==
  /\ At("eval", "primitive") /\ var.proc = cons_procedure
  /\ cons(car(args), cadr(args))
  /\ EvalReturn(NewAddr)
call_add ==
  /\ At("eval", "primitive") /\ var.proc = add_procedure
  /\ make_number(FoldSeq(LAMBDA p, sum : heap[p].value + sum, 0, Elements(args)))
  /\ EvalReturn(NewAddr)
call_interaction_environment ==
  /\ At("eval", "primitive") /\ var.proc = interaction_environment_procedure
  /\ make_environment(TopLevel)
  /\ EvalReturn(NewAddr)

call_null_environment ==
  /\ At("eval", "primitive") /\ var.proc = null_environment_procedure
  /\ environment_create(NULL, << >>)
  /\ Goto("wrap", [var EXCEPT !.proc = NULL, !.args = NewAddr])
  /\ UNCHANGED <<roots, others>>
call_null_environment_wrap ==
  /\ At("eval", "wrap")
  /\ make_environment(args)
  /\ EvalReturn(NewAddr)

(* apply and eval, reached through apply: an error message and exit(1). *)
call_special ==
  /\ At("eval", "primitive") /\ var.proc \in {apply_procedure, eval_procedure}
  /\ Exit

-----------------------------------------------------------------------------
(* The rewriting functions *)

(* The right-nested conses that they, and apply, are made of. *)
eval_conses == conses /\ UNCHANGED <<exited, program>>
eval_conses_return == conses_return /\ UNCHANGED <<exited, program>>

(* (define (name . params) . body) to (define name (lambda params . body)) *)
complex_define_lambda ==
  /\ At("transform_complex_define", "start")
  /\ LET params == cdr(cadr(exp))  body == cddr(exp) IN
       Invoke("lambda", var, Conses(<<lambda_symbol, params, body>>))
complex_define_define ==
  /\ At("transform_complex_define", "lambda")
  /\ Invoke("define", [exp |-> NULL],
          Conses(<<define_symbol, car(cadr(exp)), ret, the_empty_list>>))

(* transform_cond_clauses_to_nested_if: the first clause's actions, in a   *)
(* begin if there are several; then the other clauses; then the if.        *)
cond_end ==
  /\ At("transform_cond_clauses", "start") /\ var.cond_clauses = the_empty_list
  /\ Finish(false)
cond_actions ==
  /\ At("transform_cond_clauses", "start") /\ var.cond_clauses # the_empty_list
  /\ LET clause == car(var.cond_clauses)
         acts == cdr(clause)
         direct == acts = the_empty_list \/ cdr(acts) = the_empty_list
     IN  /\ IF direct THEN UNCHANGED heap ELSE cons(begin_symbol, acts)
         /\ Goto("actions",
                 [var EXCEPT !.condition = car(clause),
                             !.exp = IF acts = the_empty_list THEN acts
                                     ELSE IF direct THEN car(acts) ELSE NewAddr])
  /\ UNCHANGED <<roots, others>>
cond_else ==
  /\ At("transform_cond_clauses", "actions") /\ var.condition = else_symbol
  /\ IF cdr(var.cond_clauses) = the_empty_list
       THEN Finish(exp) ELSE Exit
cond_rest ==
  /\ At("transform_cond_clauses", "actions") /\ var.condition # else_symbol
  /\ Call("rest", [var EXCEPT !.cond_clauses = NULL],
          Frame("transform_cond_clauses", "start",
                [cond_clauses |-> cdr(var.cond_clauses), condition |-> NULL, exp |-> NULL]))
  /\ roots' = Push(<<"exp">>)
  /\ UNCHANGED <<heap, others>>
cond_if ==
  /\ At("transform_cond_clauses", "rest")
  /\ Invoke("if", [var EXCEPT !.condition = NULL],
          Conses(<<if_symbol, var.condition, exp, ret, the_empty_list>>))
cond_return ==
  /\ At("transform_cond_clauses", "if")
  /\ Return(ret) /\ roots' = Pop(1)
  /\ UNCHANGED <<heap, others>>

(* transform_let_to_lambda: the variables and their initial values, both   *)
(* in reverse; then the lambda; then its application.                      *)
(* Mutant: the same variable is rooted twice. *)
let_start_RootsVarsTwice ==
  /\ At("transform_let", "start")
  /\ Goto("var", [var EXCEPT !.vars = the_empty_list, !.inits = the_empty_list])
  /\ roots' = Push(<<"vars", "vars">>)
  /\ UNCHANGED <<heap, others>>
let_start ==
  /\ At("transform_let", "start")
  /\ Goto("var", [var EXCEPT !.vars = the_empty_list, !.inits = the_empty_list])
  /\ roots' = Push(<<"vars", "inits">>)
  /\ UNCHANGED <<heap, others>>
let_var ==
  /\ At("transform_let", "var") /\ var.bindings # the_empty_list
  /\ cons(car(car(var.bindings)), var.vars)
  /\ Goto("init", [var EXCEPT !.vars = NewAddr])
  /\ UNCHANGED <<roots, others>>
let_init ==
  /\ At("transform_let", "init")
  /\ cons(cadr(car(var.bindings)), var.inits)
  /\ Goto("var", [var EXCEPT !.inits = NewAddr, !.bindings = cdr(@)])
  /\ UNCHANGED <<roots, others>>
let_lambda ==
  /\ At("transform_let", "var") /\ var.bindings = the_empty_list
  /\ Invoke("lambda", [var EXCEPT !.let = NULL],
          Conses(<<lambda_symbol, var.vars, cddr(var.let)>>))
let_application ==
  /\ At("transform_let", "lambda")
  /\ cons(ret, var.inits)
  /\ Return(NewAddr) /\ roots' = Pop(2)
  /\ UNCHANGED others

(* A rewriting function returns what its last call built. *)
complex_define_return ==
  /\ At("transform_complex_define", "define")
  /\ Finish(ret)

-----------------------------------------------------------------------------

Eval ==
  \/ eval_self_evaluating \/ eval_unexpected \/ eval_variable \/ eval_quoted
  \/ eval_if \/ eval_if_chosen \/ eval_lambda
  \/ eval_assignment \/ eval_assignment_set \/ eval_define \/ eval_define_set
  \/ eval_complex_define \/ eval_cond \/ eval_let \/ eval_rewritten
  \/ eval_begin \/ eval_begin_next \/ eval_or \/ eval_or_next \/ eval_and \/ eval_and_next
Application ==
  \/ eval_application \/ eval_operands \/ eval_apply \/ eval_eval
  \/ eval_arguments \/ eval_applied
  \/ eval_primitive \/ eval_compound \/ eval_extend \/ eval_body
  \/ list_of_values_end \/ list_of_values_first \/ list_of_values_rest \/ list_of_values_cons
Procedure ==
  \/ call_looking \/ call_set_car \/ call_set_cdr \/ call_cons \/ call_add
  \/ call_interaction_environment \/ call_null_environment \/ call_null_environment_wrap
  \/ call_special
Rewriting ==
  \/ complex_define_lambda \/ complex_define_define \/ complex_define_return
  \/ cond_end \/ cond_actions \/ cond_else \/ cond_rest \/ cond_if \/ cond_return
  \/ let_start \/ let_var \/ let_init \/ let_lambda \/ let_application
  \/ eval_conses \/ eval_conses_return

(* The repl has its value, or the process has ended. *)
Done == stack = << >>
Finished == Done /\ UNCHANGED vars

Step == Eval \/ Application \/ Procedure \/ Rewriting
Next == Step \/ Finished

Spec == Init /\ [][Next]_vars

-----------------------------------------------------------------------------
(* Where the code trusts the program: what it takes apart it takes for a    *)
(* pair (that it is there still is for the model to show), it expects lists *)
(* to end, each parameter to get a value, and the operands of a call not to *)
(* be cut off while they are being evaluated.                              *)

Pairs(list, n) ==
  LET isPair(p) == p \in Addr /\ heap[p].kind \in {"pair", "freed"} IN
    /\ isPair(list)
    /\ n > 1 => isPair(cdr(list))
    /\ n > 2 => isPair(cddr(list))
    /\ n > 3 => isPair(cdr(cddr(list)))
IsList(list) ==
  \E n \in 0..Len(heap) :
    Rests(list)[n] = the_empty_list /\ \A m \in 0..(n - 1) : Pairs(Rests(list)[m], 1)

FormsAreWhole ==
  /\ \A form \in {quote_symbol, if_symbol, lambda_symbol, let_symbol, begin_symbol, define_symbol} :
       Form(form) => Pairs(exp, 2)
  /\ Form(set_bang_symbol) \/ (Form(define_symbol) /\ cadr(exp) \in Symbol) => Pairs(exp, 3)
  /\ At("eval", "if") => Pairs(exp, IF ret # false THEN 3 ELSE 4)
  /\ Form(or_symbol) \/ Form(and_symbol) => cdr(exp) = the_empty_list \/ Pairs(exp, 2)
  /\ At("eval", "begin") => Pairs(exp, 2)
  /\ At("eval", "or") => ret # false \/ Pairs(exp, 2)
  /\ At("eval", "and") => ret = false \/ Pairs(exp, 2)
RewritesAreWhole ==
  /\ At("transform_complex_define", "start") \/ At("transform_complex_define", "lambda") =>
       Pairs(exp, 2) /\ Pairs(cadr(exp), 1)
  /\ At("transform_cond_clauses", "start") => LET clauses == var.cond_clauses IN
       \/ clauses = the_empty_list
       \/ /\ Pairs(clauses, 1) /\ Pairs(car(clauses), 1)
          /\ cdr(car(clauses)) = the_empty_list \/ Pairs(car(clauses), 2)
  /\ At("transform_cond_clauses", "actions") => Pairs(var.cond_clauses, 1)
  /\ At("transform_let", "var") =>
       IF var.bindings = the_empty_list THEN Pairs(var.let, 2)
       ELSE Pairs(var.bindings, 1) /\ Pairs(car(var.bindings), 1)
  /\ At("transform_let", "init") => Pairs(var.bindings, 1) /\ Pairs(car(var.bindings), 2)
CallsAreWhole ==
  /\ At("eval", "proc") => Pairs(exp, 1)
  /\ At("list_of_values", "start") => var.exps = the_empty_list \/ Pairs(var.exps, 1)
  /\ At("list_of_values", "first") => Pairs(var.exps, 1)
  /\ At("eval", "args") /\ var.proc = apply_procedure => Pairs(ret, 1) /\ IsList(cdr(ret))
  /\ At("eval", "args") /\ var.proc = eval_procedure =>
       Pairs(ret, 2) /\ cadr(ret) \in Addr /\ heap[cadr(ret)].kind \in {"environment", "freed"}
  /\ At("eval", "extend") => LET parameters == heap[var.proc].arguments IN
       IsList(parameters) /\ IsList(args) /\ Len(Elements(parameters)) <= Len(Elements(args))
  /\ At("eval", "primitive") =>
       /\ var.proc \in {car_procedure, cdr_procedure} => Pairs(args, 1) /\ Pairs(car(args), 1)
       /\ var.proc \in {set_car_procedure, set_cdr_procedure} => Pairs(args, 2) /\ Pairs(car(args), 1)
       /\ var.proc = cons_procedure => Pairs(args, 2)

(* The pairs that an application consists of, whose operands an eval is     *)
(* evaluating: list_of_values has a part of them left, that it has not      *)
(* rooted (eval.c:137-149).                                                 *)
Behind(o) == IF o.kind = "pair" THEN {o.cdr} ELSE {}
OperandsStay ==
  At("eval", "primitive") /\ var.proc = set_cdr_procedure =>
    \A i \in 1..Len(stack) : stack[i].fn = "eval" /\ stack[i].at = "args" =>
      car(args) \notin Marked([a \in Addr |-> Behind(heap[a])], {stack[i].var.exp})

WellFormed == FormsAreWhole /\ RewritesAreWhole /\ CallsAreWhole /\ OperandsStay

-----------------------------------------------------------------------------
(* Properties *)

(* Whatever a C function has still to read exists: no allocation that one   *)
(* of its callees makes, however deep, frees the expression, the operator,  *)
(* the values evaluated so far, or the parts of a rewritten expression that *)
(* only unrooted variables and parameters point to (eval.c:61-80, 137-149,  *)
(* 224-265, 289-311, 335-345, 481-530).                                     *)
NoUseAfterFree ==
  \A p \in (UNION {Range(stack[i].var) : i \in DOMAIN stack}) \union {ret} \union VmPointers :
    p \in Addr => p \in Live

(* The root list is what the active functions have pushed and not popped,   *)
(* in their order: every way out of a function, a tail call too, pops what  *)
(* it pushed, so that no root is left pointing into a dead stack frame      *)
(* (eval.c:365, 487, 506, 515, 527, 542).                                   *)
RootNames(f) ==
  CASE f.fn = "eval" ->
         IF f.at \in {"proc", "args", "applied", "call", "extend", "body"}
           THEN <<"exp", "proc", "args">> ELSE <<"exp">>
    [] f.fn = "list_of_values" /\ f.at # "start" -> <<"tmp">>
    [] f.fn = "transform_let" /\ f.at # "start" -> <<"vars", "inits">>
    [] f.fn = "transform_cond_clauses" /\ f.at \in {"rest", "if"} -> <<"exp">>
    [] f.fn = "load" -> <<"result">>   (* load_procedure, of Session *)
    [] OTHER -> << >>
RootsMatchFrames ==
  ~ exited =>
    /\ \A k \in 1..Len(roots) :
         /\ roots[k].frame \in 1..Len(stack)
         /\ \A l \in 1..Len(roots) : k <= l => roots[k].frame <= roots[l].frame
    /\ \A i \in 1..Len(stack) : \E before \in 0..Len(roots) :
         /\ \A k \in 1..Len(roots) :
              roots[k].frame = i <=> k \in before + 1..before + Len(RootNames(stack[i]))
         /\ \A j \in 1..Len(RootNames(stack[i])) :
              /\ before + j \in 1..Len(roots)
              /\ roots[before + j].name = RootNames(stack[i])[j]

(* The saved environments are those that the active evals have pushed, one  *)
(* for each procedure they have entered in tail call (eval.c:504, 523), and *)
(* the first of an eval's is the environment it was called in.              *)
SavedAfter(i) ==
  IF i = Len(stack) THEN Len(environment_stack) ELSE stack[i + 1].saved
EnvironmentsMatchFrames ==
  ~ exited =>
    /\ IF stack = << >> THEN environment_stack = << >> ELSE stack[1].saved = 0
    /\ \A i \in 1..Len(stack) :
         /\ SavedAfter(i) = stack[i].saved + stack[i].pops
         /\ stack[i].pops > 0 => environment_stack[stack[i].saved + 1] = stack[i].entered

(* A function returns to its caller in the environment it was called in,    *)
(* however many tail calls it made in between (eval.c:543-546).             *)
EnvironmentIsRestored ==
  [][Len(stack') < Len(stack) /\ ~ exited' => env' = Top.entered]_vars

(* The procedures apply and eval are never called as others are: the        *)
(* evaluator deals with them itself (procedures.c:449-459, eval.c:493-511). *)
SpecialsAreNeverCalled ==
  ~ (At("eval", "primitive") /\ var.proc \in {apply_procedure, eval_procedure})
=============================================================================
