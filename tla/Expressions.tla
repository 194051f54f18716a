---------------------------- MODULE Expressions ----------------------------
(***************************************************************************)
(* Programs written down for model checking: an expression is a tuple of   *)
(* expressions, an atom a model value.                                     *)
(***************************************************************************)
EXTENDS Eval, Data, TLC

CONSTANTS
  (* the names of the primitive procedures, variables, constants           *)
  plus_, nullp_, eqp_, cons_, car_, cdr_, set_car_, set_cdr_, list_, apply_, eval_,
  environment_, null_environment_,
  f, x, y, one, two,
  StringLiteral

MCVariable == {plus_, nullp_, eqp_, cons_, car_, cdr_, set_car_, set_cdr_, list_, apply_,
               eval_, environment_, null_environment_, f, x, y}
MCInitEnvironment ==
  (plus_ :> add_procedure) @@ (nullp_ :> is_empty_procedure) @@ (eqp_ :> is_eq_procedure) @@
  (cons_ :> cons_procedure) @@ (car_ :> car_procedure) @@ (cdr_ :> cdr_procedure) @@
  (set_car_ :> set_car_procedure) @@ (set_cdr_ :> set_cdr_procedure) @@
  (list_ :> list_procedure) @@ (apply_ :> apply_procedure) @@ (eval_ :> eval_procedure) @@
  (environment_ :> interaction_environment_procedure) @@
  (null_environment_ :> null_environment_procedure)

Numeral == (one :> 1) @@ (two :> 2)
Atom == Symbol \union StringLiteral \union {true, false, the_empty_list, one, two}

-----------------------------------------------------------------------------
(* The datum that a tuple is written for. *)
RECURSIVE Tree(_)
Tree(e) ==
  IF e \in DOMAIN Numeral THEN Number(Numeral[e])
  ELSE IF e \in StringLiteral THEN String(e)
  ELSE IF e \in Atom THEN e
  ELSE IF e = << >> THEN the_empty_list
  ELSE DataPair(Tree(Head(e)), Tree(Tail(e)))

(* Its objects, behind others that there are, and the pointer to it. *)
RECURSIVE Read(_, _)
Read(objects, datum) ==
  IF datum \in Atom THEN [objects |-> objects, at |-> datum]
  ELSE IF datum.kind # "pair" THEN [objects |-> Append(objects, datum), at |-> Len(objects) + 1]
  ELSE LET first == Read(objects, datum.car)
           second == Read(first.objects, datum.cdr)
       IN  [objects |-> Append(second.objects, Pair(first.at, second.at)),
            at |-> Len(second.objects) + 1]

-----------------------------------------------------------------------------
(* Programs with definitions, recursion, assignments, apply and eval, with *)
(* their values; NULL is that of a program that ends the process.          *)

q(e) == <<quote_symbol, e>>

Effects == <<
  (* append, recursive and not in tail position *)
  <<<<begin_symbol,
      <<define_symbol, <<f, x, y>>,
         <<if_symbol, <<nullp_, x>>, y,
            <<cons_, <<car_, x>>, <<f, <<cdr_, x>>, y>>>>>>>>,
      <<f, q(<<x, y>>), q(<<f>>)>>>>,
    Tree(<<x, y, f>>)>>,
  (* reverse, with a tail call *)
  <<<<begin_symbol,
      <<define_symbol, <<f, x, y>>,
         <<cond_symbol, <<<<nullp_, x>>, y>>,
                        <<else_symbol, <<f, <<cdr_, x>>, <<cons_, <<car_, x>>, y>>>>>>>>>>,
      <<f, q(<<x, y, f>>), q(<< >>)>>>>,
    Tree(<<f, y, x>>)>>,
  (* a counter: an assignment to a captured variable *)
  <<<<begin_symbol,
      <<define_symbol, f,
         <<let_symbol, <<<<x, one>>>>,
            <<lambda_symbol, << >>,
               <<set_bang_symbol, x, <<plus_, x, one>>>>, x>>>>>>,
      <<f>>,
      <<eqp_, <<f>>, <<plus_, one, two>>>>>>,
    true>>,
  (* apply, with a primitive and with a compound procedure *)
  <<<<apply_, list_, q(x), q(<<y, f>>)>>, Tree(<<x, y, f>>)>>,
  <<<<apply_, <<lambda_symbol, <<x, y>>, <<cons_, y, x>>>>, q(<<x, y>>)>>,
    DataPair(y, x)>>,
  (* eval at the top level, called where x means something else *)
  <<<<begin_symbol,
      <<define_symbol, x, q(y)>>,
      <<let_symbol, <<<<x, q(f)>>>>,
         <<cons_, <<eval_, q(<<list_, x, x>>), <<environment_>>>>, x>>>>>>,
    DataPair(Tree(<<y, y>>), f)>>,
  (* eval where there is nothing but syntax *)
  <<<<eval_, q(<<let_symbol, <<<<x, q(y)>>>>, <<or_symbol, <<or_symbol>>, x>>>>),
      <<null_environment_>>>>, y>>,
  (* pairs that change, one becoming part of itself for a while *)
  <<<<let_symbol, <<<<x, <<list_, q(x), q(y)>>>>>>,
      <<set_cdr_, x, x>>, <<set_car_, <<cdr_, x>>, q(f)>>,
      <<set_cdr_, x, <<car_, x>>>>, x>>,
    DataPair(f, f)>>,
  (* a conditional with several actions, and without any case that applies *)
  <<<<cond_symbol, <<<<and_symbol>>, <<list_, two>>, <<list_, one, two>>>>, <<true, one>>>>,
    Tree(<<one, two>>)>>,
  <<<<begin_symbol, <<set_bang_symbol, y, one>>,
      <<cond_symbol, <<<<or_symbol>>, one>>>>>>, false>>,
  (* the errors that end the process *)
  <<<<cons_, <<list_, one>>, y>>, NULL>>,
  <<<<cond_symbol, <<else_symbol, one>>, <<true, two>>>>, NULL>>,
  <<<<cond_symbol, <<true>>>>, NULL>>,
  <<<<eval_, <<list_, cons_, one, two>>, <<environment_>>>>, NULL>>,
  <<<<apply_, apply_, <<list_, car_, q(<<x>>)>>>>, NULL>>,
  <<<<apply_, eval_, <<list_, one, <<environment_>>>>>>, NULL>>
>>
=============================================================================
