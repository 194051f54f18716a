----------------------------- MODULE MCSession -----------------------------
(***************************************************************************)
(* Sessions, and what they should print.                                   *)
(***************************************************************************)
EXTENDS Expressions, Session

CONSTANTS
  load_, read_, write_, display_, error_, start_, gc_info_,
  booleanp_, symbolp_, integerp_, stringp_, pairp_, procedurep_, eofp_,
  lib, outer, empty, info, missing

MCOtherPrimitive ==
  {load_procedure, read_procedure, write_procedure, display_procedure, error_procedure,
   start_environment_procedure, gc_info_procedure} \union predicates
SessionNames ==
  (load_ :> load_procedure) @@
  (read_ :> read_procedure) @@
  (write_ :> write_procedure) @@
  (display_ :> display_procedure) @@
  (error_ :> error_procedure) @@
  (start_ :> start_environment_procedure) @@
  (gc_info_ :> gc_info_procedure) @@
  (booleanp_ :> is_boolean_procedure) @@
  (symbolp_ :> is_symbol_procedure) @@
  (integerp_ :> is_integer_procedure) @@
  (stringp_ :> is_string_procedure) @@
  (pairp_ :> is_pair_procedure) @@
  (procedurep_ :> is_procedure_procedure) @@
  (eofp_ :> is_eof_procedure)
SessionVariable == MCVariable \union DOMAIN SessionNames
SessionEnvironment == MCInitEnvironment @@ SessionNames

-----------------------------------------------------------------------------

Trees(es) == [i \in DOMAIN es |-> Read(<< >>, Tree(es[i]))]
none == [f_ \in {} |-> << >>]

(* What is typed, the files, what is printed by the loop, and how it ends.  *)
Typed(es, files, values, end) ==
  [stdin |-> Trees(es), arguments |-> << >>, files |-> files, end |-> end,
   printed |-> [i \in DOMAIN values |-> [by |-> "write", datum |-> values[i]]]]
Given(texts, values, end) ==
  [Typed(<< >>, none, values, end) EXCEPT !.arguments = [i \in DOMAIN texts |-> Trees(texts[i])]]

counter ==
  <<define_symbol, f,
    <<let_symbol, <<<<x, one>>>>,
      <<lambda_symbol, << >>, <<set_bang_symbol, x, <<plus_, x, one>>>>, x>>>>>>
library ==
  Trees(<<<<define_symbol, x, q(y)>>,
          <<define_symbol, <<f, y>>, <<cons_, x, <<list_, y>>>>>>>>)
files_ ==
  (lib :> library) @@
  (outer :> Trees(<<<<load_, lib>>, <<f, <<list_, x, one>>>>>>)) @@
  (info :> Trees(<<<<gc_info_>>, q(x)>>))
L(s) == Tree(s)

(* The programs with effects, each typed before itself and before the next: *)
(* none depends on what another one has defined.                           *)
Values == SelectSeq(Effects, LAMBDA e : e[2] # NULL)
Exits == SelectSeq(Effects, LAMBDA e : e[2] = NULL)
EffectSessions ==
  {LET a == Values[i]  b == Values[((i + d - 1) % Len(Values)) + 1]
   IN  Typed(<<a[1], b[1]>>, none, <<a[2], b[2]>>, "crashed") : i \in DOMAIN Values, d \in 0..1} \union
  {Typed(<<Values[1][1], Exits[i][1]>>, none, <<Values[1][2]>>, "exited") : i \in DOMAIN Exits}

Sessions == EffectSessions \union {
  (* an assignment outlives the input that made it *)
  Typed(<<counter, <<f>>, <<f>>>>, none, <<ok_symbol, Number(2), Number(3)>>, "crashed"),
  (* a file defines at the top level, wherever it is loaded from *)
  Typed(<<<<let_symbol, <<<<x, q(f)>>>>, <<cons_, <<load_, lib>>, x>>>>, <<f, x>>>>, files_,
        <<DataPair(ok_symbol, f), L(<<y, y>>)>>, "crashed"),
  Typed(<<<<load_, outer>>>>, files_, <<L(<<y, <<y, one>>>>)>>, "crashed"),
  (* that is, at the top of the environment it is loaded in *)
  Typed(<<<<eval_, q(<<load_, lib>>), <<start_>>>>, x>>, files_, <<ok_symbol>>, "exited"),
  Typed(<<one, <<load_, missing>>>>, files_, <<Number(1)>>, "exited"),
  (* the program reads what follows it *)
  Typed(<<<<cons_, <<read_>>, <<list_, one>>>>, <<x, y>>, <<eofp_, <<read_>>>>>>, none,
        <<L(<<<<x, y>>, one>>), true>>, "crashed"),
  (* files of which no expression has been evaluated yet, or ever is *)
  Typed(<<<<load_, info>>>>, files_, <<x>>, "crashed"),
  Typed(<<<<begin_symbol, <<load_, empty>>, <<list_, one>>>>>>, empty :> << >>,
        <<L(<<one>>)>>, "crashed"),
  Typed(<<<<load_, empty>>>>, empty :> << >>, <<Wild>>, "crashed"),
  (* only the first datum of an argument counts, and there must be one *)
  Given(<<<<<<define_symbol, x, q(y)>>, <<error_>>>>, <<<<list_, x, x>>>>>>,
        <<ok_symbol, L(<<y, y>>)>>, "returned"),
  Given(<<<<one>>, << >>, <<two>>>>, <<Number(1)>>, "crashed"),
  (* the predicates *)
  Typed(<<<<list_, <<booleanp_, <<pairp_, q(<<x>>)>>>>, <<symbolp_, q(x)>>, <<symbolp_, true>>,
            <<integerp_, one>>, <<stringp_, lib>>, <<stringp_, q(lib)>>, <<pairp_, q(<< >>)>>,
            <<procedurep_, car_>>, <<procedurep_, <<lambda_symbol, <<x>>, x>>>>,
            <<procedurep_, q(car_)>>, <<eqp_, lib, lib>>>>>>, none,
        <<L(<<true, true, false, true, true, true, false, true, true, false, true>>)>>,
        "crashed"),
  (* what is printed meanwhile *)
  [Typed(<<<<begin_symbol, <<display_, lib>>, <<write_, <<list_, one>>>>,
                           <<error_, q(x), <<list_, two>>>>>>>>, none, << >>, "exited")
     EXCEPT !.printed = <<[by |-> "display", datum |-> String(lib)],
                          [by |-> "write", datum |-> L(<<one>>)],
                          [by |-> "error", datum |-> x],
                          [by |-> "error", datum |-> L(<<two>>)]>>]
}

(* What the proofs ask of texts. *)
ASSUME TextsAreRead

-----------------------------------------------------------------------------
(* Each input has its value printed, in order, whatever the inputs before   *)
(* it have loaded, defined or assigned, and the process ends as it should;  *)
(* but for a crash while a file is loaded or its missing value printed.  And *)
(* the programs are what the code takes them for.                          *)
PrintsWhatItShould ==
  /\ WellFormed /\ IsPrefix(printed, program.printed)
  /\ Ended => \/ /\ printed = program.printed
                 /\ program.end = IF crashed THEN "crashed" ELSE IF exited THEN "exited" ELSE "returned"
              \/ crashed /\ \E i \in DOMAIN stack : stack[i].fn = "load"
=============================================================================
