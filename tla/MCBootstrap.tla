---------------------------- MODULE MCBootstrap ----------------------------
(***************************************************************************)
(* A few of the procedures, two of them with one function, and a few of    *)
(* the names of syntax.                                                    *)
(***************************************************************************)
EXTENDS Bootstrap

MCDeclarations ==
  <<[name |-> "+", fn |-> "add_procedure"],
    [name |-> "empty?", fn |-> "is_empty_procedure"],
    [name |-> "null?", fn |-> "is_empty_procedure"],
    [name |-> "environment", fn |-> "start_environment_procedure"]>>
MCSyntax == <<"quote", "define", "or">>
=============================================================================
