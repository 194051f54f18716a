------------------------------- MODULE MCEval -------------------------------
(***************************************************************************)
(* Programs for the evaluator, and what Scheme says of them.               *)
(***************************************************************************)
EXTENDS Expressions

Program(e, value) ==
  LET stored == Read(<<NULL>>, Tree(e))
  IN  [objects |-> Tail(stored.objects), exp |-> stored.at, value |-> value]

-----------------------------------------------------------------------------
(* Scheme without side effects: the value of an expression, where rho      *)
(* binds the variables.                                                    *)

Closure(params, body, rho) == [kind |-> "procedure", params |-> params, body |-> body, rho |-> rho]
RECURSIVE Meaning(_, _)
Meaning(e, rho) ==
  LET last(s) == s[Len(s)]
      tag == IF e \in Atom THEN NULL ELSE e[1]
      m(i) == Meaning(e[i], rho)
  IN CASE e \in DOMAIN Numeral -> Number(Numeral[e])
       [] e \in {true, false} -> e
       [] e \in Symbol -> rho[e]
       [] tag = quote_symbol -> Tree(e[2])
       [] tag = if_symbol -> IF m(2) # false THEN m(3) ELSE m(4)
       [] tag = lambda_symbol -> Closure(e[2], e[3], rho)
       [] tag = begin_symbol -> m(Len(e))
       [] tag = or_symbol ->
            LET true_ == {i \in 2..Len(e) : m(i) # false}
            IN  IF true_ = {} THEN false ELSE m(CHOOSE i \in true_ : \A j \in true_ : i <= j)
       [] tag = and_symbol ->
            LET false_ == {i \in 2..Len(e) : m(i) = false}
            IN  IF false_ # {} THEN false ELSE IF Len(e) = 1 THEN true ELSE m(Len(e))
       [] tag = cond_symbol ->
            LET taken == {i \in 2..Len(e) : e[i][1] = else_symbol \/ Meaning(e[i][1], rho) # false}
            IN  IF taken = {} THEN false
                ELSE Meaning(last(e[CHOOSE i \in taken : \A j \in taken : i <= j]), rho)
       [] tag = let_symbol ->
            LET vals == [i \in DOMAIN e[2] |-> Meaning(e[2][i][2], rho)]
                bound == {e[2][i][1] : i \in DOMAIN e[2]}
                val(v) == vals[CHOOSE i \in DOMAIN e[2] : e[2][i][1] = v]
            IN  Meaning(e[3], [v \in bound |-> val(v)] @@ rho)
       [] OTHER ->
            LET p == m(1)  a == [i \in 1..(Len(e) - 1) |-> m(i + 1)]
            IN CASE p = cons_procedure -> DataPair(a[1], a[2])
                 [] p = car_procedure -> a[1].car
                 [] p = is_empty_procedure -> Truth(a[1] = the_empty_list)
                 [] OTHER -> Meaning(p.body, [v \in Range(p.params) |->
                                a[CHOOSE i \in DOMAIN p.params : p.params[i] = v]] @@ p.rho)

-----------------------------------------------------------------------------
(* All small expressions without side effects, in which x is a list *)

Forms(A, B, C) ==
  {<<if_symbol, a, b, c>> : a \in A, b \in B, c \in C} \union
  {<<cond_symbol, <<a, b>>, <<else_symbol, x, c>>>> : a \in A, b \in B, c \in C} \union
  {<<s, a, b>> : s \in {or_symbol, and_symbol, begin_symbol, cons_}, a \in A, b \in B} \union
  {<<let_symbol, <<<<y, a>>, <<x, b>>>>, <<cons_, x, y>>>> : a \in A, b \in B} \union
  {<<<<lambda_symbol, <<x>>, a>>, b>> : a \in A, b \in B}
Leaf == {x, false}
Small == Forms(Leaf, Leaf, Leaf)
Expression == Forms(Small, Leaf, {one}) \union Forms(Leaf, Small, {one})
              \union Forms({false}, Leaf, Small)

Wrapped(e) == <<let_symbol, <<<<x, <<quote_symbol, <<f>>>>>>>>, e>>
FunctionalPrograms == {Program(Wrapped(e), Meaning(Wrapped(e), MCInitEnvironment)) : e \in Expression}

-----------------------------------------------------------------------------
EffectPrograms == {Program(Effects[i][1], Effects[i][2]) : i \in DOMAIN Effects}
AllPrograms == FunctionalPrograms \union EffectPrograms
ASSUME ProgramsAreRead

-----------------------------------------------------------------------------
(* The value that comes out is the one that Scheme gives the program, and   *)
(* the process exits where it should: whatever was rewritten and whenever   *)
(* garbage was collected.                                                   *)
ResultIsRight ==
  /\ WellFormed
  /\ Done /\ ~ exited => Datum(ret) = program.value
  /\ exited => program.value = NULL
=============================================================================
