----------------------------- MODULE EvalProofs -----------------------------
(***************************************************************************)
(* Nothing that the evaluator roots or saves is lost or left behind: for   *)
(* every program, every heap and every depth of calls.  The invariant,     *)
(* Coherent, says of each frame of the C stack which block of the root list *)
(* and which of the saved environments are its own.                        *)
(*                                                                         *)
(* An action does one of four things to the frames, see Acts below, whatever *)
(* else it does: the running function goes on, calls another, returns, or  *)
(* the process ends.  There is a lemma that each of the four keeps the     *)
(* invariant, and a lemma for each group of actions that they are such.    *)
(*                                                                         *)
(* And nothing that the evaluator has still to read is freed.  The second  *)
(* invariant, Alive, says what keeps each variable of each frame alive: a  *)
(* root of its own; for what is left of the operands, the list of them that *)
(* a caller has rooted; for what builds an expression, the expression that  *)
(* is taken apart.  No object points to a freed one, so what a collection   *)
(* leaves is good to read.  A step does two things: it changes the heap, as *)
(* Saved keeps what the waiting frames read, and it changes the frames.     *)
(* For sessions there are two more: Texts, of what is being read, and Loads, *)
(* that each load on the stack has its file.                               *)
(***************************************************************************)
EXTENDS Session, Facts

(* A frame: only eval and load push environments, and an eval that is about *)
(* to extend the environment has pushed one.                                *)
FrameOK(f) ==
  /\ f = [fn |-> f.fn, at |-> f.at, var |-> f.var, pops |-> f.pops,
          entered |-> f.entered, saved |-> f.saved]
  /\ f.pops \in Nat /\ f.saved \in Nat
  /\ f.pops > 0 => f.fn \in {"eval", "load"}
  /\ f.fn = "eval" /\ f.at \in {"extend", "body"} => f.pops > 0

(* The environment in force for the frame i: the one that it will be given  *)
(* back when what it has called returns.                                    *)
EnvOf(i) == IF i = Len(stack) THEN env ELSE stack[i + 1].entered

(* Each frame has rooted its variables in a block of the list, and what was *)
(* saved since it was entered is what it will pop, the first its own.       *)
RootsMatch ==
  /\ Sorted(roots, Len(stack))
  /\ \A i \in 1..Len(stack) : HasBlock(roots, i, RootNames(stack[i]))

EnvironmentsMatch ==
  /\ IF stack = << >> THEN environment_stack = << >> ELSE stack[1].saved = 0
  /\ \A i \in 1..Len(stack) :
       /\ SavedAfter(i) = stack[i].saved + stack[i].pops
       /\ stack[i].saved + stack[i].pops <= Len(environment_stack)
       /\ \A j \in 1..Len(stack) : i < j => stack[i].saved + stack[i].pops <= stack[j].saved
       /\ IF stack[i].pops > 0 THEN environment_stack[stack[i].saved + 1] = stack[i].entered
          ELSE EnvOf(i) = stack[i].entered

(* The inductive invariant. *)
Coherent ==
  /\ IsSeq(stack) /\ IsSeq(roots) /\ IsSeq(environment_stack)
  /\ \A i \in 1..Len(stack) : FrameOK(stack[i])
  /\ exited \in BOOLEAN
  /\ IF exited THEN stack = << >> ELSE RootsMatch /\ EnvironmentsMatch

-----------------------------------------------------------------------------
(* What a step does *)

Below == WithoutBlock(roots, RootNames(Top))
SameCall(f) ==
  FrameOK(f) /\ f.fn = Top.fn /\ f.entered = Top.entered /\ f.saved = Top.saved
RootsOf(f) == WithBlock(Below, Len(stack), RootNames(f))

(* The running function goes on as f. *)
Goes(f) ==
  /\ SameCall(f) /\ stack' = TopBecomes(f) /\ roots' = RootsOf(f) /\ exited' = exited
  /\ f.fn = "load" => f.var.result = ret
  /\ \/ f.pops = Top.pops /\ environment_stack' = environment_stack
        /\ (env' = env \/ f.pops > 0)
     \/ f.pops = Top.pops + 1 /\ environment_stack' = Append(environment_stack, env)
(* It goes on as f when the function that it calls, g, returns. *)
Enters(f, g) ==
  /\ SameCall(f) /\ f.pops = Top.pops /\ FrameOK(g) /\ g.fn # "main"
  /\ f.fn = "load" => f.at = "result"
  /\ g.fn = "load" => \E file : loading' = Append(loading, file)
  /\ g.entered = env /\ g.saved = Len(environment_stack)
  /\ stack' = Append(TopBecomes(f), g) /\ exited' = exited
  /\ roots' = WithBlock(RootsOf(f), Len(stack) + 1, RootNames(g))
  /\ \/ g.pops = 0 /\ UNCHANGED <<env, environment_stack>>
     \/ g.pops = 1 /\ environment_stack' = Append(environment_stack, env)
Leaves ==
  /\ stack' = Front(stack) /\ roots' = Below /\ exited' = exited
  /\ PopEnvironments(Top.pops)
  /\ Top.fn = "load" => loading' = Front(loading)
Exits == stack' = << >> /\ exited' = TRUE /\ UNCHANGED <<roots, environment_stack>>
Acts ==
  stack # << >> /\ ((\E f : Goes(f)) \/ (\E f, g : Enters(f, g)) \/ Leaves \/ Exits)

-----------------------------------------------------------------------------
(* What holds of the frames and their roots *)

LEMMA NamesFacts == \A f : IsSeq(RootNames(f)) /\ Len(RootNames(f)) \in 0..3
<1> TAKE f
<1>1. RootNames(f) \in {<<"exp", "proc", "args">>, <<"exp">>, <<"tmp">>, <<"vars", "inits">>, <<"result">>, << >>}
  BY DEF RootNames
<1>2. IsSeq(<<"exp", "proc", "args">>) /\ Len(<<"exp", "proc", "args">>) = 3  BY Tuples
<1>3. IsSeq(<<"vars", "inits">>) /\ Len(<<"vars", "inits">>) = 2  BY Tuples
<1>4. IsSeq(<<"exp">>) /\ Len(<<"exp">>) = 1  BY Tuples
<1>5. IsSeq(<<"tmp">>) /\ Len(<<"tmp">>) = 1  BY Tuples
<1>6. IsSeq(<<"result">>) /\ Len(<<"result">>) = 1  BY Tuples
<1>7. IsSeq(<< >>) /\ Len(<< >>) = 0  BY Tuples
<1>8. IsSeq(RootNames(f))  BY <1>1, <1>2, <1>3, <1>4, <1>5, <1>6, <1>7
<1>9. Len(RootNames(f)) \in {0, 1, 2, 3}  BY <1>1, <1>2, <1>3, <1>4, <1>5, <1>6, <1>7
<1> QED BY <1>8, <1>9

LEMMA NotExited == Coherent /\ stack # << >> => ~ exited
  BY DEF Coherent

LEMMA TopFacts ==
  ASSUME Coherent, stack # << >>
  PROVE  /\ Len(stack) \in Nat \ {0} /\ Top = stack[Len(stack)] /\ FrameOK(Top)
         /\ Len(environment_stack) \in Nat /\ Top.saved + Top.pops = Len(environment_stack)
<1>1. Len(stack) \in Nat \ {0}  BY SeqFacts DEF Coherent
<1>2. Top = stack[Len(stack)]  BY DEF Top, Last
<1>3. Len(environment_stack) \in Nat  BY SeqFacts DEF Coherent
<1>4. Len(stack) \in 1..Len(stack)  BY <1>1
<1>5. Top.saved + Top.pops = Len(environment_stack)
  BY <1>2, <1>4, NotExited DEF Coherent, EnvironmentsMatch, SavedAfter
<1> QED BY <1>1, <1>2, <1>3, <1>4, <1>5 DEF Coherent

(* The roots of the running function are the last ones.                     *)
LEMMA BelowFacts ==
  ASSUME Coherent, stack # << >>
  PROVE  /\ IsSeq(Below) /\ Sorted(Below, Len(stack) - 1)
         /\ Len(RootNames(Top)) <= Len(roots)
         /\ roots = RootsOf(Top)
         /\ \A i \in 1..(Len(stack) - 1) : HasBlock(Below, i, RootNames(stack[i]))
<1>1. Len(stack) \in Nat \ {0} /\ Top = stack[Len(stack)]  BY TopFacts
<1>2. /\ IsSeq(roots) /\ Sorted(roots, Len(stack))
      /\ \A i \in 1..Len(stack) : HasBlock(roots, i, RootNames(stack[i]))
  BY NotExited DEF Coherent, RootsMatch
<1>3. HasBlock(roots, Len(stack), RootNames(Top))  BY <1>1, <1>2
<1>4. IsSeq(RootNames(Top))  BY NamesFacts
<1>5. /\ Len(RootNames(Top)) <= Len(roots)
      /\ IsSeq(Below) /\ Sorted(Below, Len(stack) - 1)
      /\ roots = WithBlock(Below, Len(stack), RootNames(Top))
      /\ \A i \in 1..(Len(stack) - 1) : \A old : IsSeq(old) /\ HasBlock(roots, i, old) => HasBlock(Below, i, old)
  BY <1>1, <1>2, <1>3, <1>4, PopBlock DEF Below
<1>6. \A i \in 1..(Len(stack) - 1) : HasBlock(Below, i, RootNames(stack[i]))
  BY <1>1, <1>2, <1>5, NamesFacts
<1> QED BY <1>5, <1>6 DEF RootsOf

LEMMA RootsOfFacts ==
  ASSUME Coherent, stack # << >>, NEW f
  PROVE  /\ IsSeq(RootsOf(f)) /\ Sorted(RootsOf(f), Len(stack))
         /\ HasBlock(RootsOf(f), Len(stack), RootNames(f))
         /\ \A i \in 1..(Len(stack) - 1) : HasBlock(RootsOf(f), i, RootNames(stack[i]))
<1>1. Len(stack) \in Nat \ {0}  BY TopFacts
<1>2. IsSeq(RootNames(f))  BY NamesFacts
<1>3. /\ IsSeq(RootsOf(f)) /\ Sorted(RootsOf(f), Len(stack))
      /\ HasBlock(RootsOf(f), Len(stack), RootNames(f))
      /\ \A i \in 1..(Len(stack) - 1) : \A old :
           IsSeq(old) /\ HasBlock(Below, i, old) => HasBlock(RootsOf(f), i, old)
  BY <1>1, <1>2, BelowFacts, PushBlock DEF RootsOf
<1> QED BY <1>3, BelowFacts, NamesFacts

-----------------------------------------------------------------------------
(* The invariant, frame by frame. *)
LEMMA FrameFacts ==
  ASSUME Coherent, NEW i \in 1..Len(stack)
  PROVE  /\ FrameOK(stack[i]) /\ stack # << >> /\ ~ exited
         /\ SavedAfter(i) = stack[i].saved + stack[i].pops
         /\ stack[i].saved + stack[i].pops <= Len(environment_stack)
         /\ \A j \in 1..Len(stack) : i < j => stack[i].saved + stack[i].pops <= stack[j].saved
         /\ stack[i].pops > 0 => environment_stack[stack[i].saved + 1] = stack[i].entered
         /\ stack[i].pops = 0 => EnvOf(i) = stack[i].entered
<1>1. stack # << >>  BY Tuples
<1>2. ~ exited  BY <1>1, NotExited
<1> QED BY <1>1, <1>2 DEF Coherent, EnvironmentsMatch, FrameOK

LEMMA GoesKeeps ==
  ASSUME Coherent, stack # << >>, NEW f, Goes(f)
  PROVE  Coherent'
<1> DEFINE n == Len(stack)
           e == Len(environment_stack)
<1>1. /\ n \in Nat \ {0} /\ Top = stack[n] /\ FrameOK(Top)
      /\ e \in Nat /\ Top.saved + Top.pops = e /\ n \in 1..n
  BY TopFacts
<1>2. /\ IsSeq(stack') /\ Len(stack') = n /\ stack'[n] = f
      /\ \A i \in 1..n : i # n => stack'[i] = stack[i]
  <2>1. IsSeq(stack)  BY DEF Coherent
  <2>2. stack' = [stack EXCEPT ![n] = f]  BY DEF Goes, TopBecomes
  <2>3. IsSeq([stack EXCEPT ![n] = f]) /\ Len([stack EXCEPT ![n] = f]) = n
    BY <1>1, <2>1, ExceptFacts
  <2>4. \A i \in 1..n : i # n => [stack EXCEPT ![n] = f][i] = stack[i]
    BY <1>1, <2>1, ExceptFacts
  <2>5. [stack EXCEPT ![n] = f][n] = f
    BY <1>1, <2>1, ExceptFacts
  <2> QED BY <2>2, <2>3, <2>4, <2>5
<1>3. FrameOK(f) /\ f.fn = Top.fn /\ f.entered = Top.entered /\ f.saved = Top.saved
      /\ f.saved \in Nat /\ f.pops \in Nat /\ Top.pops \in Nat
  BY <1>1 DEF Goes, SameCall, FrameOK
<1>4. ~ exited /\ ~ exited' /\ exited' \in BOOLEAN  BY NotExited DEF Goes, Coherent
<1>5. IsSeq(roots') /\ RootsMatch'
  <2>1. roots' = RootsOf(f)  BY DEF Goes
  <2>2. IsSeq(roots') /\ Sorted(roots', n)  BY <2>1, RootsOfFacts
  <2>3. ASSUME NEW i \in 1..n  PROVE HasBlock(roots', i, RootNames(stack'[i]))
    <3>1. CASE i = n  BY <3>1, <2>1, <1>2, RootsOfFacts
    <3>2. CASE i # n
      <4>1. i \in 1..(n - 1)  BY <3>2, <1>1
      <4>2. HasBlock(RootsOf(f), i, RootNames(stack[i]))  BY <4>1, RootsOfFacts
      <4> QED BY <4>2, <2>1, <1>2, <3>2
    <3> QED BY <3>1, <3>2
  <2> QED BY <1>2, <2>2, <2>3 DEF RootsMatch
<1>6. /\ IsSeq(environment_stack') /\ Len(environment_stack') = f.saved + f.pops
      /\ Len(environment_stack') >= e
      /\ \A k \in 1..e : environment_stack'[k] = environment_stack[k]
  <2>1. IsSeq(environment_stack)  BY DEF Coherent
  <2>2. CASE f.pops = Top.pops /\ environment_stack' = environment_stack
    BY <2>1, <2>2, <1>1, <1>3
  <2>3. CASE f.pops = Top.pops + 1 /\ environment_stack' = Append(environment_stack, env)
    <3>1. IsSeq(environment_stack')  BY <2>1, <2>3, AppendFacts
    <3>2. Len(environment_stack') = e + 1  BY <2>1, <2>3, AppendFacts
    <3>3. \A k \in 1..e : environment_stack'[k] = environment_stack[k]  BY <2>1, <2>3, AppendFacts
    <3> QED BY <3>1, <3>2, <3>3, <2>3, <1>1, <1>3
  <2> QED BY <2>2, <2>3 DEF Goes
<1>7. f.pops > 0 => environment_stack'[f.saved + 1] = f.entered
  <2> SUFFICES ASSUME f.pops > 0 PROVE environment_stack'[f.saved + 1] = f.entered
    OBVIOUS
  <2>1. CASE Top.pops > 0
    <3>1. environment_stack[Top.saved + 1] = Top.entered  BY <1>1, <2>1, FrameFacts
    <3>2. f.saved + 1 \in 1..e  BY <1>1, <1>3, <2>1
    <3> QED BY <3>1, <3>2, <1>3, <1>6
  <2>2. CASE Top.pops = 0
    <3>1. environment_stack' = Append(environment_stack, env)  BY <1>3, <2>2 DEF Goes
    <3>2. environment_stack'[e + 1] = env  BY <3>1, AppendFacts DEF Coherent
    <3>3. EnvOf(n) = Top.entered  BY <1>1, <2>2, FrameFacts
    <3>4. f.saved + 1 = e + 1  BY <1>1, <1>3, <2>2
    <3> QED BY <3>2, <3>3, <3>4, <1>3 DEF EnvOf
  <2> QED BY <2>1, <2>2, <1>3
<1>8. f.pops = 0 => env' = f.entered
  <2> SUFFICES ASSUME f.pops = 0 PROVE env' = f.entered
    OBVIOUS
  <2>1. Top.pops = 0 /\ env' = env  BY <1>3 DEF Goes
  <2>2. EnvOf(n) = Top.entered  BY <1>1, <2>1, FrameFacts
  <2> QED BY <2>1, <2>2, <1>3 DEF EnvOf
<1>9. stack'[1].saved = 0 /\ stack' # << >>
  <2>1. 1 \in 1..n  BY <1>1
  <2>2. stack[1].saved = 0  BY <1>4 DEF Coherent, EnvironmentsMatch
  <2>3. stack'[1].saved = stack[1].saved  BY <2>1, <1>1, <1>2, <1>3
  <2>4. stack' # << >>  BY <1>1, <1>2, Tuples
  <2> QED BY <2>2, <2>3, <2>4
<1>10. ASSUME NEW i \in 1..n
       PROVE  /\ FrameOK(stack'[i])
              /\ SavedAfter(i)' = stack'[i].saved + stack'[i].pops
              /\ stack'[i].saved + stack'[i].pops <= Len(environment_stack')
              /\ \A j \in 1..n : i < j => stack'[i].saved + stack'[i].pops <= stack'[j].saved
              /\ IF stack'[i].pops > 0 THEN environment_stack'[stack'[i].saved + 1] = stack'[i].entered
                 ELSE EnvOf(i)' = stack'[i].entered
  <2>1. CASE i = n
    <3>1. SavedAfter(i)' = Len(environment_stack') /\ EnvOf(i)' = env'
      BY <2>1, <1>2 DEF SavedAfter, EnvOf
    <3>2. ~ \E j \in 1..n : i < j  BY <2>1, <1>1
    <3>3. stack'[i] = f  BY <2>1, <1>2
    <3> QED BY <3>1, <3>2, <3>3, <1>3, <1>6, <1>7, <1>8
  <2>2. CASE i # n
    <3>1. stack'[i] = stack[i] /\ i + 1 \in 1..n  BY <2>2, <1>1, <1>2
    <3>2. stack'[i + 1].saved = stack[i + 1].saved /\ stack'[i + 1].entered = stack[i + 1].entered
      BY <3>1, <1>1, <1>2, <1>3
    <3>3. SavedAfter(i)' = SavedAfter(i) /\ EnvOf(i)' = EnvOf(i)
      BY <3>2, <2>2, <1>2 DEF SavedAfter, EnvOf
    <3>4. stack[i].saved \in Nat /\ stack[i].pops \in Nat  BY FrameFacts DEF FrameOK
    <3>5. stack[i].saved + stack[i].pops <= e  BY FrameFacts
    <3>6. \A j \in 1..n : stack'[j].saved = stack[j].saved  BY <1>1, <1>2, <1>3
    <3>7. ASSUME stack[i].pops > 0
          PROVE  environment_stack'[stack[i].saved + 1] = stack[i].entered
      <4>1. stack[i].saved + 1 \in 1..e  BY <3>4, <3>5, <3>7, <1>1
      <4>2. environment_stack[stack[i].saved + 1] = stack[i].entered  BY <3>7, FrameFacts
      <4> QED BY <4>1, <4>2, <1>6
    <3>8. stack[i].saved + stack[i].pops <= Len(environment_stack')
      <4>1. Len(environment_stack') \in Nat  BY <1>3, <1>6
      <4> QED BY <4>1, <3>4, <3>5, <1>1, <1>6
    <3>9. FrameOK(stack[i]) /\ SavedAfter(i) = stack[i].saved + stack[i].pops
          /\ (stack[i].pops = 0 => EnvOf(i) = stack[i].entered)
          /\ \A j \in 1..n : i < j => stack[i].saved + stack[i].pops <= stack[j].saved
      BY FrameFacts
    <3> QED BY <3>1, <3>3, <3>4, <3>6, <3>7, <3>8, <3>9
  <2> QED BY <2>1, <2>2
<1>11. EnvironmentsMatch'
  BY <1>2, <1>9, <1>10 DEF EnvironmentsMatch
<1> QED BY <1>2, <1>4, <1>5, <1>6, <1>10, <1>11 DEF Coherent

LEMMA EntersKeeps ==
  ASSUME Coherent, stack # << >>, NEW f, NEW g, Enters(f, g)
  PROVE  Coherent'
<1> DEFINE n == Len(stack)
           e == Len(environment_stack)
<1>1. /\ n \in Nat \ {0} /\ Top = stack[n] /\ FrameOK(Top)
      /\ e \in Nat /\ Top.saved + Top.pops = e /\ n \in 1..n
  BY TopFacts
<1>2. /\ IsSeq(stack') /\ Len(stack') = n + 1 /\ stack'[n] = f /\ stack'[n + 1] = g
      /\ \A i \in 1..n : i # n => stack'[i] = stack[i]
  <2> DEFINE s == TopBecomes(f)
  <2>1. IsSeq(stack)  BY DEF Coherent
  <2>2. IsSeq(s) /\ Len(s) = n /\ s[n] = f /\ \A i \in 1..n : i # n => s[i] = stack[i]
    BY <1>1, <2>1, ExceptFacts DEF TopBecomes
  <2>3. stack' = Append(s, g)  BY DEF Enters
  <2> HIDE DEF s
  <2>4. IsSeq(stack')  BY <2>2, <2>3, AppendFacts
  <2>5. Len(stack') = n + 1  BY <2>2, <2>3, AppendFacts
  <2>6. \A i \in 1..n : stack'[i] = s[i]  BY <2>2, <2>3, AppendFacts
  <2>7. stack'[n + 1] = g  BY <2>2, <2>3, AppendFacts
  <2> QED BY <1>1, <2>2, <2>4, <2>5, <2>6, <2>7
<1>3. /\ FrameOK(f) /\ f.fn = Top.fn /\ f.entered = Top.entered /\ f.saved = Top.saved
      /\ f.pops = Top.pops /\ f.saved \in Nat /\ f.pops \in Nat /\ FrameOK(g)
      /\ g.entered = env /\ g.saved = e /\ g.pops \in {0, 1}
  BY <1>1 DEF Enters, SameCall, FrameOK
<1>4. ~ exited /\ ~ exited' /\ exited' \in BOOLEAN  BY NotExited DEF Enters, Coherent
<1>5. IsSeq(roots') /\ RootsMatch'
  <2> DEFINE r == RootsOf(f)
  <2>1. roots' = WithBlock(r, n + 1, RootNames(g))  BY DEF Enters
  <2>2. /\ IsSeq(r) /\ Sorted(r, n) /\ HasBlock(r, n, RootNames(f))
        /\ \A i \in 1..(n - 1) : HasBlock(r, i, RootNames(stack[i]))
    BY RootsOfFacts
  <2> HIDE DEF r
  <2>3. \A i \in 1..n : HasBlock(r, i, RootNames(stack'[i]))
    <3> TAKE i \in 1..n
    <3>1. CASE i = n  BY <3>1, <1>2, <2>2
    <3>2. CASE i # n
      <4>1. i \in 1..(n - 1)  BY <3>2, <1>1
      <4> QED BY <4>1, <3>2, <1>2, <2>2
    <3> QED BY <3>1, <3>2
  <2>4. n + 1 \in Nat \ {0} /\ (n + 1) - 1 = n  BY <1>1
  <2>5. Sorted(r, (n + 1) - 1)  BY <2>2, <2>4
  <2>6. IsSeq(roots') /\ Sorted(roots', n + 1) /\ HasBlock(roots', n + 1, RootNames(g))
        /\ \A i \in 1..((n + 1) - 1) : \A old : IsSeq(old) /\ HasBlock(r, i, old) => HasBlock(roots', i, old)
    BY <2>1, <2>2, <2>4, <2>5, NamesFacts, PushBlock
  <2>7. ASSUME NEW i \in 1..(n + 1)  PROVE HasBlock(roots', i, RootNames(stack'[i]))
    <3>1. CASE i = n + 1  BY <3>1, <1>2, <2>6
    <3>2. CASE i # n + 1
      <4>1. i \in 1..n /\ i \in 1..((n + 1) - 1)  BY <3>2, <1>1
      <4>2. HasBlock(r, i, RootNames(stack'[i]))  BY <4>1, <2>3
      <4>3. IsSeq(RootNames(stack'[i]))  BY NamesFacts
      <4> QED BY <4>1, <4>2, <4>3, <2>6
    <3> QED BY <3>1, <3>2
  <2> QED BY <1>2, <2>6, <2>7 DEF RootsMatch
<1>6. /\ IsSeq(environment_stack') /\ Len(environment_stack') = e + g.pops
      /\ \A k \in 1..e : environment_stack'[k] = environment_stack[k]
  <2>1. IsSeq(environment_stack)  BY DEF Coherent
  <2>2. CASE g.pops = 0 /\ UNCHANGED <<env, environment_stack>>
    BY <2>1, <2>2, <1>1
  <2>3. CASE g.pops = 1 /\ environment_stack' = Append(environment_stack, env)
    <3>1. IsSeq(environment_stack')  BY <2>1, <2>3, AppendFacts
    <3>2. Len(environment_stack') = e + 1  BY <2>1, <2>3, AppendFacts
    <3>3. \A k \in 1..e : environment_stack'[k] = environment_stack[k]  BY <2>1, <2>3, AppendFacts
    <3> QED BY <3>1, <3>2, <3>3, <2>3
  <2> QED BY <2>2, <2>3 DEF Enters
<1>7. IF g.pops > 0 THEN environment_stack'[g.saved + 1] = g.entered ELSE env' = g.entered
  <2>1. CASE g.pops = 1 /\ environment_stack' = Append(environment_stack, env)
    <3>1. environment_stack'[e + 1] = env  BY <2>1, AppendFacts DEF Coherent
    <3> QED BY <3>1, <2>1, <1>3
  <2>2. CASE g.pops = 0 /\ UNCHANGED <<env, environment_stack>>
    BY <2>2, <1>3
  <2> QED BY <2>1, <2>2 DEF Enters
<1>8. \A i \in 1..n : /\ FrameOK(stack'[i])
                      /\ stack'[i].saved = stack[i].saved /\ stack'[i].pops = stack[i].pops
                      /\ stack'[i].entered = stack[i].entered
                      /\ stack[i].saved \in Nat /\ stack[i].pops \in Nat
  <2> TAKE i \in 1..n
  <2>1. FrameOK(stack[i])  BY FrameFacts
  <2>2. CASE i = n  BY <2>1, <2>2, <1>1, <1>2, <1>3 DEF FrameOK
  <2>3. CASE i # n  BY <2>1, <2>3, <1>2 DEF FrameOK
  <2> QED BY <2>2, <2>3
<1>9. stack'[1].saved = 0 /\ stack' # << >>
  <2>1. 1 \in 1..n  BY <1>1
  <2>2. stack[1].saved = 0  BY <1>4 DEF Coherent, EnvironmentsMatch
  <2>3. stack' # << >>  BY <1>1, <1>2, Tuples
  <2> QED BY <2>1, <2>2, <2>3, <1>8
<1>10. ASSUME NEW i \in 1..(n + 1)
       PROVE  /\ FrameOK(stack'[i])
              /\ SavedAfter(i)' = stack'[i].saved + stack'[i].pops
              /\ stack'[i].saved + stack'[i].pops <= Len(environment_stack')
              /\ \A j \in 1..(n + 1) : i < j => stack'[i].saved + stack'[i].pops <= stack'[j].saved
              /\ IF stack'[i].pops > 0 THEN environment_stack'[stack'[i].saved + 1] = stack'[i].entered
                 ELSE EnvOf(i)' = stack'[i].entered
  <2>1. CASE i = n + 1
    <3>1. SavedAfter(i)' = Len(environment_stack') /\ EnvOf(i)' = env'
      BY <2>1, <1>2 DEF SavedAfter, EnvOf
    <3>2. ~ \E j \in 1..(n + 1) : i < j  BY <2>1, <1>1
    <3>3. stack'[i] = g  BY <2>1, <1>2
    <3> QED BY <3>1, <3>2, <3>3, <1>1, <1>3, <1>6, <1>7, SMTT(30)
  <2>2. CASE i # n + 1
    <3>1. i \in 1..n  BY <2>2, <1>1
    <3>2. SavedAfter(i)' = SavedAfter(i) /\ EnvOf(i)' = EnvOf(i)
      <4>1. SavedAfter(i)' = stack'[i + 1].saved /\ EnvOf(i)' = stack'[i + 1].entered
        BY <2>2, <1>2 DEF SavedAfter, EnvOf
      <4>2. CASE i = n  BY <4>1, <4>2, <1>2, <1>3 DEF SavedAfter, EnvOf
      <4>3. CASE i # n
        <5>1. i + 1 \in 1..n  BY <4>3, <3>1, <1>1
        <5> QED BY <5>1, <4>1, <4>3, <1>8 DEF SavedAfter, EnvOf
      <4> QED BY <4>2, <4>3
    <3>3. /\ SavedAfter(i) = stack[i].saved + stack[i].pops
          /\ stack[i].saved + stack[i].pops <= e
          /\ \A j \in 1..n : i < j => stack[i].saved + stack[i].pops <= stack[j].saved
          /\ stack[i].pops > 0 => environment_stack[stack[i].saved + 1] = stack[i].entered
          /\ stack[i].pops = 0 => EnvOf(i) = stack[i].entered
      BY <3>1, FrameFacts
    <3>4. ASSUME stack[i].pops > 0
          PROVE  environment_stack'[stack[i].saved + 1] = stack[i].entered
      <4>1. stack[i].saved + 1 \in 1..e  BY <3>1, <3>3, <3>4, <1>1, <1>8
      <4> QED BY <4>1, <3>3, <3>4, <1>6
    <3>5. stack[i].saved + stack[i].pops <= Len(environment_stack')
      BY <3>1, <3>3, <1>1, <1>3, <1>6, <1>8, SMTT(30)
    <3>6. ASSUME NEW j \in 1..(n + 1), i < j
          PROVE  stack[i].saved + stack[i].pops <= stack'[j].saved
      <4>1. CASE j = n + 1  BY <4>1, <3>3, <1>2, <1>3
      <4>2. CASE j # n + 1
        <5>1. j \in 1..n  BY <4>2, <1>1
        <5> QED BY <5>1, <3>3, <3>6, <1>8
      <4> QED BY <4>1, <4>2
    <3>7. FrameOK(stack'[i]) /\ stack'[i].saved = stack[i].saved /\ stack'[i].pops = stack[i].pops
          /\ stack'[i].entered = stack[i].entered /\ stack[i].pops \in Nat
      BY <3>1, <1>8
    <3> QED BY <3>2, <3>3, <3>4, <3>5, <3>6, <3>7
  <2> QED BY <2>1, <2>2
<1>11. EnvironmentsMatch'
  BY <1>2, <1>9, <1>10 DEF EnvironmentsMatch
<1> QED BY <1>2, <1>4, <1>5, <1>6, <1>10, <1>11 DEF Coherent

LEMMA LeavesKeeps ==
  ASSUME Coherent, stack # << >>, Leaves
  PROVE  Coherent' /\ env' = Top.entered /\ Len(stack') < Len(stack)
<1> DEFINE n == Len(stack)
           e == Len(environment_stack)
           m == n - 1
<1>1. /\ n \in Nat \ {0} /\ Top = stack[n] /\ FrameOK(Top)
      /\ e \in Nat /\ Top.saved + Top.pops = e /\ n \in 1..n
      /\ Top.saved \in Nat /\ Top.pops \in Nat
  BY TopFacts DEF FrameOK
<1>2. /\ IsSeq(stack') /\ Len(stack') = m
      /\ \A i \in 1..m : stack'[i] = stack[i]
  <2>1. IsSeq(stack)  BY DEF Coherent
  <2>2. stack' = SubSeq(stack, 1, m)  BY DEF Leaves, Front
  <2>3. m \in 0..n  BY <1>1
  <2> HIDE DEF m
  <2> QED BY <2>1, <2>2, <2>3, SubSeqFacts
<1>3. ~ exited /\ ~ exited' /\ exited' \in BOOLEAN  BY NotExited DEF Leaves, Coherent
<1>4. IsSeq(roots') /\ RootsMatch'
  <2>1. roots' = Below  BY DEF Leaves
  <2> QED BY <1>2, <2>1, BelowFacts DEF RootsMatch
<1>5. /\ IsSeq(environment_stack') /\ Len(environment_stack') = Top.saved
      /\ \A k \in 1..Top.saved : environment_stack'[k] = environment_stack[k]
      /\ env' = Top.entered
  <2>1. IsSeq(environment_stack)  BY DEF Coherent
  <2>2. CASE Top.pops = 0
    <3>1. UNCHANGED <<env, environment_stack>>  BY <2>2 DEF Leaves, PopEnvironments
    <3>2. EnvOf(n) = Top.entered  BY <2>2, <1>1, FrameFacts
    <3> QED BY <2>1, <2>2, <3>1, <3>2, <1>1 DEF EnvOf
  <2>3. CASE Top.pops > 0
    <3>1. env' = environment_stack[e - Top.pops + 1]
          /\ environment_stack' = SubSeq(environment_stack, 1, e - Top.pops)
      BY <2>3 DEF Leaves, PopEnvironments
    <3>2. e - Top.pops = Top.saved /\ Top.saved \in 0..e  BY <1>1
    <3>3. environment_stack' = SubSeq(environment_stack, 1, Top.saved)  BY <3>1, <3>2
    <3>4. environment_stack[Top.saved + 1] = Top.entered  BY <2>3, <1>1, FrameFacts
    <3>5. env' = Top.entered  BY <3>1, <3>2, <3>4
    <3>6. IsSeq(environment_stack') /\ Len(environment_stack') = Top.saved
      BY <2>1, <3>2, <3>3, SubSeqFacts
    <3>7. \A k \in 1..Top.saved : environment_stack'[k] = environment_stack[k]
      BY <2>1, <3>2, <3>3, SubSeqFacts
    <3> QED BY <3>5, <3>6, <3>7
  <2> QED BY <2>2, <2>3, <1>1
<1>6. ASSUME NEW i \in 1..m
      PROVE  /\ FrameOK(stack'[i])
             /\ SavedAfter(i)' = stack'[i].saved + stack'[i].pops
             /\ stack'[i].saved + stack'[i].pops <= Len(environment_stack')
             /\ \A j \in 1..m : i < j => stack'[i].saved + stack'[i].pops <= stack'[j].saved
             /\ IF stack'[i].pops > 0 THEN environment_stack'[stack'[i].saved + 1] = stack'[i].entered
                ELSE EnvOf(i)' = stack'[i].entered
  <2>1. i \in 1..n /\ i < n /\ i \in Nat  BY <1>1
  <2>2. /\ FrameOK(stack[i]) /\ SavedAfter(i) = stack[i].saved + stack[i].pops
        /\ \A j \in 1..n : i < j => stack[i].saved + stack[i].pops <= stack[j].saved
        /\ stack[i].pops > 0 => environment_stack[stack[i].saved + 1] = stack[i].entered
        /\ stack[i].pops = 0 => EnvOf(i) = stack[i].entered
    BY <2>1, FrameFacts
  <2>3. stack[i].saved \in Nat /\ stack[i].pops \in Nat  BY <2>2 DEF FrameOK
  <2>4. stack[i].saved + stack[i].pops <= Top.saved  BY <2>1, <2>2, <1>1
  <2>5. SavedAfter(i)' = SavedAfter(i) /\ EnvOf(i)' = EnvOf(i)
    <3>1. CASE i = m
      <4>1. SavedAfter(i)' = Len(environment_stack') /\ EnvOf(i)' = env'
        BY <3>1, <1>2 DEF SavedAfter, EnvOf
      <4>2. SavedAfter(i) = stack[i + 1].saved /\ EnvOf(i) = stack[i + 1].entered /\ i + 1 = n
        BY <3>1, <2>1, <1>1 DEF SavedAfter, EnvOf
      <4> QED BY <4>1, <4>2, <1>1, <1>5
    <3>2. CASE i # m
      <4>1. i + 1 \in 1..m  BY <3>2, <2>1, <1>1
      <4>2. stack'[i + 1] = stack[i + 1]  BY <4>1, <1>2
      <4> QED BY <4>2, <3>2, <2>1, <1>2 DEF SavedAfter, EnvOf
    <3> QED BY <3>1, <3>2
  <2>6. ASSUME stack[i].pops > 0
        PROVE  environment_stack'[stack[i].saved + 1] = stack[i].entered
    <3>1. stack[i].saved + 1 \in 1..Top.saved  BY <2>3, <2>4, <2>6, <1>1, SMTT(30)
    <3> QED BY <3>1, <2>2, <2>6, <1>5
  <2>7. \A j \in 1..m : j \in 1..n /\ stack'[j] = stack[j]  BY <1>1, <1>2
  <2>8. stack'[i] = stack[i]  BY <2>7
  <2>9. SavedAfter(i)' = stack'[i].saved + stack'[i].pops  BY <2>2, <2>5, <2>8
  <2>10. stack'[i].saved + stack'[i].pops <= Len(environment_stack')  BY <2>4, <2>8, <1>5
  <2>11. \A j \in 1..m : i < j => stack'[i].saved + stack'[i].pops <= stack'[j].saved
    BY <2>2, <2>7, <2>8
  <2>12. CASE stack[i].pops > 0
    BY <2>2, <2>6, <2>8, <2>9, <2>10, <2>11, <2>12
  <2>13. CASE stack[i].pops = 0
    <3>1. ~ (stack'[i].pops > 0) /\ EnvOf(i)' = stack'[i].entered  BY <2>2, <2>5, <2>8, <2>13
    <3> QED BY <2>2, <2>8, <2>9, <2>10, <2>11, <3>1
  <2>14. stack[i].pops > 0 \/ stack[i].pops = 0  BY <2>3
  <2> QED BY <2>12, <2>13, <2>14
<1>7. IF stack' = << >> THEN environment_stack' = << >> ELSE stack'[1].saved = 0
  <2>0. 1 \in 1..n /\ stack[1].saved = 0  BY <1>1, <1>3 DEF Coherent, EnvironmentsMatch
  <2>1. CASE m = 0
    <3>0. n = 1  BY <2>1, <1>1
    <3>1. Len(environment_stack') = 0  BY <3>0, <2>0, <1>1, <1>5
    <3>2. environment_stack' = << >>  BY <3>1, <1>5, SeqFacts
    <3>3. stack' = << >>  BY <2>1, <1>2, SeqFacts
    <3> QED BY <3>2, <3>3
  <2>2. CASE m # 0
    <3>0. m \in Nat  BY <1>1
    <3>1. 1 \in 1..m  BY <2>2, <3>0
    <3>2. stack'[1].saved = 0  BY <3>1, <2>0, <1>2
    <3>3. stack' # << >>  BY <2>2, <1>2, Tuples
    <3> QED BY <3>2, <3>3
  <2> QED BY <2>1, <2>2
<1>8. EnvironmentsMatch'
  BY <1>2, <1>6, <1>7 DEF EnvironmentsMatch
<1>9. Len(stack') < Len(stack)  BY <1>1, <1>2
<1> QED BY <1>2, <1>3, <1>4, <1>5, <1>6, <1>8, <1>9 DEF Coherent

LEMMA ExitsKeeps == Coherent /\ Exits => Coherent'
<1> SUFFICES ASSUME Coherent, Exits PROVE Coherent'
  OBVIOUS
<1>1. IsSeq(stack') /\ Len(stack') = 0  BY Tuples DEF Exits
<1> QED BY <1>1 DEF Exits, Coherent

-----------------------------------------------------------------------------
(* The roots, after what the actions do to them. *)

LEMMA PushedOne ==
  ASSUME NEW r, IsSeq(r), NEW i, NEW x
  PROVE  Append(r, [frame |-> i, name |-> x]) = WithBlock(r, i, <<x>>)
<1> DEFINE rec == [frame |-> i, name |-> x]
           S == Range(r) \union {rec}
<1>1. r \in Seq(S) /\ rec \in S  BY WidenSeq
<1>2. Append(r, rec) = r \o <<rec>>
  <2> HIDE DEF S, rec
  <2> QED BY <1>1, AppendIsConcat
<1>3. BlockOf(i, <<x>>) = <<rec>>
  <2>1. /\ IsSeq(BlockOf(i, <<x>>)) /\ Len(BlockOf(i, <<x>>)) = 1
        /\ BlockOf(i, <<x>>)[1] = rec
    BY Tuples, BlockOfFacts
  <2>2. IsSeq(<<rec>>) /\ Len(<<rec>>) = 1 /\ <<rec>>[1] = rec  BY Tuples
  <2> HIDE DEF rec
  <2>3. \A j \in 1..1 : j = 1  OBVIOUS
  <2> QED BY <2>1, <2>2, <2>3, SameSeq
<1> QED BY <1>2, <1>3 DEF WithBlock

LEMMA PushedNone ==
  ASSUME NEW r, IsSeq(r), NEW i
  PROVE  WithBlock(r, i, << >>) = r
<1>1. IsSeq(BlockOf(i, << >>)) /\ Len(BlockOf(i, << >>)) = 0  BY Tuples, BlockOfFacts
<1>2. BlockOf(i, << >>) = << >>  BY <1>1, SeqFacts
<1> QED BY <1>2, ConcatEmptySeq DEF WithBlock, IsSeq

(* Roots pushed one after the other, by the same function. *)
LEMMA PushedMore ==
  ASSUME NEW r, IsSeq(r), NEW i, NEW s, IsSeq(s), NEW t, IsSeq(t)
  PROVE  /\ WithBlock(WithBlock(r, i, s), i, t) = WithBlock(r, i, s \o t)
         /\ IsSeq(WithBlock(r, i, s)) /\ Len(WithBlock(r, i, s)) = Len(r) + Len(s)
<1> DEFINE a == BlockOf(i, s)
           b == BlockOf(i, t)
           c == BlockOf(i, s \o t)
           d == a \o b
<1>1. IsSeq(a) /\ Len(a) = Len(s) /\ \A j \in 1..Len(s) : a[j] = [frame |-> i, name |-> s[j]]
  BY BlockOfFacts
<1>2. IsSeq(b) /\ Len(b) = Len(t) /\ \A j \in 1..Len(t) : b[j] = [frame |-> i, name |-> t[j]]
  BY BlockOfFacts
<1>3. /\ IsSeq(s \o t) /\ Len(s \o t) = Len(s) + Len(t)
      /\ \A j \in 1..Len(s) : (s \o t)[j] = s[j]
      /\ \A j \in 1..Len(t) : (s \o t)[Len(s) + j] = t[j]
  BY ConcatFacts
<1>4. IsSeq(c) /\ Len(c) = Len(s) + Len(t)
      /\ \A j \in 1..(Len(s) + Len(t)) : c[j] = [frame |-> i, name |-> (s \o t)[j]]
  <2> DEFINE u == s \o t
  <2>1. IsSeq(u) /\ Len(u) = Len(s) + Len(t) /\ c = BlockOf(i, u)  BY <1>3
  <2> HIDE DEF u, c
  <2>2. IsSeq(c) /\ Len(c) = Len(u) /\ \A j \in 1..Len(u) : c[j] = [frame |-> i, name |-> u[j]]
    BY <2>1, BlockOfFacts
  <2> QED BY <2>1, <2>2 DEF u
<1> HIDE DEF a, b, c
<1>5. IsSeq(d)  BY <1>1, <1>2, ConcatFacts
<1>6. Len(d) = Len(s) + Len(t)  BY <1>1, <1>2, ConcatFacts
<1>7. \A j \in 1..Len(s) : d[j] = a[j]  BY <1>1, <1>2, ConcatFacts
<1>8. \A j \in 1..Len(t) : d[Len(s) + j] = b[j]
  <2>1. \A j \in 1..Len(b) : (a \o b)[Len(a) + j] = b[j]  BY <1>1, <1>2, ConcatFacts
  <2> QED BY <2>1, <1>1, <1>2
<1> HIDE DEF d
<1>9. Len(s) \in Nat /\ Len(t) \in Nat  BY SeqFacts
<1>10. ASSUME NEW j \in 1..(Len(s) + Len(t))  PROVE c[j] = d[j]
  <2>1. CASE j \in 1..Len(s)  BY <2>1, <1>1, <1>3, <1>4, <1>7
  <2>2. CASE j \notin 1..Len(s)
    <3>1. j - Len(s) \in 1..Len(t) /\ j = Len(s) + (j - Len(s))  BY <2>2, <1>9
    <3>2. d[j] = b[j - Len(s)]  BY <3>1, <1>8
    <3>3. (s \o t)[j] = t[j - Len(s)]  BY <3>1, <1>3
    <3> QED BY <3>1, <3>2, <3>3, <1>2, <1>4
  <2> QED BY <2>1, <2>2
<1>11. c = d  BY <1>4, <1>5, <1>6, <1>10, SameSeq
<1>12. (r \o a) \o b = r \o (a \o b)
  <2> DEFINE S == Range(r) \union Range(a) \union Range(b)
  <2>1. r \in Seq(S) /\ a \in Seq(S) /\ b \in Seq(S)  BY <1>1, <1>2, WidenSeq
  <2> HIDE DEF S
  <2> QED BY <2>1, ConcatAssociative
<1>13. IsSeq(r \o a)  BY <1>1, ConcatFacts
<1>14. Len(r \o a) = Len(r) + Len(a)  BY <1>1, ConcatFacts
<1> QED BY <1>1, <1>11, <1>12, <1>13, <1>14 DEF WithBlock, a, b, c, d

LEMMA PoppedPushed ==
  ASSUME NEW r, IsSeq(r), NEW i, NEW s, IsSeq(s)
  PROVE  SubSeq(WithBlock(r, i, s), 1, Len(WithBlock(r, i, s)) - Len(s)) = r
<1> DEFINE a == BlockOf(i, s)
           p == r \o a
           q == SubSeq(p, 1, Len(r))
<1>1. IsSeq(a) /\ Len(a) = Len(s)  BY BlockOfFacts
<1> HIDE DEF a
<1>2. IsSeq(p)  BY <1>1, ConcatFacts
<1>3. Len(p) = Len(r) + Len(a)  BY <1>1, ConcatFacts
<1>4. \A j \in 1..Len(r) : p[j] = r[j]  BY <1>1, ConcatFacts
<1>5. WithBlock(r, i, s) = p  BY DEF WithBlock, a
<1> HIDE DEF p
<1>6. Len(r) \in Nat /\ Len(s) \in Nat  BY SeqFacts
<1>7. Len(r) \in 0..Len(p) /\ Len(p) - Len(s) = Len(r)  BY <1>1, <1>3, <1>6
<1>8. IsSeq(q) /\ Len(q) = Len(r) /\ \A j \in 1..Len(r) : q[j] = p[j]  BY <1>2, <1>7, SubSeqFacts
<1> HIDE DEF q
<1>9. r = q
  <2>1. \A j \in 1..Len(r) : r[j] = q[j]  BY <1>4, <1>8
  <2> QED BY <1>8, <2>1, SameSeq
<1> QED BY <1>5, <1>7, <1>9 DEF q

LEMMA RootsKept ==
  ASSUME Coherent, stack # << >>, NEW f, RootNames(f) = RootNames(Top)
  PROVE  roots = RootsOf(f)
BY BelowFacts DEF RootsOf

LEMMA RootsPushed ==
  ASSUME Coherent, stack # << >>, NEW f, NEW names, IsSeq(names),
         RootNames(f) = RootNames(Top) \o names
  PROVE  Push(names) = RootsOf(f)
<1>1. roots = WithBlock(Below, Len(stack), RootNames(Top)) /\ IsSeq(Below)  BY BelowFacts DEF RootsOf
<1>2. Len(names) \in Nat /\ DOMAIN names = 1..Len(names)  BY SeqFacts
<1>3. Push(names) = WithBlock(roots, Len(stack), names)  BY <1>2 DEF Push, Root, WithBlock, BlockOf
<1>4. IsSeq(RootNames(Top))  BY NamesFacts
<1> HIDE DEF Below
<1>5. WithBlock(WithBlock(Below, Len(stack), RootNames(Top)), Len(stack), names)
      = WithBlock(Below, Len(stack), RootNames(Top) \o names)
  BY <1>1, <1>4, PushedMore
<1> QED BY <1>1, <1>3, <1>5 DEF RootsOf

LEMMA RootsPopped ==
  ASSUME Coherent, stack # << >>, NEW f, NEW names, IsSeq(names),
         RootNames(Top) = RootNames(f) \o names
  PROVE  Pop(Len(names)) = RootsOf(f)
<1>1. roots = WithBlock(Below, Len(stack), RootNames(Top)) /\ IsSeq(Below)  BY BelowFacts DEF RootsOf
<1>2. IsSeq(RootNames(f))  BY NamesFacts
<1> DEFINE r == WithBlock(Below, Len(stack), RootNames(f))
<1>3. IsSeq(r) /\ roots = WithBlock(r, Len(stack), names)
  BY <1>1, <1>2, PushedMore
<1>4. r = RootsOf(f)  BY DEF RootsOf
<1> HIDE DEF r
<1>5. SubSeq(WithBlock(r, Len(stack), names), 1, Len(WithBlock(r, Len(stack), names)) - Len(names)) = r
  BY <1>3, PoppedPushed
<1> QED BY <1>3, <1>4, <1>5 DEF Pop

LEMMA RootsReturned ==
  ASSUME Coherent, stack # << >>
  PROVE  /\ Pop(Len(RootNames(Top))) = Below
         /\ RootNames(Top) = << >> => roots = Below
<1>1. Pop(Len(RootNames(Top))) = Below  BY DEF Pop, Below, WithoutBlock
<1>2. ASSUME RootNames(Top) = << >>  PROVE roots = Below
  <2>1. roots = WithBlock(Below, Len(stack), << >>) /\ IsSeq(Below)  BY <1>2, BelowFacts DEF RootsOf
  <2> QED BY <2>1, PushedNone
<1> QED BY <1>1, <1>2

-----------------------------------------------------------------------------
(* What the actions are made of *)

Extending == {"extend", "body"}

LEMMA ContinueFacts ==
  ASSUME Coherent, stack # << >>, NEW at, NEW v,
         Top.fn = "eval" /\ at \in Extending => Top.pops > 0
  PROVE  /\ SameCall(Continue(at, v)) /\ Continue(at, v).pops = Top.pops
         /\ Continue(at, v).fn = Top.fn /\ Continue(at, v).at = at /\ Continue(at, v).var = v
<1>1. FrameOK(Top)  BY TopFacts
<1>2. Continue(at, v) = [fn |-> Top.fn, at |-> at, var |-> v, pops |-> Top.pops,
                         entered |-> Top.entered, saved |-> Top.saved]
  BY <1>1, RecordFacts DEF FrameOK, Continue
<1> QED BY <1>1, <1>2 DEF SameCall, FrameOK, Extending

LEMMA FrameFresh ==
  ASSUME Coherent, stack # << >>, NEW fn, NEW at, NEW v, at \notin Extending
  PROVE  /\ FrameOK(Frame(fn, at, v))
         /\ Frame(fn, at, v).fn = fn /\ Frame(fn, at, v).at = at
         /\ Frame(fn, at, v).pops = 0 /\ Frame(fn, at, v).entered = env
         /\ Frame(fn, at, v).saved = Len(environment_stack)
BY TopFacts DEF FrameOK, Frame, Extending

(* The names that a function roots depend on where it is only.              *)
Rooting == {"proc", "args", "applied", "call", "extend", "body"}
LEMMA NamesOfEval ==
  ASSUME NEW f, f.fn = "eval"
  PROVE  RootNames(f) = IF f.at \in Rooting THEN <<"exp", "proc", "args">> ELSE <<"exp">>
BY DEF RootNames, Rooting

LEMMA NamesOfOthers ==
  ASSUME NEW f
  PROVE  /\ f.fn = "list_of_values" => RootNames(f) = IF f.at = "start" THEN << >> ELSE <<"tmp">>
         /\ f.fn = "transform_let" => RootNames(f) = IF f.at = "start" THEN << >> ELSE <<"vars", "inits">>
         /\ f.fn = "transform_cond_clauses" => RootNames(f) = IF f.at \in {"rest", "if"} THEN <<"exp">> ELSE << >>
         /\ f.fn = "load" => RootNames(f) = <<"result">>
         /\ f.fn \in {"conses", "transform_complex_define", "main"} => RootNames(f) = << >>
BY DEF RootNames

LEMMA GotoActs ==
  ASSUME Coherent, stack # << >>, NEW at, NEW v, Goto(at, v), Top.fn = "load" => v.result = ret,
         Top.fn = "eval" /\ at \in Extending => Top.pops > 0,
         roots' = RootsOf(Continue(at, v)), exited' = exited, environment_stack' = environment_stack,
         env' = env \/ Top.pops > 0
  PROVE  Acts
<1>1. Goes(Continue(at, v))  BY ContinueFacts DEF Goes, Goto
<1> QED BY <1>1 DEF Acts

LEMMA CallActs ==
  ASSUME Coherent, stack # << >>, NEW at, NEW v, NEW fn, NEW start, NEW w,
         Call(at, v, Frame(fn, start, w)), at \notin Extending, start \notin Extending,
         fn \notin {"main", "load"}, Top.fn = "load" => at = "result",
         roots' = WithBlock(RootsOf(Continue(at, v)), Len(stack) + 1, RootNames(Frame(fn, start, w))),
         exited' = exited, UNCHANGED <<env, environment_stack>>
  PROVE  Acts
<1>1. Enters(Continue(at, v), Frame(fn, start, w))
  BY ContinueFacts, FrameFresh DEF Enters, Call
<1> QED BY <1>1 DEF Acts

LEMMA ReturnActs ==
  ASSUME Coherent, stack # << >>, NEW v, Return(v), exited' = exited,
         Top.fn = "load" => loading' = Front(loading),
         roots' = Pop(Len(RootNames(Top))) \/ (RootNames(Top) = << >> /\ roots' = roots),
         \/ PopEnvironments(Top.pops)
         \/ Top.fn \notin {"eval", "load"} /\ UNCHANGED <<env, environment_stack>>
  PROVE  Acts
<1>1. roots' = Below  BY RootsReturned
<1>2. PopEnvironments(Top.pops)
  <2>1. CASE Top.fn \notin {"eval", "load"} /\ UNCHANGED <<env, environment_stack>>
    <3>1. Top.pops = 0  BY <2>1, TopFacts DEF FrameOK
    <3> QED BY <2>1, <3>1 DEF PopEnvironments
  <2> QED BY <2>1
<1>3. Leaves  BY <1>1, <1>2 DEF Leaves, Return
<1> QED BY <1>3 DEF Acts

LEMMA ExitActs == ASSUME stack # << >>, Exit PROVE Acts
BY DEF Exit, Acts, Exits

(* A function calls one that roots nothing, and what it roots stays. *)
LEMMA InvokeActs ==
  ASSUME Coherent, stack # << >>, NEW at, NEW v, NEW fn, NEW start, NEW w,
         Call(at, v, Frame(fn, start, w)), at \notin Extending, start \notin Extending,
         fn \notin {"main", "load"}, Top.fn # "load",
         RootNames(Continue(at, v)) = RootNames(Top), RootNames(Frame(fn, start, w)) = << >>,
         UNCHANGED <<roots, env, environment_stack, exited>>
  PROVE  Acts
<1>1. roots' = RootsOf(Continue(at, v))  BY RootsKept
<1>2. IsSeq(RootsOf(Continue(at, v)))  BY RootsOfFacts
<1>3. WithBlock(RootsOf(Continue(at, v)), Len(stack) + 1, << >>) = RootsOf(Continue(at, v))
  BY <1>2, PushedNone
<1> QED BY <1>1, <1>3, CallActs

(* A function calls eval, which roots its parameter. *)
LEMMA EvalActs ==
  ASSUME Coherent, stack # << >>, NEW at, NEW v, NEW e, Call(at, v, EvalFrame(e)),
         at \notin Extending, Top.fn = "load" => at = "result", NEW r, r = RootsOf(Continue(at, v)),
         roots' = Append(r, [frame |-> Len(stack) + 1, name |-> "exp"]),
         UNCHANGED <<env, environment_stack, exited>>
  PROVE  Acts
<1> DEFINE w == [exp |-> e, proc |-> NULL, args |-> NULL]
<1>1. IsSeq(r)  BY RootsOfFacts
<1>2. roots' = WithBlock(r, Len(stack) + 1, <<"exp">>)  BY <1>1, PushedOne
<1>3. "tailcall" \notin Extending /\ "tailcall" \notin Rooting /\ "eval" \notin {"main", "load"}
  BY DEF Extending, Rooting
<1>4. EvalFrame(e) = Frame("eval", "tailcall", w)  BY DEF EvalFrame
<1> HIDE DEF w
<1>5. RootNames(Frame("eval", "tailcall", w)) = <<"exp">>
  BY <1>3, FrameFresh, NamesOfEval
<1> QED BY <1>2, <1>3, <1>4, <1>5, CallActs

-----------------------------------------------------------------------------
(* The actions of eval.  Away from applications it roots its parameter only. *)

LEMMA AtFacts ==
  ASSUME NEW fn, NEW at, At(fn, at)
  PROVE  stack # << >> /\ Top.fn = fn /\ Top.at = at
BY DEF At

LEMMA TailCallActs ==
  ASSUME Coherent, NEW x, x \notin Rooting, At("eval", x), NEW e, TailCall(e)
  PROVE  Acts
<1>1. stack # << >> /\ Top.fn = "eval" /\ Top.at = x  BY AtFacts
<1>2. "tailcall" \notin Rooting /\ "tailcall" \notin Extending  BY DEF Rooting, Extending
<1>3. RootNames(Continue("tailcall", With(e))) = RootNames(Top)
  BY <1>1, <1>2, ContinueFacts, NamesOfEval
<1>4. roots' = RootsOf(Continue("tailcall", With(e)))
  BY <1>1, <1>3, RootsKept DEF TailCall, OnlyTheStack
<1> QED BY <1>1, <1>2, <1>4, GotoActs DEF TailCall, OnlyTheStack, others

LEMMA CallEvalActs ==
  ASSUME Coherent, NEW x, x \notin Rooting, At("eval", x), NEW at, at \notin Rooting,
         NEW v, NEW e, CallEval(at, v, e)
  PROVE  Acts
<1>1. stack # << >> /\ Top.fn = "eval" /\ Top.at = x  BY AtFacts
<1>2. at \notin Extending  BY DEF Rooting, Extending
<1>3. RootNames(Continue(at, v)) = RootNames(Top)
  BY <1>1, <1>2, ContinueFacts, NamesOfEval
<1>4. roots = RootsOf(Continue(at, v))  BY <1>1, <1>3, RootsKept
<1> QED BY <1>1, <1>2, <1>4, EvalActs DEF CallEval, others

LEMMA EvalReturnActs ==
  ASSUME Coherent, NEW x, x \notin Rooting, At("eval", x), NEW v, EvalReturn(v)
  PROVE  Acts
<1>1. stack # << >> /\ Top.fn = "eval" /\ Top.at = x  BY AtFacts
<1>2. RootNames(Top) = <<"exp">>  BY <1>1, NamesOfEval
<1>3. roots' = Pop(Len(RootNames(Top)))  BY <1>2, Tuples DEF EvalReturn
<1> QED BY <1>1, <1>3, ReturnActs DEF EvalReturn

LEMMA SequenceActs ==
  ASSUME Coherent, NEW x, x \notin Rooting, At("eval", x), NEW form, form \notin Rooting,
         NEW list, Sequence(form, list)
  PROVE  Acts
BY TailCallActs, CallEvalActs DEF Sequence

(* eval calls a function that rewrites an expression, or evaluates operands. *)
LEMMA RewriteActs ==
  ASSUME Coherent, NEW x, x \notin Rooting, At("eval", x), NEW fn, NEW w,
         fn \in {"transform_complex_define", "transform_cond_clauses", "transform_let"},
         Rewrite(Frame(fn, "start", w))
  PROVE  Acts
<1>1. stack # << >> /\ Top.fn = "eval" /\ Top.at = x  BY AtFacts
<1>2. /\ "rewritten" \notin Extending /\ "rewritten" \notin Rooting /\ "start" \notin Extending
      /\ fn \notin {"main", "load"}
  BY DEF Rooting, Extending
<1>3. RootNames(Continue("rewritten", var)) = RootNames(Top)
  BY <1>1, <1>2, ContinueFacts, NamesOfEval
<1>4. RootNames(Frame(fn, "start", w)) = << >>
  BY <1>1, <1>2, FrameFresh, NamesOfOthers
<1>5. Call("rewritten", var, Frame(fn, "start", w))
      /\ UNCHANGED <<roots, env, environment_stack, exited>>
  BY DEF Rewrite, Invoke, OnlyTheStack, others
<1> QED BY <1>1, <1>2, <1>3, <1>4, <1>5, InvokeActs

LEMMA EvalActions == Coherent /\ Eval => Acts
<1> SUFFICES ASSUME Coherent, Eval PROVE Acts
  OBVIOUS
<1>0. {"tailcall", "if", "set!", "define", "rewritten", "begin", "or", "and"} \intersect Rooting = {}
  BY DEF Rooting
<1>1. CASE eval_self_evaluating  BY <1>0, <1>1, EvalReturnActs DEF eval_self_evaluating, Dispatch
<1>2. CASE eval_unexpected  BY <1>2, AtFacts, ExitActs DEF eval_unexpected, Dispatch
<1>3. CASE eval_variable
  <2>1. CASE Exit  BY <1>3, <2>1, AtFacts, ExitActs DEF eval_variable, Dispatch
  <2>2. CASE EvalReturn(heap[Binder(exp)].bindings[exp])
    BY <1>0, <1>3, <2>2, EvalReturnActs DEF eval_variable, Dispatch
  <2> QED BY <1>3, <2>1, <2>2 DEF eval_variable
<1>4. CASE eval_quoted  BY <1>0, <1>4, EvalReturnActs DEF eval_quoted, Form, Dispatch
<1>5. CASE eval_if  BY <1>0, <1>5, CallEvalActs DEF eval_if, Form, Dispatch
<1>6. CASE eval_if_chosen  BY <1>0, <1>6, TailCallActs DEF eval_if_chosen
<1>7. CASE eval_lambda  BY <1>0, <1>7, EvalReturnActs DEF eval_lambda, Form, Dispatch
<1>8. CASE eval_assignment  BY <1>0, <1>8, CallEvalActs DEF eval_assignment, Form, Dispatch
<1>9. CASE eval_assignment_set  BY <1>0, <1>9, EvalReturnActs DEF eval_assignment_set
<1>10. CASE eval_define  BY <1>0, <1>10, CallEvalActs DEF eval_define, Form, Dispatch
<1>11. CASE eval_define_set  BY <1>0, <1>11, EvalReturnActs DEF eval_define_set
<1>12. CASE eval_complex_define  BY <1>0, <1>12, RewriteActs DEF eval_complex_define, Form, Dispatch
<1>13. CASE eval_cond  BY <1>0, <1>13, RewriteActs DEF eval_cond, Form, Dispatch
<1>14. CASE eval_let  BY <1>0, <1>14, RewriteActs DEF eval_let, Form, Dispatch
<1>15. CASE eval_rewritten  BY <1>0, <1>15, TailCallActs DEF eval_rewritten
<1>16. CASE eval_begin  BY <1>0, <1>16, SequenceActs DEF eval_begin, Form, Dispatch
<1>17. CASE eval_begin_next  BY <1>0, <1>17, SequenceActs DEF eval_begin_next
<1>18. CASE eval_or  BY <1>0, <1>18, SequenceActs, EvalReturnActs DEF eval_or, Form, Dispatch
<1>19. CASE eval_or_next  BY <1>0, <1>19, SequenceActs, EvalReturnActs DEF eval_or_next
<1>20. CASE eval_and  BY <1>0, <1>20, SequenceActs, EvalReturnActs DEF eval_and, Form, Dispatch
<1>21. CASE eval_and_next  BY <1>0, <1>21, SequenceActs, EvalReturnActs DEF eval_and_next
<1> QED
  BY <1>1, <1>2, <1>3, <1>4, <1>5, <1>6, <1>7, <1>8, <1>9, <1>10, <1>11, <1>12, <1>13, <1>14,
     <1>15, <1>16, <1>17, <1>18, <1>19, <1>20, <1>21 DEF Eval

-----------------------------------------------------------------------------
(* Applications: proc and args are rooted beside the parameter until the    *)
(* procedure is called.                                                     *)

LEMMA Names == <<"exp">> \o <<"proc", "args">> = <<"exp", "proc", "args">> /\ Len(<<"proc", "args">>) = 2
               /\ IsSeq(<<"proc", "args">>)
BY Tuples

(* Another environment is pushed, and counted. *)
LEMMA CountsActs ==
  ASSUME Coherent, stack # << >>, Top.fn = "eval", NEW at, NEW v,
         stack' = TopBecomes([Continue(at, v) EXCEPT !.pops = @ + 1]),
         environment_stack' = Append(environment_stack, env), exited' = exited,
         \/ at \in Rooting /\ roots' = roots /\ Top.at \in Rooting
         \/ at \notin Rooting /\ roots' = Pop(2) /\ Top.at \in Rooting
  PROVE  Acts
<1> DEFINE c == Continue(at, v)
           f == [c EXCEPT !.pops = @ + 1]
<1>1. FrameOK(Top) /\ Top.pops \in Nat  BY TopFacts DEF FrameOK
<1>2. c = [fn |-> Top.fn, at |-> at, var |-> v, pops |-> Top.pops,
           entered |-> Top.entered, saved |-> Top.saved]
  BY <1>1, RecordFacts DEF FrameOK, Continue
<1> HIDE DEF c
<1>3. f = [fn |-> Top.fn, at |-> at, var |-> v, pops |-> Top.pops + 1,
           entered |-> Top.entered, saved |-> Top.saved]
  BY <1>2
<1>4. stack' = TopBecomes(f)  BY DEF c
<1> HIDE DEF f
<1>5. SameCall(f) /\ f.pops = Top.pops + 1 /\ f.fn = "eval" /\ f.at = at
  BY <1>1, <1>3 DEF SameCall, FrameOK
<1>6. roots' = RootsOf(f)
  <2>1. CASE at \in Rooting
    <3>1. RootNames(f) = RootNames(Top)  BY <2>1, <1>5, NamesOfEval
    <3> QED BY <2>1, <3>1, RootsKept
  <2>2. CASE at \notin Rooting
    <3>1. RootNames(Top) = RootNames(f) \o <<"proc", "args">>  BY <2>2, <1>5, NamesOfEval, Names
    <3>2. Pop(Len(<<"proc", "args">>)) = RootsOf(f)  BY <3>1, Names, RootsPopped
    <3> QED BY <2>2, <3>2, Names
  <2> QED BY <2>1, <2>2
<1>7. Goes(f)  BY <1>4, <1>5, <1>6 DEF Goes
<1> QED BY <1>7 DEF Acts

(* eval goes on, its roots kept, or the two of an application given back.   *)
LEMMA ApplicationGotoActs ==
  ASSUME Coherent, NEW x, x \in Rooting, At("eval", x), NEW at, NEW v, Goto(at, v),
         at \in Extending => Top.pops > 0,
         \/ at \in Rooting /\ roots' = roots
         \/ at \notin Rooting /\ roots' = Pop(2),
         exited' = exited, environment_stack' = environment_stack, env' = env \/ Top.pops > 0
  PROVE  Acts
<1>1. stack # << >> /\ Top.fn = "eval" /\ Top.at = x  BY AtFacts
<1> DEFINE f == Continue(at, v)
<1>2. f.fn = "eval" /\ f.at = at  BY <1>1, ContinueFacts
<1> HIDE DEF f
<1>3. roots' = RootsOf(f)
  <2>1. CASE at \in Rooting
    <3>1. RootNames(f) = RootNames(Top)  BY <2>1, <1>1, <1>2, NamesOfEval
    <3> QED BY <2>1, <3>1, <1>1, RootsKept
  <2>2. CASE at \notin Rooting
    <3>1. RootNames(Top) = RootNames(f) \o <<"proc", "args">>  BY <2>2, <1>1, <1>2, NamesOfEval, Names
    <3>2. Pop(Len(<<"proc", "args">>)) = RootsOf(f)  BY <1>1, <3>1, Names, RootsPopped
    <3> QED BY <2>2, <3>2, Names
  <2> QED BY <2>1, <2>2
<1> QED BY <1>1, <1>3, GotoActs DEF f

(* eval calls a function, in the course of an application. *)
LEMMA ApplicationCallActs ==
  ASSUME Coherent, NEW x, x \in Rooting, At("eval", x), NEW at, at \in Rooting \ Extending, NEW v,
         NEW fn, fn \in {"list_of_values", "conses"}, NEW w, Invoke(at, v, Frame(fn, "start", w))
  PROVE  Acts
<1>1. stack # << >> /\ Top.fn = "eval" /\ Top.at = x  BY AtFacts
<1>2. "start" \notin Extending /\ fn \notin {"main", "load"}  BY DEF Extending
<1>3. RootNames(Continue(at, v)) = RootNames(Top)
  BY <1>1, ContinueFacts, NamesOfEval
<1>4. RootNames(Frame(fn, "start", w)) = << >>
  BY <1>1, <1>2, FrameFresh, NamesOfOthers
<1>5. Call(at, v, Frame(fn, "start", w)) /\ UNCHANGED <<roots, env, environment_stack, exited>>
  BY DEF Invoke, OnlyTheStack, others
<1> QED BY <1>1, <1>2, <1>3, <1>4, <1>5, InvokeActs

(* A function that is not eval, and where it goes on. *)
LEMMA OtherNames ==
  ASSUME Coherent, NEW fn, NEW x, At(fn, x), fn # "eval", NEW at, NEW v
  PROVE  /\ stack # << >> /\ Top.fn = fn /\ Top.at = x
         /\ Continue(at, v).fn = fn /\ Continue(at, v).at = at
<1>1. stack # << >> /\ Top.fn = fn /\ Top.at = x  BY AtFacts
<1> QED BY <1>1, ContinueFacts

LEMMA ApplicationActions == Coherent /\ Application => Acts
<1> SUFFICES ASSUME Coherent, Application PROVE Acts
  OBVIOUS
<1>0. {"proc", "args", "applied", "call"} \subseteq Rooting \ Extending /\ Extending \subseteq Rooting
      /\ "tailcall" \notin Rooting /\ "primitive" \notin Rooting
  BY DEF Rooting, Extending
<1>1. CASE eval_application
  <2>1. At("eval", "tailcall") /\ Call("proc", var, EvalFrame(car(exp)))
        /\ roots' = Append(Push(<<"proc", "args">>), [frame |-> Len(stack) + 1, name |-> "exp"])
        /\ UNCHANGED <<env, environment_stack, exited>>
    BY <1>1 DEF eval_application, Dispatch, others
  <2>2. stack # << >> /\ Top.fn = "eval" /\ Top.at = "tailcall"  BY <2>1, AtFacts
  <2>3. RootNames(Continue("proc", var)) = RootNames(Top) \o <<"proc", "args">>
    <3>1. Continue("proc", var).fn = "eval" /\ Continue("proc", var).at = "proc"
      BY <1>0, <2>2, ContinueFacts
    <3>2. RootNames(Continue("proc", var)) = <<"exp", "proc", "args">>
      BY <1>0, <3>1, NamesOfEval
    <3>3. RootNames(Top) = <<"exp">>  BY <1>0, <2>2, NamesOfEval
    <3> QED BY <3>2, <3>3, Names
  <2>4. Push(<<"proc", "args">>) = RootsOf(Continue("proc", var))
    BY <2>2, <2>3, Names, RootsPushed
  <2> QED BY <1>0, <2>1, <2>2, <2>4, EvalActs
<1>2. CASE eval_operands
  BY <1>0, <1>2, ApplicationCallActs DEF eval_operands, ListOfValues
<1>3. CASE eval_apply
  BY <1>0, <1>3, ApplicationCallActs DEF eval_apply, Conses
<1>4. CASE eval_eval
  BY <1>0, <1>4, AtFacts, CountsActs DEF eval_eval, vm_push_environment
<1>5. CASE eval_arguments
  BY <1>0, <1>5, ApplicationGotoActs DEF eval_arguments, Arguments, OnlyTheStack, others
<1>6. CASE eval_applied
  BY <1>0, <1>6, ApplicationGotoActs DEF eval_applied, Arguments, OnlyTheStack, others
<1>7. CASE eval_primitive
  BY <1>0, <1>7, ApplicationGotoActs DEF eval_primitive, others
<1>8. CASE eval_compound
  BY <1>0, <1>8, AtFacts, CountsActs DEF eval_compound, vm_push_environment, Rooting
<1>9. CASE eval_extend
  <2>1. stack # << >> /\ Top.fn = "eval" /\ Top.at = "extend"  BY <1>9, AtFacts DEF eval_extend
  <2>2. Top.pops > 0  BY <2>1, TopFacts DEF FrameOK
  <2> QED BY <1>0, <1>9, <2>2, ApplicationGotoActs DEF eval_extend, Extending
<1>10. CASE eval_body
  BY <1>0, <1>10, ApplicationGotoActs DEF eval_body, others, Extending
<1>11. CASE list_of_values_end
  <2>1. stack # << >> /\ Top.fn = "list_of_values" /\ Top.at = "start"
    BY <1>11, AtFacts DEF list_of_values_end
  <2> QED BY <1>11, <2>1, NamesOfOthers, ReturnActs DEF list_of_values_end, Finish, OnlyTheStack, others
<1>12. CASE list_of_values_first
  <2>1. At("list_of_values", "start") /\ Call("first", var, EvalFrame(car(var.exps)))
        /\ roots' = Append(Push(<<"tmp">>), [frame |-> Len(stack) + 1, name |-> "exp"])
        /\ UNCHANGED <<env, environment_stack, exited>>
    BY <1>12 DEF list_of_values_first, others
  <2>2. /\ stack # << >> /\ Top.fn = "list_of_values" /\ Top.at = "start"
        /\ Continue("first", var).fn = "list_of_values" /\ Continue("first", var).at = "first"
    BY <2>1, OtherNames
  <2>3. RootNames(Top) = << >> /\ RootNames(Continue("first", var)) = <<"tmp">>
    BY <2>2, NamesOfOthers
  <2>4. IsSeq(<<"tmp">>)  BY Tuples
  <2>5. << >> \o <<"tmp">> = <<"tmp">>  BY <2>4, ConcatEmptySeq DEF IsSeq
  <2>6. Push(<<"tmp">>) = RootsOf(Continue("first", var))
    BY <2>2, <2>3, <2>4, <2>5, RootsPushed
  <2>7. "first" \notin Extending  BY DEF Extending
  <2> QED BY <2>1, <2>2, <2>6, <2>7, EvalActs
<1>13. CASE list_of_values_rest
  <2> DEFINE v == [exps |-> NULL, tmp |-> ret]
             w == [exps |-> cdr(var.exps), tmp |-> NULL]
  <2>1. At("list_of_values", "first") /\ Call("rest", v, Frame("list_of_values", "start", w))
        /\ UNCHANGED <<roots, env, environment_stack, exited>>
    BY <1>13 DEF list_of_values_rest, Invoke, ListOfValues, OnlyTheStack, others
  <2> HIDE DEF v, w
  <2>2. /\ stack # << >> /\ Top.fn = "list_of_values" /\ Top.at = "first"
        /\ Continue("rest", v).fn = "list_of_values" /\ Continue("rest", v).at = "rest"
    BY <2>1, OtherNames
  <2>3. RootNames(Continue("rest", v)) = RootNames(Top)  BY <2>2, NamesOfOthers
  <2>4. "rest" \notin Extending /\ "start" \notin Extending  BY DEF Extending
  <2>5. RootNames(Frame("list_of_values", "start", w)) = << >>
    BY <2>2, <2>4, FrameFresh, NamesOfOthers
  <2> QED BY <2>1, <2>2, <2>3, <2>4, <2>5, InvokeActs
<1>14. CASE list_of_values_cons
  <2>1. stack # << >> /\ Top.fn = "list_of_values" /\ Top.at = "rest"
    BY <1>14, AtFacts DEF list_of_values_cons
  <2>2. RootNames(Top) = <<"tmp">>  BY <2>1, NamesOfOthers
  <2>3. roots' = Pop(Len(RootNames(Top)))  BY <1>14, <2>2, Tuples DEF list_of_values_cons
  <2> QED BY <1>14, <2>1, <2>3, ReturnActs DEF list_of_values_cons, others
<1> QED
  BY <1>1, <1>2, <1>3, <1>4, <1>5, <1>6, <1>7, <1>8, <1>9, <1>10, <1>11, <1>12, <1>13, <1>14
     DEF Application

-----------------------------------------------------------------------------
(* The primitive procedures are called with the parameter alone rooted.     *)
LEMMA PlainGotoActs ==
  ASSUME Coherent, NEW x, x \notin Rooting, At("eval", x), NEW at, at \notin Rooting, NEW v,
         Goto(at, v), UNCHANGED <<roots, env, environment_stack, exited>>
  PROVE  Acts
<1>1. stack # << >> /\ Top.fn = "eval" /\ Top.at = x  BY AtFacts
<1>2. at \notin Extending  BY DEF Rooting, Extending
<1>3. RootNames(Continue(at, v)) = RootNames(Top)
  BY <1>1, <1>2, ContinueFacts, NamesOfEval
<1>4. roots' = RootsOf(Continue(at, v))  BY <1>1, <1>3, RootsKept
<1> QED BY <1>1, <1>2, <1>4, GotoActs

LEMMA ProcedureActions == Coherent /\ Procedure => Acts
<1> SUFFICES ASSUME Coherent, Procedure PROVE Acts
  OBVIOUS
<1>0. "primitive" \notin Rooting /\ "wrap" \notin Rooting
  BY DEF Rooting
<1>1. CASE call_looking  BY <1>0, <1>1, EvalReturnActs DEF call_looking
<1>2. CASE call_set_car  BY <1>0, <1>2, EvalReturnActs DEF call_set_car
<1>3. CASE call_set_cdr  BY <1>0, <1>3, EvalReturnActs DEF call_set_cdr
<1>4. CASE call_cons  BY <1>0, <1>4, EvalReturnActs DEF call_cons
<1>5. CASE call_add  BY <1>0, <1>5, EvalReturnActs DEF call_add
<1>6. CASE call_interaction_environment
  BY <1>0, <1>6, EvalReturnActs DEF call_interaction_environment
<1>7. CASE call_null_environment
  BY <1>0, <1>7, PlainGotoActs DEF call_null_environment, others
<1>8. CASE call_null_environment_wrap
  BY <1>0, <1>8, EvalReturnActs DEF call_null_environment_wrap
<1>9. CASE call_special  BY <1>9, AtFacts, ExitActs DEF call_special
<1> QED
  BY <1>1, <1>2, <1>3, <1>4, <1>5, <1>6, <1>7, <1>8, <1>9 DEF Procedure

-----------------------------------------------------------------------------
(* The rewriting functions *)

(* A function that is not eval goes on, or calls another, its roots kept.   *)
LEMMA OtherGotoActs ==
  ASSUME Coherent, NEW fn, NEW x, At(fn, x), fn # "eval", NEW at, NEW v, Goto(at, v),
         fn = "load" => v.result = ret, RootNames(Continue(at, v)) = RootNames(Top),
         UNCHANGED <<roots, env, environment_stack, exited>>
  PROVE  Acts
<1>1. stack # << >> /\ Top.fn = fn  BY AtFacts
<1>2. roots' = RootsOf(Continue(at, v))  BY <1>1, RootsKept
<1> QED BY <1>1, <1>2, GotoActs

LEMMA OtherInvokeActs ==
  ASSUME Coherent, NEW fn, NEW x, At(fn, x), fn \notin {"eval", "load"}, NEW at, at \notin Extending, NEW v,
         NEW g, g \in {"conses", "list_of_values", "transform_cond_clauses"}, NEW w,
         Call(at, v, Frame(g, "start", w)), RootNames(Continue(at, v)) = RootNames(Top),
         UNCHANGED <<roots, env, environment_stack, exited>>
  PROVE  Acts
<1>1. stack # << >> /\ Top.fn = fn  BY AtFacts
<1>2. "start" \notin Extending /\ g \notin {"main", "load"}  BY DEF Extending
<1>3. RootNames(Frame(g, "start", w)) = << >>  BY <1>1, <1>2, FrameFresh, NamesOfOthers
<1> QED BY <1>1, <1>2, <1>3, InvokeActs

LEMMA ConsesActs ==
  ASSUME Coherent, NEW fn, NEW x, At(fn, x), fn \notin {"eval", "load"}, NEW at, at \notin Extending,
         NEW v, NEW elements, Invoke(at, v, Conses(elements)),
         \A f : f.fn = fn /\ f.at = at => RootNames(f) = RootNames(Top)
  PROVE  Acts
<1>1. RootNames(Continue(at, v)) = RootNames(Top)  BY OtherNames
<1>2. Call(at, v, Frame("conses", "start", elements)) /\ UNCHANGED <<roots, env, environment_stack, exited>>
  BY DEF Invoke, Conses, OnlyTheStack, others
<1> QED BY <1>1, <1>2, OtherInvokeActs

LEMMA OtherReturnActs ==
  ASSUME Coherent, NEW fn, NEW x, At(fn, x), fn \notin {"eval", "load"}, NEW v, Return(v),
         UNCHANGED <<env, environment_stack, exited>>,
         \/ RootNames(Top) = << >> /\ roots' = roots
         \/ Len(RootNames(Top)) = 1 /\ roots' = Pop(1)
         \/ Len(RootNames(Top)) = 2 /\ roots' = Pop(2)
  PROVE  Acts
<1>1. stack # << >> /\ Top.fn = fn  BY AtFacts
<1> QED BY <1>1, ReturnActs

LEMMA RewritingActions == Coherent /\ Rewriting => Acts
<1> SUFFICES ASSUME Coherent, Rewriting PROVE Acts
  OBVIOUS
<1>0. Extending \intersect {"lambda", "define", "actions", "rest", "if", "var", "init", "start"} = {}
  BY DEF Extending
<1>1. CASE complex_define_lambda
  <2>1. PICK v, elements : At("transform_complex_define", "start") /\ Invoke("lambda", v, Conses(elements))
    BY <1>1 DEF complex_define_lambda
  <2>2. \A f : f.fn = "transform_complex_define" /\ f.at = "lambda" => RootNames(f) = RootNames(Top)
    BY <2>1, AtFacts, NamesOfOthers
  <2> QED BY <1>0, <2>1, <2>2, ConsesActs
<1>2. CASE complex_define_define
  <2>1. PICK v, elements : At("transform_complex_define", "lambda") /\ Invoke("define", v, Conses(elements))
    BY <1>2 DEF complex_define_define
  <2>2. \A f : f.fn = "transform_complex_define" /\ f.at = "define" => RootNames(f) = RootNames(Top)
    BY <2>1, AtFacts, NamesOfOthers
  <2> QED BY <1>0, <2>1, <2>2, ConsesActs
<1>3. CASE complex_define_return
  BY <1>3, AtFacts, NamesOfOthers, OtherReturnActs
     DEF complex_define_return, Finish, OnlyTheStack, others
<1>4. CASE cond_end
  BY <1>4, AtFacts, NamesOfOthers, OtherReturnActs DEF cond_end, Finish, OnlyTheStack, others
<1>5. CASE cond_actions
  <2>1. PICK v : Goto("actions", v)  BY <1>5 DEF cond_actions
  <2> QED BY <1>5, <2>1, OtherNames, NamesOfOthers, OtherGotoActs DEF cond_actions, others
<1>6. CASE cond_else
  <2>1. CASE Exit  BY <1>6, <2>1, AtFacts, ExitActs DEF cond_else
  <2>2. CASE Finish(exp)
    BY <1>6, <2>2, AtFacts, NamesOfOthers, OtherReturnActs DEF cond_else, Finish, OnlyTheStack, others
  <2> QED BY <1>6, <2>1, <2>2 DEF cond_else
<1>7. CASE cond_rest
  <2> DEFINE v == [var EXCEPT !.cond_clauses = NULL]
             w == [cond_clauses |-> cdr(var.cond_clauses), condition |-> NULL, exp |-> NULL]
  <2>1. /\ At("transform_cond_clauses", "actions")
        /\ Call("rest", v, Frame("transform_cond_clauses", "start", w))
        /\ roots' = Push(<<"exp">>) /\ UNCHANGED <<env, environment_stack, exited>>
    BY <1>7 DEF cond_rest, others
  <2> HIDE DEF v, w
  <2>2. /\ stack # << >> /\ Top.fn = "transform_cond_clauses" /\ Top.at = "actions"
        /\ Continue("rest", v).fn = "transform_cond_clauses" /\ Continue("rest", v).at = "rest"
    BY <2>1, OtherNames
  <2>3. RootNames(Top) = << >> /\ RootNames(Continue("rest", v)) = <<"exp">>
    BY <2>2, NamesOfOthers
  <2>4. IsSeq(<<"exp">>)  BY Tuples
  <2>5. << >> \o <<"exp">> = <<"exp">>  BY <2>4, ConcatEmptySeq DEF IsSeq
  <2>6. Push(<<"exp">>) = RootsOf(Continue("rest", v))
    BY <2>2, <2>3, <2>4, <2>5, RootsPushed
  <2>7. RootNames(Frame("transform_cond_clauses", "start", w)) = << >>
    BY <1>0, <2>2, FrameFresh, NamesOfOthers
  <2>8. WithBlock(RootsOf(Continue("rest", v)), Len(stack) + 1, << >>) = RootsOf(Continue("rest", v))
    BY <2>2, RootsOfFacts, PushedNone
  <2> QED BY <1>0, <2>1, <2>2, <2>6, <2>7, <2>8, CallActs
<1>8. CASE cond_if
  <2>1. PICK v, elements : At("transform_cond_clauses", "rest") /\ Invoke("if", v, Conses(elements))
    BY <1>8 DEF cond_if
  <2>2. \A f : f.fn = "transform_cond_clauses" /\ f.at = "if" => RootNames(f) = RootNames(Top)
    BY <2>1, AtFacts, NamesOfOthers
  <2> QED BY <1>0, <2>1, <2>2, ConsesActs
<1>9. CASE cond_return
  <2>1. Len(RootNames(Top)) = 1  BY <1>9, AtFacts, NamesOfOthers, Tuples DEF cond_return
  <2> QED BY <1>9, <2>1, OtherReturnActs DEF cond_return, others
<1>10. CASE let_start
  <2> DEFINE v == [var EXCEPT !.vars = the_empty_list, !.inits = the_empty_list]
  <2>1. /\ At("transform_let", "start") /\ Goto("var", v)
        /\ roots' = Push(<<"vars", "inits">>) /\ UNCHANGED <<env, environment_stack, exited>>
    BY <1>10 DEF let_start, others
  <2> HIDE DEF v
  <2>2. /\ stack # << >> /\ Top.fn = "transform_let" /\ Top.at = "start"
        /\ Continue("var", v).fn = "transform_let" /\ Continue("var", v).at = "var"
    BY <2>1, OtherNames
  <2>3. RootNames(Top) = << >> /\ RootNames(Continue("var", v)) = <<"vars", "inits">>
    BY <2>2, NamesOfOthers
  <2>4. IsSeq(<<"vars", "inits">>)  BY Tuples
  <2>5. << >> \o <<"vars", "inits">> = <<"vars", "inits">>  BY <2>4, ConcatEmptySeq DEF IsSeq
  <2>6. Push(<<"vars", "inits">>) = RootsOf(Continue("var", v))
    BY <2>2, <2>3, <2>4, <2>5, RootsPushed
  <2> QED BY <2>1, <2>2, <2>6, GotoActs
<1>11. CASE let_var
  BY <1>0, <1>11, OtherNames, NamesOfOthers, OtherGotoActs DEF let_var, others
<1>12. CASE let_init
  BY <1>0, <1>12, OtherNames, NamesOfOthers, OtherGotoActs DEF let_init, others
<1>13. CASE let_lambda
  <2>1. PICK v, elements : At("transform_let", "var") /\ Invoke("lambda", v, Conses(elements))
    BY <1>13 DEF let_lambda
  <2>2. \A f : f.fn = "transform_let" /\ f.at = "lambda" => RootNames(f) = RootNames(Top)
    BY <2>1, AtFacts, NamesOfOthers
  <2> QED BY <1>0, <2>1, <2>2, ConsesActs
<1>14. CASE let_application
  <2>1. Len(RootNames(Top)) = 2  BY <1>14, AtFacts, NamesOfOthers, Tuples DEF let_application
  <2> QED BY <1>14, <2>1, OtherReturnActs DEF let_application, others
<1>15. CASE eval_conses
  <2>1. PICK v : At("conses", "start") /\ Goto("start", v)
                 /\ UNCHANGED <<roots, env, environment_stack, exited>>
    BY <1>15 DEF eval_conses, conses
  <2> QED BY <2>1, OtherNames, NamesOfOthers, OtherGotoActs
<1>16. CASE eval_conses_return
  <2>1. At("conses", "start") /\ Return(Top.var[1])
        /\ UNCHANGED <<roots, env, environment_stack, exited>>
    BY <1>16 DEF eval_conses_return, conses_return
  <2> QED BY <2>1, AtFacts, NamesOfOthers, OtherReturnActs
<1> QED
  BY <1>1, <1>2, <1>3, <1>4, <1>5, <1>6, <1>7, <1>8, <1>9, <1>10, <1>11, <1>12, <1>13, <1>14,
     <1>15, <1>16 DEF Rewriting

-----------------------------------------------------------------------------
(* The invariant *)

LEMMA ActsKeep ==
  Coherent /\ Acts =>
    Coherent' /\ (Len(stack') < Len(stack) /\ ~ exited' => env' = Top.entered)
<1> SUFFICES ASSUME Coherent, Acts
             PROVE  Coherent' /\ (Len(stack') < Len(stack) /\ ~ exited' => env' = Top.entered)
  OBVIOUS
<1>0. stack # << >> /\ IsSeq(stack) /\ Len(stack) \in Nat \ {0}  BY TopFacts DEF Acts, Coherent
<1>1. ASSUME NEW f, Goes(f)
      PROVE  Coherent' /\ ~ (Len(stack') < Len(stack))
  <2>1. Coherent'  BY <1>0, <1>1, GoesKeeps
  <2>2. Len(stack') = Len(stack)
    <3>1. stack' = [stack EXCEPT ![Len(stack)] = f] /\ Len(stack) \in 1..Len(stack)
      BY <1>0, <1>1 DEF Goes, TopBecomes
    <3> QED BY <1>0, <3>1, ExceptFacts
  <2> QED BY <1>0, <2>1, <2>2
<1>2. ASSUME NEW f, NEW g, Enters(f, g)
      PROVE  Coherent' /\ ~ (Len(stack') < Len(stack))
  <2>1. Coherent'  BY <1>0, <1>2, EntersKeeps
  <2>2. Len(stack') = Len(stack) + 1
    <3> DEFINE s == [stack EXCEPT ![Len(stack)] = f]
    <3>1. stack' = Append(s, g) /\ Len(stack) \in 1..Len(stack)
      BY <1>0, <1>2 DEF Enters, TopBecomes
    <3>2. IsSeq(s) /\ Len(s) = Len(stack)  BY <1>0, <3>1, ExceptFacts
    <3> HIDE DEF s
    <3> QED BY <3>1, <3>2, AppendFacts
  <2> QED BY <1>0, <2>1, <2>2
<1>3. CASE Leaves  BY <1>0, <1>3, LeavesKeeps
<1>4. CASE Exits
  <2>1. Coherent'  BY <1>4, ExitsKeeps
  <2> QED BY <1>4, <2>1 DEF Exits
<1> QED BY <1>1, <1>2, <1>3, <1>4 DEF Acts

LEMMA StepActs == Coherent /\ Step => Acts
BY EvalActions, ApplicationActions, ProcedureActions, RewritingActions DEF Step

LEMMA StutterKeeps == Coherent /\ UNCHANGED vars => Coherent'
<1> SUFFICES ASSUME Coherent, UNCHANGED vars PROVE Coherent'
  OBVIOUS
<1>1. UNCHANGED <<stack, roots, env, environment_stack, exited>>  BY DEF vars
<1> QED BY <1>1 DEF Coherent, RootsMatch, EnvironmentsMatch, EnvOf, SavedAfter

(* A process that has one function running, with or without a parameter.    *)
LEMMA OneFrame ==
  ASSUME NEW f, FrameOK(f), f.pops = 0, f.entered = env, f.saved = 0,
         stack = <<f>>, environment_stack = << >>, exited = FALSE,
         roots = WithBlock(<< >>, 1, RootNames(f))
  PROVE  Coherent
<1>1. IsSeq(stack) /\ Len(stack) = 1 /\ stack[1] = f  BY Tuples
<1>2. IsSeq(environment_stack) /\ Len(environment_stack) = 0  BY Tuples
<1>6. IsSeq(roots) /\ Sorted(roots, 1) /\ HasBlock(roots, 1, RootNames(f))
  <2>1. IsSeq(<< >>) /\ Len(<< >>) = 0  BY Tuples
  <2>2. Sorted(<< >>, 1 - 1)  BY <2>1 DEF Sorted
  <2> QED BY <2>1, <2>2, NamesFacts, PushBlock
<1>7. RootsMatch  BY <1>1, <1>6 DEF RootsMatch
<1>8. EnvironmentsMatch  BY <1>1, <1>2, Tuples DEF EnvironmentsMatch, SavedAfter, EnvOf
<1>9. \A i \in 1..Len(stack) : FrameOK(stack[i])  BY <1>1
<1>10. ~ exited /\ exited \in BOOLEAN  OBVIOUS
<1> QED BY <1>1, <1>2, <1>6, <1>7, <1>8, <1>9, <1>10 DEF Coherent

LEMMA InitIsCoherent == Init => Coherent
<1> SUFFICES ASSUME Init PROVE Coherent
  OBVIOUS
<1>1. PICK e : stack = <<EvalFrame(e)>>  BY DEF Init
<1> DEFINE f == EvalFrame(e)
<1>2. environment_stack = << >> /\ exited = FALSE /\ Len(environment_stack) = 0
  BY Tuples DEF Init
<1>3. /\ f = [fn |-> f.fn, at |-> f.at, var |-> f.var, pops |-> f.pops,
              entered |-> f.entered, saved |-> f.saved]
      /\ f.fn = "eval" /\ f.at = "tailcall" /\ f.pops = 0 /\ f.entered = env /\ f.saved = 0
  BY <1>2 DEF EvalFrame, Frame
<1>4. stack = <<f>>  BY <1>1
<1> HIDE DEF f
<1>5. FrameOK(f)  BY <1>3 DEF FrameOK
<1>6. RootNames(f) = <<"exp">>  BY <1>3, NamesOfEval DEF Rooting
<1>7. roots = WithBlock(<< >>, 1, <<"exp">>)
  <2>1. Append(<< >>, [frame |-> 1, name |-> "exp"]) = WithBlock(<< >>, 1, <<"exp">>)
    BY Tuples, PushedOne
  <2>2. roots = Append(<< >>, [frame |-> 1, name |-> "exp"])  BY DEF Init
  <2> QED BY <2>1, <2>2
<1> QED BY <1>2, <1>3, <1>4, <1>5, <1>6, <1>7, OneFrame

LEMMA CoherentIsEnough == Coherent => RootsMatchFrames /\ EnvironmentsMatchFrames
<1> SUFFICES ASSUME Coherent, ~ exited
             PROVE  RootsMatchFrames /\ EnvironmentsMatchFrames
  BY DEF RootsMatchFrames, EnvironmentsMatchFrames
<1>1. RootsMatch /\ EnvironmentsMatch  BY DEF Coherent
<1>2. RootsMatchFrames
  BY <1>1 DEF RootsMatchFrames, RootsMatch, Sorted, HasBlock, Block
<1>3. EnvironmentsMatchFrames
  BY <1>1 DEF EnvironmentsMatchFrames, EnvironmentsMatch
<1> QED BY <1>2, <1>3

LEMMA AlwaysCoherent == Spec => []Coherent
<1>1. Coherent /\ [Next]_vars => Coherent'
  BY StepActs, ActsKeep, StutterKeeps DEF Next, Finished
<1> QED BY <1>1, InitIsCoherent, PTL DEF Spec

(* Whatever expression is evaluated, in a heap of whatever objects, the      *)
(* collector's list holds the rooted variables of the functions that are    *)
(* active, each once, in the order of their calls, at every step: no        *)
(* gc_push_root without its gc_pop_root on any way through eval, its        *)
(* helpers and the tail calls (eval.c:31-548).                              *)
THEOREM RootsAlwaysMatchFrames == Spec => []RootsMatchFrames
BY AlwaysCoherent, CoherentIsEnough, PTL

(* The environments saved are those that active evals have pushed for the   *)
(* procedures they entered in tail calls, and the first that each eval has  *)
(* pushed is the one it was called in (eval.c:504, 523).                    *)
THEOREM EnvironmentsAlwaysMatchFrames == Spec => []EnvironmentsMatchFrames
BY AlwaysCoherent, CoherentIsEnough, PTL

(* Every function returns in the environment it was called in, however many *)
(* tail calls it has made (eval.c:543-546).                                 *)
THEOREM EnvironmentIsAlwaysRestored == Spec => EnvironmentIsRestored
<1>1. Coherent /\ [Next]_vars => [Len(stack') < Len(stack) /\ ~ exited' => env' = Top.entered]_vars
  BY StepActs, ActsKeep DEF Next, Finished
<1> QED BY <1>1, AlwaysCoherent, PTL DEF Spec, EnvironmentIsRestored

-----------------------------------------------------------------------------
(* The loop, load and the other procedures *)

LEMMA KeptEvalActs ==
  ASSUME Coherent, NEW fn, NEW x, At(fn, x), NEW at, at \notin Extending, NEW v, NEW t,
         fn = "load" => at = "result", EvalRead(at, v, t), \A f : f.fn = fn /\ f.at = at => RootNames(f) = RootNames(Top)
  PROVE  Acts
<1>1. stack # << >> /\ Top.fn = fn  BY AtFacts
<1>2. RootNames(Continue(at, v)) = RootNames(Top)  BY <1>1, ContinueFacts
<1>3. roots = RootsOf(Continue(at, v))  BY <1>1, <1>2, RootsKept
<1>4. PICK e : Call(at, v, EvalFrame(e))  BY DEF EvalRead
<1> QED BY <1>1, <1>3, <1>4, EvalActs DEF EvalRead, others

LEMMA MainActions == Coherent /\ Main => Acts
<1> SUFFICES ASSUME Coherent, Main PROVE Acts
  OBVIOUS
<1>1. CASE main_read
  <2>1. At("main", "read") /\ EvalRead("write", << >>, text)  BY <1>1 DEF main_read
  <2>2. \A f : f.fn = "main" /\ f.at = "write" => RootNames(f) = RootNames(Top)
    BY <2>1, AtFacts, NamesOfOthers
  <2>3. "write" \notin Extending  BY DEF Extending
  <2> QED BY <2>1, <2>2, <2>3, KeptEvalActs
<1>2. CASE main_write
  <2>1. At("main", "write") /\ Goto("read", << >>) /\ UNCHANGED <<roots, env, environment_stack, exited>>
    BY <1>2 DEF main_write, OnlyTheStack, others
  <2>2. RootNames(Continue("read", << >>)) = RootNames(Top)
    BY <2>1, OtherNames, NamesOfOthers
  <2> QED BY <2>1, <2>2, OtherGotoActs
<1>3. CASE main_return
  BY <1>3, AtFacts, NamesOfOthers, OtherReturnActs DEF main_return, Finish, OnlyTheStack, others
<1> QED BY <1>1, <1>2, <1>3 DEF Main

LEMMA LoadActions == Coherent /\ Load => Acts
<1> SUFFICES ASSUME Coherent, Load PROVE Acts
  OBVIOUS
<1>0. {"primitive", "loaded"} \intersect Rooting = {}
      /\ {"primitive", "loaded", "read", "result"} \intersect Extending = {}
  BY DEF Rooting, Extending
<1>1. CASE load_file
  <2> DEFINE f == Continue("loaded", called)
             h == Frame("load", "read", [result |-> Wild])
             g == [h EXCEPT !.pops = 1]
  <2>1. /\ stack # << >> /\ Top.fn = "eval" /\ Top.at = "primitive"
        /\ stack' = Append(TopBecomes(f), g)
        /\ roots' = Append(roots, [frame |-> Len(stack) + 1, name |-> "result"])
        /\ environment_stack' = Append(environment_stack, env) /\ exited' = exited
        /\ \E file : loading' = Append(loading, file)
    BY <1>1 DEF load_file, Calls, At, Call, vm_push_environment
  <2>2. SameCall(f) /\ f.pops = Top.pops /\ f.fn = "eval" /\ f.at = "loaded"
    BY <1>0, <2>1, ContinueFacts
  <2>3. g = [fn |-> "load", at |-> "read", var |-> [result |-> Wild], pops |-> 1,
             entered |-> env, saved |-> Len(environment_stack)]
    BY DEF Frame
  <2>4. /\ FrameOK(g) /\ g.fn = "load" /\ g.pops = 1 /\ g.entered = env
        /\ g.saved = Len(environment_stack)
    <3> HIDE DEF g
    <3> QED BY <2>1, <2>3, TopFacts DEF FrameOK
  <2> HIDE DEF f, g
  <2>5. roots = RootsOf(f)
    <3>1. RootNames(f) = RootNames(Top)  BY <1>0, <2>1, <2>2, NamesOfEval
    <3> QED BY <2>1, <3>1, RootsKept
  <2>6. roots' = WithBlock(RootsOf(f), Len(stack) + 1, RootNames(g))
    <3>1. RootNames(g) = <<"result">>  BY <2>4, NamesOfOthers
    <3>2. IsSeq(roots)  BY DEF Coherent
    <3> QED BY <2>1, <2>5, <3>1, <3>2, PushedOne
  <2>7. Enters(f, g)  BY <2>1, <2>2, <2>4, <2>6 DEF Enters
  <2> QED BY <2>1, <2>7 DEF Acts
<1>2. CASE load_no_file  BY <1>2, AtFacts, ExitActs DEF load_no_file, Calls
<1>3. CASE load_read
  <2>1. PICK t : At("load", "read") /\ EvalRead("result", var, t)  BY <1>3 DEF load_read
  <2>2. \A f : f.fn = "load" /\ f.at = "result" => RootNames(f) = RootNames(Top)
    BY <2>1, AtFacts, NamesOfOthers
  <2> QED BY <1>0, <2>1, <2>2, KeptEvalActs
<1>4. CASE load_result
  <2> DEFINE v == [result |-> ret]
  <2>1. /\ At("load", "result") /\ Goto("read", v) /\ UNCHANGED <<roots, env, environment_stack, exited>>
        /\ v.result = ret
    BY <1>4 DEF load_result, OnlyTheStack, others
  <2> HIDE DEF v
  <2>2. RootNames(Continue("read", v)) = RootNames(Top)  BY <2>1, OtherNames, NamesOfOthers
  <2> QED BY <2>1, <2>2, OtherGotoActs
<1>5. CASE load_return
  <2>1. At("load", "read") /\ Return(var.result) /\ roots' = Pop(1)
        /\ PopEnvironments(Top.pops) /\ exited' = exited /\ loading' = Front(loading)
    BY <1>5 DEF load_return
  <2>2. stack # << >> /\ Top.fn = "load"  BY <2>1, AtFacts
  <2>3. Len(RootNames(Top)) = 1  BY <2>2, NamesOfOthers, Tuples
  <2> QED BY <2>1, <2>2, <2>3, ReturnActs
<1>6. CASE load_loaded  BY <1>0, <1>6, EvalReturnActs DEF load_loaded
<1> QED BY <1>1, <1>2, <1>3, <1>4, <1>5, <1>6 DEF Load

LEMMA OtherActions == Coherent /\ Other => Acts
<1> SUFFICES ASSUME Coherent, Other PROVE Acts
  OBVIOUS
<1>0. "primitive" \notin Rooting /\ "wrap" \notin Rooting
  BY DEF Rooting
<1>1. CASE call_read  BY <1>0, <1>1, EvalReturnActs DEF call_read, Calls
<1>2. CASE call_write  BY <1>0, <1>2, EvalReturnActs DEF call_write, Calls
<1>3. CASE call_error  BY <1>3, AtFacts, ExitActs DEF call_error, Calls
<1>4. CASE call_start_environment
  BY <1>0, <1>4, PlainGotoActs DEF call_start_environment, Calls, others
<1>5. CASE call_gc_info  BY <1>0, <1>5, EvalReturnActs DEF call_gc_info, Calls
<1>6. CASE call_predicate  BY <1>0, <1>6, EvalReturnActs DEF call_predicate
<1> QED BY <1>1, <1>2, <1>3, <1>4, <1>5, <1>6 DEF Other

LEMMA SessionActs == Coherent /\ SessionNext => Acts \/ UNCHANGED vars
BY MainActions, LoadActions, OtherActions, StepActs
   DEF SessionNext, SessionStep, main_end, sessionVars

-----------------------------------------------------------------------------
(* main is the first function on the C stack, and is never called again.    *)
MainIsFirst ==
  stack # << >> =>
    /\ stack[1].fn = "main" /\ stack[1].entered = 1
    /\ \A i \in 1..Len(stack) : i # 1 => stack[i].fn # "main"

LEMMA ActsKeepMain == Coherent /\ MainIsFirst /\ Acts => MainIsFirst'
<1> SUFFICES ASSUME Coherent, MainIsFirst, Acts PROVE MainIsFirst'
  OBVIOUS
<1> DEFINE n == Len(stack)
<1>1. stack # << >> /\ IsSeq(stack) /\ n \in Nat \ {0} /\ Top = stack[n] /\ n \in 1..n /\ 1 \in 1..n
  BY TopFacts DEF Acts, Coherent
<1>2. ASSUME NEW f, f.fn = Top.fn, f.entered = Top.entered
      PROVE  LET s == TopBecomes(f) IN
               /\ IsSeq(s) /\ Len(s) = n /\ s[1].fn = "main" /\ s[1].entered = 1
               /\ \A i \in 1..n : i # 1 => s[i].fn # "main"
  <2> DEFINE s == TopBecomes(f)
  <2>0. s = [stack EXCEPT ![n] = f]  BY DEF TopBecomes
  <2>1. IsSeq(s) /\ Len(s) = n /\ s[n] = f /\ \A i \in 1..n : i # n => s[i] = stack[i]
    <3> HIDE DEF n, s
    <3>1. n \in 1..Len(stack) /\ Len(stack) = n  BY <1>1 DEF n
    <3> DEFINE t == [stack EXCEPT ![n] = f]
    <3>2. IsSeq(t)  BY <1>1, <3>1, ExceptFacts
    <3>3. Len(t) = n  BY <1>1, <3>1, ExceptFacts
    <3>4. t[n] = f  BY <1>1, <3>1, ExceptFacts
    <3>5. \A i \in 1..n : i # n => t[i] = stack[i]  BY <1>1, <3>1, ExceptFacts
    <3> QED BY <2>0, <3>2, <3>3, <3>4, <3>5
  <2> HIDE DEF s
  <2>2. \A i \in 1..n : s[i].fn = stack[i].fn /\ s[i].entered = stack[i].entered
    BY <1>1, <1>2, <2>1
  <2>3. IsSeq(s) /\ Len(s) = n /\ s[1].fn = "main" /\ s[1].entered = 1
    BY <1>1, <2>1, <2>2 DEF MainIsFirst
  <2>4. \A i \in 1..n : i # 1 => s[i].fn # "main"
    BY <1>1, <2>2 DEF MainIsFirst
  <2> QED BY <2>3, <2>4 DEF s
<1>3. ASSUME NEW f, Goes(f)  PROVE MainIsFirst'
  <2> DEFINE s == TopBecomes(f)
  <2>1. f.fn = Top.fn /\ f.entered = Top.entered /\ stack' = s  BY <1>3 DEF Goes, SameCall
  <2>2. /\ Len(s) = n /\ s[1].fn = "main" /\ s[1].entered = 1
        /\ \A i \in 1..n : i # 1 => s[i].fn # "main"
    BY <1>2, <2>1
  <2> HIDE DEF s
  <2> QED BY <2>1, <2>2 DEF MainIsFirst
<1>4. ASSUME NEW f, NEW g, Enters(f, g)  PROVE MainIsFirst'
  <2> DEFINE s == TopBecomes(f)
  <2>1. f.fn = Top.fn /\ f.entered = Top.entered /\ stack' = Append(s, g) /\ g.fn # "main"
    BY <1>4 DEF Enters, SameCall
  <2>2. /\ IsSeq(s) /\ Len(s) = n /\ s[1].fn = "main" /\ s[1].entered = 1
        /\ \A i \in 1..n : i # 1 => s[i].fn # "main"
    BY <1>2, <2>1
  <2> HIDE DEF s
  <2>3. Len(stack') = n + 1  BY <2>1, <2>2, AppendFacts
  <2>4. \A i \in 1..n : stack'[i] = s[i]  BY <2>1, <2>2, AppendFacts
  <2>5. stack'[n + 1] = g  BY <2>1, <2>2, AppendFacts
  <2>6. ASSUME NEW i \in 1..(n + 1), i # 1  PROVE stack'[i].fn # "main"
    <3>1. CASE i = n + 1  BY <3>1, <2>1, <2>5
    <3>2. CASE i # n + 1
      <4>1. i \in 1..n  BY <3>2, <1>1
      <4> QED BY <4>1, <2>2, <2>4, <2>6
    <3> QED BY <3>1, <3>2
  <2> QED BY <1>1, <2>2, <2>3, <2>4, <2>6 DEF MainIsFirst
<1>5. CASE Leaves
  <2>1. stack' = SubSeq(stack, 1, n - 1)  BY <1>5 DEF Leaves, Front
  <2> DEFINE m == n - 1
  <2>2. m \in 0..n  BY <1>1
  <2>3. stack' = SubSeq(stack, 1, m)  BY <2>1
  <2> HIDE DEF m
  <2>4. IsSeq(stack') /\ Len(stack') = m /\ \A i \in 1..m : stack'[i] = stack[i]
    BY <1>1, <2>2, <2>3, SubSeqFacts
  <2>5. CASE m = 0
    <3>1. stack' = << >>  BY <2>4, <2>5, SeqFacts
    <3> QED BY <3>1 DEF MainIsFirst
  <2>6. CASE m # 0
    <3>1. 1 \in 1..m /\ \A i \in 1..m : i \in 1..n  BY <1>1, <2>2, <2>6
    <3> QED BY <1>1, <2>4, <3>1 DEF MainIsFirst
  <2> QED BY <2>5, <2>6
<1>6. CASE Exits  BY <1>6 DEF Exits, MainIsFirst
<1> QED BY <1>3, <1>4, <1>5, <1>6 DEF Acts

LEMMA SessionInitIsCoherent == SessionInit => Coherent /\ MainIsFirst
<1> SUFFICES ASSUME SessionInit PROVE Coherent /\ MainIsFirst
  OBVIOUS
<1> DEFINE f == Frame("main", "read", << >>)
<1>1. stack = <<f>> /\ environment_stack = << >> /\ exited = FALSE /\ roots = << >> /\ env = 1
  BY DEF SessionInit
<1>2. Len(environment_stack) = 0  BY <1>1, Tuples
<1>3. /\ f = [fn |-> f.fn, at |-> f.at, var |-> f.var, pops |-> f.pops,
              entered |-> f.entered, saved |-> f.saved]
      /\ f.fn = "main" /\ f.pops = 0 /\ f.entered = env /\ f.saved = 0
  BY <1>2 DEF Frame
<1> HIDE DEF f
<1>4. FrameOK(f)  BY <1>3 DEF FrameOK
<1>5. RootNames(f) = << >>  BY <1>3, NamesOfOthers
<1>6. roots = WithBlock(<< >>, 1, RootNames(f))  BY <1>1, <1>5, Tuples, PushedNone
<1>7. Coherent  BY <1>1, <1>3, <1>4, <1>6, OneFrame
<1>8. Len(stack) = 1 /\ stack[1] = f  BY <1>1, Tuples
<1>9. MainIsFirst  BY <1>1, <1>3, <1>8 DEF MainIsFirst
<1> QED BY <1>7, <1>9

LEMMA AlwaysCoherentSession == SessionSpec => [](Coherent /\ MainIsFirst)
<1>1. Coherent /\ MainIsFirst /\ UNCHANGED vars => Coherent' /\ MainIsFirst'
  BY StutterKeeps DEF vars, MainIsFirst
<1>2. Coherent /\ MainIsFirst /\ [SessionNext]_sessionVars => Coherent' /\ MainIsFirst'
  BY <1>1, SessionActs, ActsKeep, ActsKeepMain DEF sessionVars
<1> QED BY <1>2, SessionInitIsCoherent, PTL DEF SessionSpec

LEMMA OnlyMain ==
  Coherent /\ MainIsFirst /\ At("main", "read") =>
    roots = << >> /\ environment_stack = << >> /\ env = 1
<1> SUFFICES ASSUME Coherent, MainIsFirst, At("main", "read")
             PROVE  roots = << >> /\ environment_stack = << >> /\ env = 1
  OBVIOUS
<1>1. stack # << >> /\ Top.fn = "main"  BY AtFacts
<1>2. Len(stack) \in Nat \ {0} /\ Top = stack[Len(stack)] /\ FrameOK(Top)
  BY <1>1, TopFacts
<1>3. Len(stack) = 1
  <2>1. Len(stack) \in 1..Len(stack)  BY <1>2
  <2> QED BY <1>1, <1>2, <2>1 DEF MainIsFirst
<1>4. Top.pops = 0  BY <1>1, <1>2 DEF FrameOK
<1>5. Top.saved = 0 /\ Len(environment_stack) = Top.saved + Top.pops
  <2>1. EnvironmentsMatch  BY <1>1 DEF Coherent
  <2> QED BY <2>1, <1>1, <1>2, <1>3, TopFacts DEF EnvironmentsMatch
<1>6. environment_stack = << >>
  <2>1. IsSeq(environment_stack)  BY DEF Coherent
  <2> QED BY <1>4, <1>5, <2>1, SeqFacts
<1>7. env = 1
  <2>1. EnvOf(1) = stack[1].entered  BY <1>2, <1>3, <1>4, FrameFacts
  <2> QED BY <1>1, <1>3, <2>1 DEF EnvOf, MainIsFirst
<1>8. roots = << >>
  <2>1. RootNames(Top) = << >>  BY <1>1, NamesOfOthers
  <2>2. roots = Below  BY <1>1, <2>1, RootsReturned
  <2>3. IsSeq(Below) /\ Sorted(Below, Len(stack) - 1)  BY <1>1, BelowFacts
  <2> HIDE DEF Below
  <2>4. Len(Below) \in Nat /\ (Below # << >> => Len(Below) > 0)  BY <2>3, SeqFacts
  <2>5. ~ (Len(Below) > 0)
    <3> SUFFICES ASSUME Len(Below) > 0 PROVE FALSE
      OBVIOUS
    <3>1. 1 \in 1..Len(Below)  BY <2>4
    <3>2. Below[1].frame \in 1..(Len(stack) - 1)  BY <2>3, <3>1 DEF Sorted
    <3> QED BY <1>3, <3>2
  <2> QED BY <2>2, <2>4, <2>5
<1> QED BY <1>6, <1>7, <1>8

(* The loop reads every input with nothing rooted, no environment saved and *)
(* the top level in force, whatever the inputs before it did, and whatever  *)
(* files they loaded from wherever (repl.c:17-36, procedures.c:321-340).    *)
THEOREM AlwaysCleanBetweenInputs == SessionSpec => []CleanBetweenInputs
<1>1. Coherent /\ MainIsFirst => CleanBetweenInputs  BY OnlyMain DEF CleanBetweenInputs
<1> QED BY <1>1, AlwaysCoherentSession, PTL

(* What holds of one evaluation holds of the loop and of load, the only     *)
(* procedure that evaluates and is not a part of eval.c: their root and     *)
(* their environments are given back as well (procedures.c:321-340).        *)
THEOREM SessionRootsMatchFrames == SessionSpec => [](RootsMatchFrames /\ EnvironmentsMatchFrames)
BY AlwaysCoherentSession, CoherentIsEnough, PTL

(* load, too, returns in the environment it was called in.                  *)
THEOREM SessionEnvironmentIsRestored == SessionSpec => EnvironmentIsRestored
<1>1. Coherent /\ [SessionNext]_sessionVars
        => [Len(stack') < Len(stack) /\ ~ exited' => env' = Top.entered]_vars
  BY SessionActs, ActsKeep DEF sessionVars
<1> QED BY <1>1, AlwaysCoherentSession, PTL DEF SessionSpec, EnvironmentIsRestored

(* If p is an address, the heap h has an object there, and has not freed it; *)
(* and p was not read from a variable that was never set, unless a file was *)
(* empty.                                                                  *)
Kept(p, h) ==
  /\ p \in Nat => p \in 1..Len(h) /\ h[p] # Freed
  /\ FilesHaveData => p # Wild
IsBindings(p, h) == p \in 1..Len(h) /\ h[p].kind = "bindings"

(* Nothing in the heap points to an object freed, and the environments that *)
(* closures and other environments refer to are there, the parents first.   *)
ObjectOK(h, a, o) ==
  \/ o = Freed
  \/ o.kind \in {"number", "character", "string"}
  \/ o.kind = "pair" /\ o = Pair(o.car, o.cdr) /\ Kept(o.car, h) /\ Kept(o.cdr, h)
  \/ o.kind = "procedure" /\ Kept(o.arguments, h) /\ Kept(o.body, h) /\ IsBindings(o.env, h)
  \/ o.kind = "environment" /\ IsBindings(o.value, h)
  \/ /\ o.kind = "bindings" /\ o = Bindings(o.parent, o.bindings)
     /\ o.parent = NULL \/ (IsBindings(o.parent, h) /\ o.parent < a)
     /\ \A x \in DOMAIN o.bindings : Kept(o.bindings[x], h)
HeapOK(h) == IsSeq(h) /\ \A a \in 1..Len(h) : ObjectOK(h, a, h[a])

EnvironmentsOK(h, e, saved) ==
  IsBindings(e, h) /\ IsSeq(saved) /\ \A k \in 1..Len(saved) : IsBindings(saved[k], h)

PairPointers(o) == IF o.kind = "pair" THEN {o.car, o.cdr} ELSE {}
(* The expression that p points to, and the lists that it is a part of the   *)
(* end of: the pairs reached by following both pointers, or the second.     *)
Parts(h, p) == Closure([a \in DOMAIN h |-> PairPointers(h[a])], {p} \intersect DOMAIN h)
Spine(h, p) == Closure([a \in DOMAIN h |-> Behind(h[a])], {p} \intersect DOMAIN h)

(* What the variables that frames have rooted point to, and the operands of *)
(* the applications that are evaluating them.                              *)
RootedOf(f) == {f.var[RootNames(f)[k]] : k \in 1..Len(RootNames(f))}
RootedUpTo(s, m) == UNION {RootedOf(s[j]) : j \in 1..m}
OperandsOf(f) == IF f.fn = "eval" /\ f.at = "args" THEN {f.var.exp} ELSE {}
OperandsUpTo(s, m) == UNION {OperandsOf(s[j]) : j \in 1..m}

Building == {"transform_complex_define", "transform_cond_clauses", "transform_let", "conses"}
Shape(f) ==
  \/ f.fn = "eval" /\ f.var = [exp |-> f.var.exp, proc |-> f.var.proc, args |-> f.var.args]
  \/ f.fn = "list_of_values" /\ f.var = [exps |-> f.var.exps, tmp |-> f.var.tmp]
  \/ f.fn = "transform_complex_define" /\ f.var = [exp |-> f.var.exp]
  \/ /\ f.fn = "transform_cond_clauses"
     /\ f.var = [cond_clauses |-> f.var.cond_clauses, condition |-> f.var.condition, exp |-> f.var.exp]
  \/ /\ f.fn = "transform_let"
     /\ f.var = [let |-> f.var.let, bindings |-> f.var.bindings, vars |-> f.var.vars, inits |-> f.var.inits]
  \/ f.fn = "conses" /\ IsSeq(f.var)
  \/ f.fn = "load" /\ f.var = [result |-> f.var.result]
  \/ f.fn = "main" /\ f.var = << >>

(* The variables that the running function has not rooted, and that nothing *)
(* else needs to keep alive: it allocates nothing before it has read them,  *)
(* or passes them to what it allocates.                                     *)
Loose(f) ==
  CASE f.fn = "eval" /\ f.at \in {"primitive", "wrap"} -> {"proc", "args"}
    [] f.fn = "transform_cond_clauses" /\ f.at = "actions" -> {"exp"}
    [] f.fn = "conses" -> {Len(f.var) - 1, Len(f.var)}
    [] OTHER -> {}

(* What keeps a variable of the frame f alive, where the pointers in R are  *)
(* rooted by the frames below it, and those in Q are to operands.           *)
Held(h, R, Q, f, x) ==
  \/ f.var[x] \notin Nat
  \/ \E k \in 1..Len(RootNames(f)) : x = RootNames(f)[k]
  \/ f.fn = "list_of_values" /\ \E q \in Q : f.var[x] \in Spine(h, q)
  \/ f.fn \in Building /\ \E r \in R : f.var[x] \in Parts(h, r)
InProcedure(f) == f.fn = "eval" /\ f.at \in {"extend", "body"}
Wraps(f) == f.fn = "eval" /\ f.at = "wrap"
Safe(h, f, x) == Kept(f.var[x], h) \/ (f.fn = "load" /\ f.var[x] = Wild)
(* A frame that waits for the one that it has called, and the running one.  *)
Waits(h, R, Q, f) ==
  /\ Shape(f) /\ ~ InProcedure(f) /\ ~ Wraps(f)
  /\ \A x \in DOMAIN f.var : Safe(h, f, x) /\ Held(h, R, Q, f, x)
Runs(h, R, Q, f) ==
  /\ Shape(f)
  /\ InProcedure(f) => f.var.proc \in 1..Len(h) /\ h[f.var.proc].kind = "procedure"
  /\ Wraps(f) => IsBindings(f.var.args, h)
  /\ \A x \in DOMAIN f.var : Safe(h, f, x) /\ (x \in Loose(f) \/ Held(h, R, Q, f, x))
FramesSafe(h, s) ==
  \A i \in 1..Len(s) :
    IF i = Len(s) THEN Runs(h, RootedUpTo(s, i - 1), OperandsUpTo(s, i - 1), s[i])
    ELSE Waits(h, RootedUpTo(s, i - 1), OperandsUpTo(s, i - 1), s[i])
(* What builds an expression calls nothing else.                            *)
Ordered(s) ==
  \A i, j \in 1..Len(s) : i < j /\ s[i].fn \in Building => s[j].fn \in Building

(* The inductive invariant, and the same after a step.                      *)
Alive ==
  /\ HeapOK(heap) /\ EnvironmentsOK(heap, env, environment_stack) /\ Kept(ret, heap)
  /\ FramesSafe(heap, stack) /\ Ordered(stack)
AliveNext ==
  /\ HeapOK(heap') /\ EnvironmentsOK(heap', env', environment_stack') /\ Kept(ret', heap')
  /\ FramesSafe(heap', stack') /\ Ordered(stack')

LEMMA Primed == AliveNext /\ program' = program => Alive'
<1> SUFFICES ASSUME AliveNext, program' = program PROVE Alive'
  OBVIOUS
<1>1. FilesHaveData' <=> FilesHaveData  BY DEF FilesHaveData
<1>2. HeapOK(heap)'  BY <1>1 DEF AliveNext, HeapOK, ObjectOK, Kept, IsBindings
<1>3. EnvironmentsOK(heap, env, environment_stack)'
  BY DEF AliveNext, EnvironmentsOK, IsBindings
<1>4. Kept(ret, heap)'  BY <1>1 DEF AliveNext, Kept
<1>5. FramesSafe(heap, stack)'  BY <1>1 DEF AliveNext, FramesSafe, Runs, Waits, Safe, Kept
<1>6. Ordered(stack)'  BY DEF AliveNext, Ordered
<1> QED BY <1>2, <1>3, <1>4, <1>5, <1>6 DEF Alive

(* The values that are no addresses. *)
Outside == {NULL, true, false, the_empty_list, eof} \union Symbol \union Primitive
           \union Range(init_environment)
LEMMA OutsideFacts == \A v \in Outside : v \notin Nat /\ \A h : Kept(v, h)
BY ValuesAreNoAddresses, SymbolsAreNoAddresses, WildIsNoValue DEF Kept, Outside

LEMMA NullKept == NULL \notin Nat /\ \A h : Kept(NULL, h)
BY OutsideFacts DEF Outside

LEMMA NoAddressStays ==
  ASSUME NEW h, NEW v, v \notin Nat, Kept(v, h)
  PROVE  \A g : Kept(v, g)
BY DEF Kept

-----------------------------------------------------------------------------
(* The parts of an expression, and the end of a list.                       *)

LEMMA PartsFacts ==
  ASSUME NEW h, NEW p
  PROVE  /\ p \in DOMAIN h => p \in Parts(h, p)
         /\ Parts(h, p) \subseteq DOMAIN h
         /\ \A a \in Parts(h, p) : PairPointers(h[a]) \intersect DOMAIN h \subseteq Parts(h, p)
         /\ \A T \in SUBSET DOMAIN h :
              /\ p \in DOMAIN h => p \in T
              /\ \A a \in T : PairPointers(h[a]) \intersect DOMAIN h \subseteq T
              => Parts(h, p) \subseteq T
<1> DEFINE P == [a \in DOMAIN h |-> PairPointers(h[a])]
           S == {p} \intersect DOMAIN h
<1>1. DOMAIN P = DOMAIN h /\ S \in SUBSET DOMAIN P /\ \A a \in DOMAIN h : P[a] = PairPointers(h[a])
  OBVIOUS
<1>2. p \in DOMAIN h <=> p \in S  OBVIOUS
<1>3. \A a \in S : a = p  OBVIOUS
<1>4. Parts(h, p) = Closure(P, S)  BY DEF Parts
<1> HIDE DEF P, S
<1> QED BY <1>1, <1>2, <1>3, <1>4, ClosureFacts DEF ClosedUnder

LEMMA SpineFacts ==
  ASSUME NEW h, NEW p
  PROVE  /\ p \in DOMAIN h => p \in Spine(h, p)
         /\ Spine(h, p) \subseteq DOMAIN h
         /\ \A a \in Spine(h, p) : Behind(h[a]) \intersect DOMAIN h \subseteq Spine(h, p)
         /\ \A T \in SUBSET DOMAIN h :
              /\ p \in DOMAIN h => p \in T
              /\ \A a \in T : Behind(h[a]) \intersect DOMAIN h \subseteq T
              => Spine(h, p) \subseteq T
<1> DEFINE P == [a \in DOMAIN h |-> Behind(h[a])]
           S == {p} \intersect DOMAIN h
<1>1. DOMAIN P = DOMAIN h /\ S \in SUBSET DOMAIN P /\ \A a \in DOMAIN h : P[a] = Behind(h[a])
  OBVIOUS
<1>2. p \in DOMAIN h <=> p \in S  OBVIOUS
<1>3. \A a \in S : a = p  OBVIOUS
<1>4. Spine(h, p) = Closure(P, S)  BY DEF Spine
<1> HIDE DEF P, S
<1> QED BY <1>1, <1>2, <1>3, <1>4, ClosureFacts DEF ClosedUnder

LEMMA PartsStay ==
  ASSUME NEW h, NEW g, DOMAIN h \subseteq DOMAIN g, NEW p,
         \A a \in Parts(h, p) : PairPointers(h[a]) \subseteq PairPointers(g[a])
  PROVE  Parts(h, p) \subseteq Parts(g, p)
<1> DEFINE P == [a \in DOMAIN h |-> PairPointers(h[a])]
           N == [a \in DOMAIN g |-> PairPointers(g[a])]
           S == {p} \intersect DOMAIN h
           U == {p} \intersect DOMAIN g
<1>1. S \in SUBSET DOMAIN P /\ DOMAIN P \subseteq DOMAIN N /\ S \subseteq U
  OBVIOUS
<1>2. Parts(h, p) = Closure(P, S) /\ Parts(g, p) = Closure(N, U)  BY DEF Parts
<1>3. \A a \in Parts(h, p) : a \in DOMAIN h /\ a \in DOMAIN g  BY PartsFacts
<1>4. \A a \in Closure(P, S) : P[a] \subseteq N[a]  BY <1>2, <1>3
<1> HIDE DEF P, N, S, U
<1> QED BY <1>1, <1>2, <1>4, ClosureStays

LEMMA SpineStays ==
  ASSUME NEW h, NEW g, DOMAIN h \subseteq DOMAIN g, NEW p,
         \A a \in Spine(h, p) : Behind(h[a]) \subseteq Behind(g[a])
  PROVE  Spine(h, p) \subseteq Spine(g, p)
<1> DEFINE P == [a \in DOMAIN h |-> Behind(h[a])]
           N == [a \in DOMAIN g |-> Behind(g[a])]
           S == {p} \intersect DOMAIN h
           U == {p} \intersect DOMAIN g
<1>1. S \in SUBSET DOMAIN P /\ DOMAIN P \subseteq DOMAIN N /\ S \subseteq U
  OBVIOUS
<1>2. Spine(h, p) = Closure(P, S) /\ Spine(g, p) = Closure(N, U)  BY DEF Spine
<1>3. \A a \in Spine(h, p) : a \in DOMAIN h /\ a \in DOMAIN g  BY SpineFacts
<1>4. \A a \in Closure(P, S) : P[a] \subseteq N[a]  BY <1>2, <1>3
<1> HIDE DEF P, N, S, U
<1> QED BY <1>1, <1>2, <1>4, ClosureStays

LEMMA SpineInParts == \A h, p : Spine(h, p) \subseteq Parts(h, p)
<1> TAKE h, p
<1>1. \A a \in Parts(h, p) : Behind(h[a]) \subseteq PairPointers(h[a])
  BY DEF Behind, PairPointers
<1>2. /\ Parts(h, p) \in SUBSET DOMAIN h /\ (p \in DOMAIN h => p \in Parts(h, p))
      /\ \A a \in Parts(h, p) : Behind(h[a]) \intersect DOMAIN h \subseteq Parts(h, p)
  BY <1>1, PartsFacts
<1> QED BY <1>2, SpineFacts

-----------------------------------------------------------------------------
(* A step keeps what the frames below the running one hold: from the heap h *)
(* to the heap g everything in T stays, which is closed and contains what R *)
(* points to, the operands Q stay where they are in their lists, and, if    *)
(* something is being built, the parts of expressions stay theirs.          *)

Steady(h, g, T, R, Q, W) ==
  /\ DOMAIN h \subseteq DOMAIN g /\ T \subseteq DOMAIN h
  /\ \A r \in R : r \in DOMAIN h => r \in T
  /\ Q \subseteq R
  /\ \A a \in T : PairPointers(h[a]) \intersect DOMAIN h \subseteq T
  /\ \A v : Kept(v, h) /\ (v \in DOMAIN h => v \in T) => Kept(v, g)
  /\ \A q \in Q : Spine(h, q) \subseteq Spine(g, q)
  /\ \A r \in W : Parts(h, r) \subseteq Parts(g, r)

LEMMA HeldIsThere ==
  ASSUME NEW h, NEW g, NEW T, NEW R, NEW Q, NEW W, Steady(h, g, T, R, Q, W), NEW r \in R
  PROVE  Parts(h, r) \subseteq T /\ Spine(h, r) \subseteq T
<1>1. Parts(h, r) \subseteq T
  <2>1. /\ T \in SUBSET DOMAIN h /\ (r \in DOMAIN h => r \in T)
        /\ \A a \in T : PairPointers(h[a]) \intersect DOMAIN h \subseteq T
    BY DEF Steady
  <2> QED BY <2>1, PartsFacts
<1> QED BY <1>1, SpineInParts

(* R and Q are what is below the frame f, and R0 and Q0 below a later one.  *)
Carried(h, g, T, R0, Q0, W, R, Q, f) ==
  /\ DOMAIN h \subseteq Nat /\ Steady(h, g, T, R0, Q0, W)
  /\ R \subseteq R0 /\ Q \subseteq Q0 /\ RootedOf(f) \subseteq R0
  /\ f.fn \in Building => R \subseteq W

LEMMA LowerVariable ==
  ASSUME NEW h, NEW g, NEW T, NEW R0, NEW Q0, NEW W, NEW R, NEW Q, NEW f,
         Carried(h, g, T, R0, Q0, W, R, Q, f), NEW x, Kept(f.var[x], h), Held(h, R, Q, f, x)
  PROVE  /\ Kept(f.var[x], g) /\ Held(g, R, Q, f, x)
         /\ f.var[x] \in DOMAIN h => f.var[x] \in T
<1> DEFINE v == f.var[x]
<1>1. /\ DOMAIN h \subseteq Nat /\ Steady(h, g, T, R0, Q0, W)
      /\ R \subseteq R0 /\ Q \subseteq Q0 /\ RootedOf(f) \subseteq R0
      /\ f.fn \in Building => R \subseteq W
  BY DEF Carried
<1>2. SUFFICES (v \in DOMAIN h => v \in T) /\ Held(g, R, Q, f, x)
  BY <1>1 DEF Steady
<1>3. CASE v \notin Nat
  BY <1>1, <1>3 DEF Held
<1>4. CASE \E k \in 1..Len(RootNames(f)) : x = RootNames(f)[k]
  <2>1. v \in RootedOf(f)  BY <1>4, Zenon DEF RootedOf
  <2>2. v \in DOMAIN h => v \in T  BY <2>1, <1>1 DEF Steady
  <2> QED BY <2>2, <1>4 DEF Held
<1>5. CASE f.fn = "list_of_values" /\ \E q \in Q : v \in Spine(h, q)
  <2>1. PICK q \in Q : v \in Spine(h, q)  BY <1>5
  <2>2. q \in Q0 /\ q \in R0  BY <1>1 DEF Steady
  <2>3. Spine(h, q) \subseteq T  BY <2>2, <1>1, HeldIsThere
  <2>4. v \in Spine(g, q)  BY <2>1, <2>2, <1>1 DEF Steady
  <2> QED BY <2>1, <2>3, <2>4, <1>5 DEF Held
<1>6. CASE f.fn \in Building /\ \E r \in R : v \in Parts(h, r)
  <2>1. PICK r \in R : v \in Parts(h, r)  BY <1>6
  <2>2. r \in R0 /\ r \in W  BY <1>1, <1>6
  <2>3. Parts(h, r) \subseteq T  BY <2>2, <1>1, HeldIsThere
  <2>4. v \in Parts(g, r)  BY <2>1, <2>2, <1>1 DEF Steady
  <2> QED BY <2>1, <2>3, <2>4, <1>6 DEF Held
<1> QED BY <1>3, <1>4, <1>5, <1>6, Zenon DEF Held

LEMMA LowerFrame ==
  ASSUME NEW h, NEW g, NEW T, NEW R0, NEW Q0, NEW W, NEW R, NEW Q, NEW f,
         Carried(h, g, T, R0, Q0, W, R, Q, f), Waits(h, R, Q, f)
  PROVE  Waits(g, R, Q, f) /\ Runs(g, R, Q, f)
<1>1. Shape(f) /\ ~ InProcedure(f) /\ ~ Wraps(f)  BY DEF Waits
<1>2. ASSUME NEW x \in DOMAIN f.var  PROVE Safe(g, f, x) /\ Held(g, R, Q, f, x)
  <2>1. Safe(h, f, x) /\ Held(h, R, Q, f, x)  BY DEF Waits
  <2>2. CASE Kept(f.var[x], h)  BY <2>1, <2>2, LowerVariable DEF Safe
  <2>3. CASE f.fn = "load" /\ f.var[x] = Wild  BY <2>3, WildIsNoValue DEF Safe, Held
  <2> QED BY <2>1, <2>2, <2>3 DEF Safe
<1> QED BY <1>1, <1>2 DEF Waits, Runs

(* What is rooted below a frame is settled by the frames below.             *)
LEMMA RootedBelow ==
  ASSUME NEW s, NEW t, NEW m \in Nat, \A i \in 1..m : t[i] = s[i]
  PROVE  RootedUpTo(t, m) = RootedUpTo(s, m) /\ OperandsUpTo(t, m) = OperandsUpTo(s, m)
<1>1. {RootedOf(t[j]) : j \in 1..m} = {RootedOf(s[j]) : j \in 1..m}  OBVIOUS
<1>2. {OperandsOf(t[j]) : j \in 1..m} = {OperandsOf(s[j]) : j \in 1..m}  OBVIOUS
<1> QED BY <1>1, <1>2, Zenon DEF RootedUpTo, OperandsUpTo

LEMMA RootedGrows ==
  ASSUME NEW s, NEW m \in Nat, NEW i \in 1..m
  PROVE  /\ RootedOf(s[i]) \subseteq RootedUpTo(s, m)
         /\ RootedUpTo(s, i - 1) \subseteq RootedUpTo(s, m)
         /\ OperandsUpTo(s, i - 1) \subseteq OperandsUpTo(s, m)
         /\ RootedUpTo(s, m) = RootedUpTo(s, m - 1) \union RootedOf(s[m])
         /\ OperandsUpTo(s, m) = OperandsUpTo(s, m - 1) \union OperandsOf(s[m])
<1>1. 1..m = 1..(m - 1) \union {m} /\ 1..(i - 1) \subseteq 1..m  OBVIOUS
<1>2. ASSUME NEW v PROVE v \in RootedUpTo(s, m) <=> \E j \in 1..m : v \in RootedOf(s[j])
  BY DEF RootedUpTo
<1>3. ASSUME NEW v, NEW k PROVE v \in RootedUpTo(s, k - 1) <=> \E j \in 1..(k - 1) : v \in RootedOf(s[j])
  BY DEF RootedUpTo
<1>4. ASSUME NEW v PROVE v \in OperandsUpTo(s, m) <=> \E j \in 1..m : v \in OperandsOf(s[j])
  BY DEF OperandsUpTo
<1>5. ASSUME NEW v, NEW k PROVE v \in OperandsUpTo(s, k - 1) <=> \E j \in 1..(k - 1) : v \in OperandsOf(s[j])
  BY DEF OperandsUpTo
<1>6. RootedOf(s[i]) \subseteq RootedUpTo(s, m)  BY <1>2
<1>7. RootedUpTo(s, i - 1) \subseteq RootedUpTo(s, m)  BY <1>1, <1>2, <1>3
<1>8. OperandsUpTo(s, i - 1) \subseteq OperandsUpTo(s, m)  BY <1>1, <1>4, <1>5
<1>9. RootedUpTo(s, m) = RootedUpTo(s, m - 1) \union RootedOf(s[m])  BY <1>1, <1>2, <1>3
<1>10. OperandsUpTo(s, m) = OperandsUpTo(s, m - 1) \union OperandsOf(s[m])  BY <1>1, <1>4, <1>5
<1> QED BY <1>6, <1>7, <1>8, <1>9, <1>10

LEMMA LowerFrames ==
  ASSUME NEW h, NEW g, DOMAIN h \subseteq Nat, NEW s, Len(s) \in Nat, FramesSafe(h, s), Ordered(s), NEW T, NEW W,
         Steady(h, g, T, RootedUpTo(s, Len(s)), OperandsUpTo(s, Len(s)), W),
         s[Len(s)].fn \in Building => RootedUpTo(s, Len(s)) \subseteq W,
         NEW t, NEW m \in Nat, m < Len(s), \A i \in 1..m : t[i] = s[i], NEW i \in 1..m
  PROVE  /\ Waits(g, RootedUpTo(t, i - 1), OperandsUpTo(t, i - 1), t[i])
         /\ Runs(g, RootedUpTo(t, i - 1), OperandsUpTo(t, i - 1), t[i])
<1> DEFINE n == Len(s)
           f == s[i]
           R == RootedUpTo(s, i - 1)
           Q == OperandsUpTo(s, i - 1)
           R0 == RootedUpTo(s, n)
           Q0 == OperandsUpTo(s, n)
<1>1. i \in 1..n /\ i < n /\ i - 1 \in Nat /\ n \in 1..n /\ i # n  OBVIOUS
<1>2. Waits(h, R, Q, f)  BY <1>1 DEF FramesSafe
<1>3. RootedUpTo(t, i - 1) = R /\ OperandsUpTo(t, i - 1) = Q
  <2>1. \A j \in 1..(i - 1) : t[j] = s[j]  BY <1>1
  <2> QED BY <1>1, <2>1, RootedBelow
<1>4. R \subseteq R0 /\ Q \subseteq Q0 /\ RootedOf(f) \subseteq R0
  BY <1>1, RootedGrows
<1>5. f.fn \in Building => R \subseteq W  BY <1>1, <1>4 DEF Ordered
<1>6. Carried(h, g, T, R0, Q0, W, R, Q, f)
  BY <1>4, <1>5 DEF Carried
<1>7. t[i] = f  OBVIOUS
<1> HIDE DEF f, R, Q, R0, Q0
<1>8. Waits(g, R, Q, f) /\ Runs(g, R, Q, f)  BY <1>2, <1>6, LowerFrame
<1> QED BY <1>3, <1>7, <1>8

-----------------------------------------------------------------------------
(* The frames after a step: the running function has gone on, has called    *)
(* another, or has returned.                                                *)

Moved(h, g, s, T, W) ==
  /\ DOMAIN h \subseteq Nat /\ IsSeq(s) /\ s # << >> /\ FramesSafe(h, s) /\ Ordered(s)
  /\ Steady(h, g, T, RootedUpTo(s, Len(s)), OperandsUpTo(s, Len(s)), W)
  /\ s[Len(s)].fn \in Building => RootedUpTo(s, Len(s)) \subseteq W

LEMMA GoSafe ==
  ASSUME NEW h, NEW g, NEW s, NEW T, NEW W, Moved(h, g, s, T, W), NEW f, f.fn = s[Len(s)].fn,
         Runs(g, RootedUpTo(s, Len(s) - 1), OperandsUpTo(s, Len(s) - 1), f)
  PROVE  FramesSafe(g, [s EXCEPT ![Len(s)] = f]) /\ Ordered([s EXCEPT ![Len(s)] = f])
<1> DEFINE n == Len(s)
           t == [s EXCEPT ![n] = f]
<1>1. n \in Nat \ {0} /\ n \in 1..n  BY SeqFacts DEF Moved
<1>2. Len(t) = n /\ t[n] = f /\ \A i \in 1..n : i # n => t[i] = s[i]
  BY <1>1, ExceptFacts DEF Moved
<1> HIDE DEF t
<1>3. ASSUME NEW i \in 1..n
      PROVE  IF i = n THEN Runs(g, RootedUpTo(t, i - 1), OperandsUpTo(t, i - 1), t[i])
             ELSE Waits(g, RootedUpTo(t, i - 1), OperandsUpTo(t, i - 1), t[i])
  <2>1. CASE i = n
    <3>1. n - 1 \in Nat /\ \A j \in 1..(n - 1) : t[j] = s[j]  BY <1>1, <1>2
    <3>2. RootedUpTo(t, n - 1) = RootedUpTo(s, n - 1) /\ OperandsUpTo(t, n - 1) = OperandsUpTo(s, n - 1)
      BY <3>1, RootedBelow
    <3> QED BY <2>1, <1>2, <3>2
  <2>2. CASE i # n
    <3>1. n - 1 \in Nat /\ n - 1 < n /\ i \in 1..(n - 1) /\ \A j \in 1..(n - 1) : t[j] = s[j]
      BY <1>1, <1>2, <2>2
    <3>2. Waits(g, RootedUpTo(t, i - 1), OperandsUpTo(t, i - 1), t[i])
      BY <1>1, <3>1, LowerFrames DEF Moved
    <3> QED BY <2>2, <3>2
  <2> QED BY <2>1, <2>2
<1>4. FramesSafe(g, t)  BY <1>2, <1>3 DEF FramesSafe
<1>5. Ordered(t)
  <2>1. \A i \in 1..n : t[i].fn = s[i].fn  BY <1>2
  <2> QED BY <1>2, <2>1 DEF Ordered, Moved
<1> QED BY <1>4, <1>5 DEF t

LEMMA CallSafe ==
  ASSUME NEW h, NEW g, NEW s, NEW T, NEW W, Moved(h, g, s, T, W), NEW f, f.fn = s[Len(s)].fn,
         Waits(g, RootedUpTo(s, Len(s) - 1), OperandsUpTo(s, Len(s) - 1), f),
         NEW e, f.fn \in Building => e.fn \in Building,
         Runs(g, RootedUpTo(s, Len(s) - 1) \union RootedOf(f),
                 OperandsUpTo(s, Len(s) - 1) \union OperandsOf(f), e)
  PROVE  /\ FramesSafe(g, Append([s EXCEPT ![Len(s)] = f], e))
         /\ Ordered(Append([s EXCEPT ![Len(s)] = f], e))
<1> DEFINE n == Len(s)
           u == [s EXCEPT ![n] = f]
           t == Append(u, e)
<1>1. n \in Nat \ {0} /\ n \in 1..n  BY SeqFacts DEF Moved
<1>2. IsSeq(u) /\ Len(u) = n /\ u[n] = f /\ \A i \in 1..n : i # n => u[i] = s[i]
  BY <1>1, ExceptFacts DEF Moved
<1> HIDE DEF u
<1>3. Len(t) = n + 1 /\ t[n + 1] = e /\ \A i \in 1..n : t[i] = u[i]
  BY <1>2, AppendFacts
<1> HIDE DEF t
<1>4. /\ t[n] = f /\ n - 1 \in Nat /\ \A j \in 1..(n - 1) : t[j] = s[j]
      /\ (n + 1) - 1 = n /\ n + 1 # n
  BY <1>1, <1>2, <1>3
<1>5. RootedUpTo(t, n - 1) = RootedUpTo(s, n - 1) /\ OperandsUpTo(t, n - 1) = OperandsUpTo(s, n - 1)
  BY <1>4, RootedBelow
<1>6. /\ RootedUpTo(t, n) = RootedUpTo(s, n - 1) \union RootedOf(f)
      /\ OperandsUpTo(t, n) = OperandsUpTo(s, n - 1) \union OperandsOf(f)
  BY <1>1, <1>4, <1>5, RootedGrows
<1>7. ASSUME NEW i \in 1..(n + 1)
      PROVE  IF i = n + 1 THEN Runs(g, RootedUpTo(t, i - 1), OperandsUpTo(t, i - 1), t[i])
             ELSE Waits(g, RootedUpTo(t, i - 1), OperandsUpTo(t, i - 1), t[i])
  <2>1. CASE i = n + 1
    BY <2>1, <1>3, <1>4, <1>6
  <2>2. CASE i = n
    BY <2>2, <1>4, <1>5
  <2>3. CASE i # n /\ i # n + 1
    <3>1. n - 1 < n /\ i \in 1..(n - 1)  BY <1>1, <2>3
    <3>2. Waits(g, RootedUpTo(t, i - 1), OperandsUpTo(t, i - 1), t[i])
      BY <1>1, <1>4, <3>1, LowerFrames DEF Moved
    <3> QED BY <2>3, <3>2
  <2> QED BY <2>1, <2>2, <2>3
<1>8. FramesSafe(g, t)  BY <1>3, <1>7 DEF FramesSafe
<1>9. Ordered(t)
  <2> SUFFICES ASSUME NEW i \in 1..(n + 1), NEW j \in 1..(n + 1), i < j, t[i].fn \in Building
               PROVE  t[j].fn \in Building
    BY <1>3 DEF Ordered
  <2>1. i \in 1..n /\ t[i].fn = s[i].fn  BY <1>1, <1>2, <1>3
  <2>2. \A k \in 1..n : t[k].fn = s[k].fn  BY <1>2, <1>3
  <2>3. CASE j \in 1..n  BY <2>1, <2>2, <2>3 DEF Ordered, Moved
  <2>4. CASE j = n + 1
    <3>1. f.fn \in Building
      <4>1. CASE i = n  BY <4>1, <2>1
      <4>2. CASE i # n  BY <4>2, <2>1, <1>1 DEF Ordered, Moved
      <4> QED BY <4>1, <4>2
    <3> QED BY <3>1, <2>4, <1>3
  <2> QED BY <2>3, <2>4, <1>1
<1> QED BY <1>8, <1>9 DEF t, u

LEMMA ReturnSafe ==
  ASSUME NEW h, NEW g, NEW s, NEW T, NEW W, Moved(h, g, s, T, W)
  PROVE  FramesSafe(g, Front(s)) /\ Ordered(Front(s))
<1> DEFINE n == Len(s)
           t == Front(s)
<1>1. n \in Nat \ {0} /\ n - 1 \in 0..n /\ n - 1 \in Nat /\ n - 1 < n  BY SeqFacts DEF Moved
<1>2. t = SubSeq(s, 1, n - 1)  BY DEF Front
<1> HIDE DEF t
<1>3. Len(t) = n - 1 /\ \A i \in 1..(n - 1) : t[i] = s[i]
  BY <1>1, <1>2, SubSeqFacts DEF Moved
<1>4. ASSUME NEW i \in 1..(n - 1)
      PROVE  /\ Waits(g, RootedUpTo(t, i - 1), OperandsUpTo(t, i - 1), t[i])
             /\ Runs(g, RootedUpTo(t, i - 1), OperandsUpTo(t, i - 1), t[i])
  BY <1>1, <1>3, LowerFrames DEF Moved
<1>5. FramesSafe(g, t)  BY <1>3, <1>4 DEF FramesSafe
<1>6. \A i \in 1..(n - 1) : t[i].fn = s[i].fn /\ i \in 1..n  BY <1>1, <1>3
<1>7. Ordered(t)
  <2> SUFFICES ASSUME NEW i \in 1..(n - 1), NEW j \in 1..(n - 1), i < j, t[i].fn \in Building
               PROVE  t[j].fn \in Building
    BY <1>3 DEF Ordered
  <2> QED BY <1>6 DEF Ordered, Moved
<1> QED BY <1>5, <1>7 DEF t

-----------------------------------------------------------------------------
(* Pairs: what is taken for one is there, and so is what it points to.      *)

WholePair(h, p) ==
  /\ p \in Nat /\ p \in 1..Len(h) /\ h[p].kind = "pair" /\ h[p] # Freed
  /\ h[p] = Pair(h[p].car, h[p].cdr)
  /\ Kept(h[p].car, h) /\ Kept(h[p].cdr, h)

LEMMA HeapFacts ==
  ASSUME NEW h, HeapOK(h)
  PROVE  /\ Len(h) \in Nat /\ DOMAIN h = 1..Len(h) /\ DOMAIN h \subseteq Nat
         /\ \A a \in 1..Len(h) : ObjectOK(h, a, h[a])
<1>1. Len(h) \in Nat /\ DOMAIN h = 1..Len(h)  BY SeqFacts DEF HeapOK
<1> QED BY <1>1 DEF HeapOK

LEMMA PairFacts ==
  ASSUME NEW h, HeapOK(h), NEW p, Kept(p, h), p \in DOMAIN h, h[p].kind \in {"pair", "freed"}
  PROVE  WholePair(h, p)
<1>1. p \in 1..Len(h) /\ p \in Nat /\ ObjectOK(h, p, h[p])  BY HeapFacts
<1>2. h[p] # Freed  BY <1>1 DEF Kept
<1>3. h[p].kind = "pair"  BY <1>1, <1>2 DEF ObjectOK
<1>4. h[p] = Pair(h[p].car, h[p].cdr) /\ Kept(h[p].car, h) /\ Kept(h[p].cdr, h)
  BY <1>1, <1>2, <1>3 DEF ObjectOK
<1> QED BY <1>1, <1>2, <1>3, <1>4 DEF WholePair

LEMMA PairsFacts ==
  ASSUME HeapOK(heap), NEW p, Kept(p, heap), NEW n \in 1..4, Pairs(p, n)
  PROVE  /\ WholePair(heap, p)
         /\ n > 1 => WholePair(heap, cdr(p))
         /\ n > 2 => WholePair(heap, cddr(p))
         /\ n > 3 => WholePair(heap, cdr(cddr(p)))
<1>1. WholePair(heap, p)  BY PairFacts DEF Pairs, Addr
<1>2. ASSUME n > 1 PROVE WholePair(heap, cdr(p))
  <2>1. Kept(cdr(p), heap)  BY <1>1 DEF WholePair, cdr
  <2> QED BY <2>1, <1>2, PairFacts DEF Pairs, Addr
<1>3. ASSUME n > 2 PROVE WholePair(heap, cddr(p))
  <2>1. WholePair(heap, cdr(p))  BY <1>2, <1>3
  <2>2. Kept(cddr(p), heap)  BY <2>1 DEF WholePair, cdr, cddr
  <2> QED BY <2>2, <1>3, PairFacts DEF Pairs, Addr
<1>4. ASSUME n > 3 PROVE WholePair(heap, cdr(cddr(p)))
  <2>1. WholePair(heap, cddr(p))  BY <1>3, <1>4
  <2>2. Kept(cdr(cddr(p)), heap)  BY <2>1 DEF WholePair, cdr
  <2> QED BY <2>2, <1>4, PairFacts DEF Pairs, Addr
<1> QED BY <1>1, <1>2, <1>3, <1>4

-----------------------------------------------------------------------------
(* Allocations: the collector keeps T, which contains what is rooted, and    *)
(* new objects are added at the end; in Allocs one, which is o.             *)

Grows(h, g, T) ==
  /\ IsSeq(g) /\ Len(h) <= Len(g) /\ T \subseteq 1..Len(h)
  /\ \A a \in T : g[a] = h[a] /\ Pointers(h[a]) \intersect (1..Len(h)) \subseteq T
  /\ \A a \in 1..Len(h) : a \notin T => g[a] = Freed
Allocs(h, g, T, o) == Grows(h, g, T) /\ Len(g) = Len(h) + 1 /\ g[Len(h) + 1] = o
Here(T, h, v) == v \in 1..Len(h) => v \in T

LEMMA RootedAreRoots ==
  ASSUME Coherent, stack # << >>
  PROVE  RootedUpTo(stack, Len(stack)) \subseteq RootedPointers
<1> SUFFICES ASSUME NEW v \in RootedUpTo(stack, Len(stack)) PROVE v \in RootedPointers
  OBVIOUS
<1>1. PICK i \in 1..Len(stack) : v \in RootedOf(stack[i])  BY DEF RootedUpTo
<1> DEFINE names == RootNames(stack[i])
<1>2. PICK k \in 1..Len(names) : v = stack[i].var[names[k]]  BY <1>1 DEF RootedOf
<1>3. HasBlock(roots, i, names) /\ IsSeq(roots)
  BY <1>1, NotExited DEF Coherent, RootsMatch
<1>4. Len(roots) \in Nat /\ DOMAIN roots = 1..Len(roots) /\ Len(names) \in Nat
  BY <1>3, SeqFacts, NamesFacts
<1> HIDE DEF names
<1>5. PICK before \in 0..Len(roots) : Block(roots, i, names, before)
  BY <1>3 DEF HasBlock
<1>6. before + k \in 1..Len(roots) /\ roots[before + k].name = names[k]
  BY <1>2, <1>5 DEF Block
<1>7. before + k \in before + 1..before + Len(names)  BY <1>2, <1>4, <1>5
<1>8. roots[before + k].frame = i  BY <1>5, <1>6, <1>7 DEF Block
<1> DEFINE r == roots[before + k]
<1>9. r \in Range(roots) /\ r.frame = i /\ r.name = names[k]
  BY <1>3, <1>6, <1>8, SeqFacts
<1> HIDE DEF r
<1>10. v = stack[r.frame].var[r.name]  BY <1>2, <1>9
<1> QED BY <1>9, <1>10 DEF RootedPointers

(* A collection, or none. *)
LEMMA CollectFacts ==
  ASSUME Coherent, HeapOK(heap), stack # << >>, NEW A, NEW c \in {heap, Collected(A)}
  PROVE  \E T : /\ Grows(heap, c, T) /\ Len(c) = Len(heap)
                /\ \A v \in A : Here(T, heap, v)
                /\ \A v \in RootedUpTo(stack, Len(stack)) : Here(T, heap, v)
                /\ \A v \in VmPointers : Here(T, heap, v)
<1> DEFINE n == Len(heap)
<1>1. n \in Nat /\ Addr = 1..n /\ IsSeq(heap)  BY HeapFacts DEF Addr, HeapOK
<1>2. CASE c = heap
  <2> DEFINE T == 1..n
  <2>1. Grows(heap, c, T)  BY <1>1, <1>2 DEF Grows
  <2>2. \A v : Here(T, heap, v)  BY DEF Here
  <2> QED BY <1>2, <2>1, <2>2
<1>3. CASE c = Collected(A)
  <2> DEFINE P == [a \in Addr |-> Pointers(heap[a])]
             S == RootedPointers \union VmPointers \union A
             T == Marked(P, S)
  <2>1. c = [a \in Addr |-> IF a \in T THEN heap[a] ELSE Freed]  BY <1>3 DEF Collected, Swept
  <2>2. DOMAIN P = 1..n /\ \A a \in 1..n : P[a] = Pointers(heap[a])  BY <1>1
  <2>3. /\ S \intersect (1..n) \subseteq T /\ T \subseteq 1..n
        /\ \A a \in T : Pointers(heap[a]) \intersect (1..n) \subseteq T
    <3> HIDE DEF P, S
    <3>1. IsFiniteSet(DOMAIN P)  BY <1>1, <2>2, FS_Interval
    <3>2. /\ S \intersect DOMAIN P \subseteq T /\ T \subseteq DOMAIN P
          /\ \A a \in T : P[a] \intersect DOMAIN P \subseteq T
      BY <3>1, MarkedFacts DEF ClosedUnder
    <3> HIDE DEF T
    <3> QED BY <3>2, <2>2
  <2> HIDE DEF T
  <2>4. IsSeq(c) /\ Len(c) = n
    <3> DEFINE V == Range(heap) \union {Freed}
    <3>1. \A a \in 1..n : heap[a] \in V  BY <1>1, SeqFacts
    <3>2. c \in [1..n -> V]  BY <2>1, <3>1, <1>1
    <3> HIDE DEF V
    <3> QED BY <3>2, <1>1, MadeSeq
  <2>5. \A a \in 1..n : c[a] = IF a \in T THEN heap[a] ELSE Freed  BY <1>1, <2>1
  <2>6. Grows(heap, c, T)  BY <1>1, <2>3, <2>4, <2>5 DEF Grows
  <2>7. \A v \in S : Here(T, heap, v)  BY <2>3 DEF Here
  <2> HIDE DEF S
  <2>8. RootedPointers \subseteq S /\ VmPointers \subseteq S /\ A \subseteq S  BY DEF S
  <2> QED BY <2>4, <2>6, <2>7, <2>8, RootedAreRoots
<1> QED BY <1>2, <1>3

(* What is added changes nothing of what is there. *)
LEMMA GrowsMore ==
  ASSUME NEW h, Len(h) \in Nat, NEW c, NEW T, Grows(h, c, T), Len(c) = Len(h),
         NEW g, IsSeq(g), Len(c) <= Len(g), \A a \in 1..Len(c) : g[a] = c[a]
  PROVE  Grows(h, g, T)
BY DEF Grows

LEMMA AllocFacts ==
  ASSUME Coherent, HeapOK(heap), stack # << >>, NEW o, NEW A, gc_alloc(o, A)
  PROVE  \E T : /\ Allocs(heap, heap', T, o)
                /\ \A v \in A : Here(T, heap, v)
                /\ \A v \in RootedUpTo(stack, Len(stack)) : Here(T, heap, v)
                /\ \A v \in VmPointers : Here(T, heap, v)
<1>1. PICK c \in {heap, Collected(A)} : heap' = Append(c, o)  BY DEF gc_alloc
<1>2. PICK T : /\ Grows(heap, c, T) /\ Len(c) = Len(heap)
               /\ \A v \in A : Here(T, heap, v)
               /\ \A v \in RootedUpTo(stack, Len(stack)) : Here(T, heap, v)
               /\ \A v \in VmPointers : Here(T, heap, v)
  BY CollectFacts
<1>3. IsSeq(c) /\ Len(c) \in Nat  BY <1>2, HeapFacts DEF Grows
<1>4. /\ IsSeq(heap') /\ Len(heap') = Len(c) + 1 /\ heap'[Len(c) + 1] = o
      /\ \A a \in 1..Len(c) : heap'[a] = c[a]
  BY <1>1, <1>3, AppendFacts
<1>5. Grows(heap, heap', T)  BY <1>2, <1>3, <1>4, GrowsMore
<1>6. Allocs(heap, heap', T, o)  BY <1>2, <1>4, <1>5 DEF Allocs
<1> QED BY <1>2, <1>6

LEMMA GrowKept ==
  ASSUME NEW h, HeapOK(h), NEW g, NEW T, Grows(h, g, T)
  PROVE  /\ DOMAIN g = 1..Len(g) /\ Len(g) \in Nat /\ Len(h) \in Nat /\ DOMAIN h \subseteq DOMAIN g
         /\ \A v : Kept(v, h) /\ Here(T, h, v) => Kept(v, g)
         /\ \A p : IsBindings(p, h) /\ Here(T, h, p) => IsBindings(p, g)
         /\ \A a \in 1..Len(g) : g[a] # Freed => Kept(a, g)
<1>1. Len(h) \in Nat /\ DOMAIN h = 1..Len(h)  BY HeapFacts
<1>2. DOMAIN g = 1..Len(g) /\ Len(g) \in Nat /\ Len(h) <= Len(g)  BY SeqFacts DEF Grows
<1>3. ASSUME NEW v, Kept(v, h), Here(T, h, v) PROVE Kept(v, g)
  <2> SUFFICES ASSUME v \in Nat PROVE v \in 1..Len(g) /\ g[v] # Freed
    BY <1>3 DEF Kept
  <2>1. v \in 1..Len(h) /\ h[v] # Freed /\ v \in T  BY <1>3 DEF Kept, Here
  <2> QED BY <2>1, <1>1, <1>2 DEF Grows
<1>4. ASSUME NEW p, IsBindings(p, h), Here(T, h, p) PROVE IsBindings(p, g)
  BY <1>1, <1>2, <1>4 DEF IsBindings, Here, Grows
<1>5. ASSUME NEW a \in 1..Len(g), g[a] # Freed PROVE Kept(a, g)
  BY <1>2, <1>5, WildIsNoValue DEF Kept
<1> QED BY <1>1, <1>2, <1>3, <1>4, <1>5

(* What an object that is OK points to. *)
LEMMA ObjectPointers ==
  ASSUME NEW h, NEW a, NEW p, ObjectOK(h, a, p)
  PROVE  /\ p.kind = "pair" => Pointers(p) = {p.car, p.cdr} /\ PairPointers(p) = {p.car, p.cdr}
         /\ p.kind = "procedure" => Pointers(p) = {p.arguments, p.body, p.env}
         /\ p.kind = "environment" => Pointers(p) = {p.value}
         /\ p.kind = "bindings" => Pointers(p) = {p.parent} \union Range(p.bindings)
         /\ PairPointers(p) \subseteq Pointers(p) /\ Behind(p) \subseteq Pointers(p)
<1>1. p.kind = "pair" => Pointers(p) = {p.car, p.cdr} /\ PairPointers(p) = {p.car, p.cdr}
  BY DEF Pointers, pair_pointers, PairPointers
<1>2. p.kind = "procedure" => Pointers(p) = {p.arguments, p.body, p.env}
  BY DEF Pointers, compound_procedure_pointers
<1>3. p.kind = "environment" => Pointers(p) = {p.value}
  BY DEF Pointers, scheme_environment_pointers
<1>4. p.kind = "bindings" => Pointers(p) = {p.parent} \union Range(p.bindings)
  BY DEF Pointers, environment_find_pointers
<1>5. PairPointers(p) \subseteq Pointers(p) /\ Behind(p) \subseteq Pointers(p)
  BY <1>1 DEF PairPointers, Behind
<1> QED BY <1>1, <1>2, <1>3, <1>4, <1>5

LEMMA GrowHeap ==
  ASSUME NEW h, HeapOK(h), NEW g, NEW T, Grows(h, g, T),
         \A a \in 1..Len(g) : a \notin 1..Len(h) => ObjectOK(g, a, g[a])
  PROVE  HeapOK(g)
<1>1. Len(h) \in Nat /\ DOMAIN h = 1..Len(h) /\ \A a \in 1..Len(h) : ObjectOK(h, a, h[a])
  BY HeapFacts
<1>2. IsSeq(g)  BY DEF Grows
<1>3. ASSUME NEW a \in 1..Len(h) PROVE ObjectOK(g, a, g[a])
  <2>1. CASE a \notin T  BY <2>1, <1>3 DEF Grows, ObjectOK
  <2>2. CASE a \in T
    <3> DEFINE p == h[a]
    <3>1. g[a] = p /\ ObjectOK(h, a, p)  BY <2>2, <1>1 DEF Grows
    <3>2. \A v \in Pointers(p) : Here(T, h, v)  BY <2>2 DEF Grows, Here
    <3>3. \A v \in Pointers(p) : Kept(v, h) => Kept(v, g)  BY <3>2, GrowKept
    <3>4. \A v \in Pointers(p) : IsBindings(v, h) => IsBindings(v, g)  BY <3>2, GrowKept
    <3> HIDE DEF p
    <3>5. CASE p = Freed \/ p.kind \in {"number", "character", "string"}
      BY <3>1, <3>5 DEF ObjectOK
    <3>6. CASE p # Freed /\ p.kind = "pair"
      <4>1. p = Pair(p.car, p.cdr) /\ Kept(p.car, h) /\ Kept(p.cdr, h)
        BY <3>1, <3>6 DEF ObjectOK
      <4>2. p.car \in Pointers(p) /\ p.cdr \in Pointers(p)  BY <3>1, <3>6, ObjectPointers
      <4>3. Kept(p.car, g) /\ Kept(p.cdr, g)  BY <4>1, <4>2, <3>3
      <4> QED BY <4>1, <4>3, <3>1, <3>6 DEF ObjectOK
    <3>7. CASE p # Freed /\ p.kind = "procedure"
      <4>1. Kept(p.arguments, h) /\ Kept(p.body, h) /\ IsBindings(p.env, h)
        BY <3>1, <3>7 DEF ObjectOK
      <4>2. {p.arguments, p.body, p.env} \subseteq Pointers(p)  BY <3>1, <3>7, ObjectPointers
      <4>3. Kept(p.arguments, g) /\ Kept(p.body, g) /\ IsBindings(p.env, g)
        BY <4>1, <4>2, <3>3, <3>4
      <4> QED BY <4>3, <3>1, <3>7 DEF ObjectOK
    <3>8. CASE p # Freed /\ p.kind = "environment"
      <4>1. IsBindings(p.value, h)  BY <3>1, <3>8 DEF ObjectOK
      <4>2. p.value \in Pointers(p)  BY <3>1, <3>8, ObjectPointers
      <4> QED BY <4>1, <4>2, <3>1, <3>4, <3>8 DEF ObjectOK
    <3>9. CASE p # Freed /\ p.kind = "bindings"
      <4>1. /\ p = Bindings(p.parent, p.bindings)
            /\ p.parent = NULL \/ (IsBindings(p.parent, h) /\ p.parent < a)
            /\ \A x \in DOMAIN p.bindings : Kept(p.bindings[x], h)
        BY <3>1, <3>9 DEF ObjectOK
      <4>2. p.parent \in Pointers(p) /\ \A x \in DOMAIN p.bindings : p.bindings[x] \in Pointers(p)
        BY <3>1, <3>9, ObjectPointers DEF Range
      <4>3. \A x \in DOMAIN p.bindings : Kept(p.bindings[x], g)  BY <4>1, <4>2, <3>3
      <4>4. p.parent = NULL \/ (IsBindings(p.parent, g) /\ p.parent < a)
        BY <4>1, <4>2, <3>4
      <4> QED BY <4>1, <4>3, <4>4, <3>1, <3>9 DEF ObjectOK
    <3> QED BY <3>1, <3>5, <3>6, <3>7, <3>8, <3>9 DEF ObjectOK
  <2> QED BY <2>1, <2>2
<1> QED BY <1>2, <1>3 DEF HeapOK

LEMMA GrowSteady ==
  ASSUME NEW h, HeapOK(h), NEW g, NEW T, Grows(h, g, T),
         NEW R, \A v \in R : Here(T, h, v), NEW Q, Q \subseteq R
  PROVE  Steady(h, g, T, R, Q, R)
<1>1. Len(h) \in Nat /\ DOMAIN h = 1..Len(h) /\ \A a \in 1..Len(h) : ObjectOK(h, a, h[a])
  BY HeapFacts
<1>2. DOMAIN h \subseteq DOMAIN g /\ \A v : Kept(v, h) /\ Here(T, h, v) => Kept(v, g)
  BY GrowKept
<1>3. DOMAIN h \subseteq DOMAIN g /\ T \subseteq DOMAIN h  BY <1>1, <1>2 DEF Grows
<1>4. \A a \in T : PairPointers(h[a]) \intersect DOMAIN h \subseteq T
  <2> TAKE a \in T
  <2>1. a \in 1..Len(h)  BY <1>1, <1>3
  <2>2. PairPointers(h[a]) \subseteq Pointers(h[a])  BY <2>1, <1>1, ObjectPointers
  <2> QED BY <2>2, <1>1 DEF Grows
<1>5. \A r \in R : r \in DOMAIN h => r \in T  BY <1>1 DEF Here
<1>6. ASSUME NEW r \in R PROVE Parts(h, r) \subseteq T /\ Spine(h, r) \subseteq T
  <2>1. T \in SUBSET DOMAIN h /\ (r \in DOMAIN h => r \in T)  BY <1>3, <1>5
  <2>2. Parts(h, r) \subseteq T  BY <2>1, <1>4, PartsFacts
  <2> QED BY <2>2, SpineInParts
<1>7. \A a \in T : g[a] = h[a]  BY DEF Grows
<1>8. ASSUME NEW r \in R PROVE Parts(h, r) \subseteq Parts(g, r)
  BY <1>3, <1>6, <1>7, PartsStay
<1>9. ASSUME NEW r \in R PROVE Spine(h, r) \subseteq Spine(g, r)
  BY <1>3, <1>6, <1>7, SpineStays
<1>10. \A v : Kept(v, h) /\ (v \in DOMAIN h => v \in T) => Kept(v, g)
  BY <1>1, <1>2 DEF Here
<1> QED BY <1>3, <1>4, <1>5, <1>8, <1>9, <1>10 DEF Steady

-----------------------------------------------------------------------------
(* An assignment: the object at a is replaced by another of its kind.       *)

Updates(h, g, a, o) ==
  /\ a \in 1..Len(h) /\ h[a] # Freed /\ o # Freed /\ o.kind = h[a].kind
  /\ g = [h EXCEPT ![a] = o]

LEMMA UpdateFacts ==
  ASSUME NEW h, HeapOK(h), NEW g, NEW a, NEW o, Updates(h, g, a, o)
  PROVE  /\ IsSeq(g) /\ Len(g) = Len(h) /\ DOMAIN g = 1..Len(h) /\ Len(h) \in Nat
         /\ g[a] = o /\ \A b \in 1..Len(h) : b # a => g[b] = h[b]
         /\ \A v : Kept(v, h) => Kept(v, g)
         /\ \A p : IsBindings(p, h) => IsBindings(p, g)
<1>1. IsSeq(h) /\ a \in 1..Len(h) /\ g = [h EXCEPT ![a] = o]  BY DEF HeapOK, Updates
<1>2. IsSeq(g)  BY <1>1, ExceptFacts
<1>3. Len(g) = Len(h)  BY <1>1, ExceptFacts
<1>4. g[a] = o  BY <1>1, ExceptFacts
<1>5. \A b \in 1..Len(h) : b # a => g[b] = h[b]  BY <1>1, ExceptFacts
<1>6. DOMAIN g = 1..Len(h) /\ Len(h) \in Nat  BY <1>2, <1>3, SeqFacts
<1>7. h[a] # Freed /\ o # Freed /\ o.kind = h[a].kind  BY DEF Updates
<1>8. \A v : Kept(v, h) => Kept(v, g)  BY <1>3, <1>4, <1>5, <1>7 DEF Kept
<1>9. \A p : IsBindings(p, h) => IsBindings(p, g)  BY <1>3, <1>4, <1>5, <1>7 DEF IsBindings
<1> QED BY <1>2, <1>3, <1>4, <1>5, <1>6, <1>8, <1>9

LEMMA UpdateHeap ==
  ASSUME NEW h, HeapOK(h), NEW g, NEW a, NEW o, Updates(h, g, a, o), ObjectOK(h, a, o)
  PROVE  HeapOK(g)
<1>1. /\ IsSeq(g) /\ Len(g) = Len(h) /\ Len(h) \in Nat
      /\ g[a] = o /\ \A b \in 1..Len(h) : b # a => g[b] = h[b]
      /\ \A v : Kept(v, h) => Kept(v, g)
      /\ \A p : IsBindings(p, h) => IsBindings(p, g)
  BY UpdateFacts
<1>2. ASSUME NEW b \in 1..Len(h) PROVE ObjectOK(h, b, g[b])
  <2>1. CASE b = a  BY <2>1, <1>1
  <2>2. CASE b # a  BY <2>2, <1>1, HeapFacts
  <2> QED BY <2>1, <2>2
<1>3. ASSUME NEW b \in 1..Len(h) PROVE ObjectOK(g, b, g[b])
  BY <1>1, <1>2 DEF ObjectOK
<1> QED BY <1>1, <1>3 DEF HeapOK

(* The lists that the operands are in stay, and, if the pointers do, so do   *)
(* the parts of the expressions.                                           *)
LEMMA UpdateSteady ==
  ASSUME NEW h, HeapOK(h), NEW g, NEW a, NEW o, Updates(h, g, a, o),
         NEW R, NEW Q, Q \subseteq R, NEW W,
         \A q \in Q : a \notin Spine(h, q) \/ Behind(h[a]) = Behind(o),
         W = {} \/ PairPointers(h[a]) = PairPointers(o)
  PROVE  Steady(h, g, DOMAIN h, R, Q, W)
<1>1. /\ DOMAIN g = 1..Len(h) /\ DOMAIN h = 1..Len(h)
      /\ g[a] = o /\ \A b \in 1..Len(h) : b # a => g[b] = h[b]
      /\ \A v : Kept(v, h) => Kept(v, g)
  BY UpdateFacts, HeapFacts
<1>2. DOMAIN h \subseteq DOMAIN g  BY <1>1
<1>3. ASSUME NEW q \in Q PROVE Spine(h, q) \subseteq Spine(g, q)
  <2>1. \A b \in Spine(h, q) : b \in 1..Len(h)  BY <1>1, SpineFacts
  <2>2. \A b \in Spine(h, q) : Behind(h[b]) \subseteq Behind(g[b])  BY <2>1, <1>1
  <2> QED BY <1>2, <2>2, SpineStays
<1>4. ASSUME NEW r \in W PROVE Parts(h, r) \subseteq Parts(g, r)
  <2>1. \A b \in Parts(h, r) : b \in 1..Len(h)  BY <1>1, PartsFacts
  <2>2. PairPointers(h[a]) = PairPointers(o)  BY <1>4
  <2>3. \A b \in Parts(h, r) : PairPointers(h[b]) \subseteq PairPointers(g[b])
    BY <2>1, <2>2, <1>1
  <2> QED BY <1>2, <2>3, PartsStay
<1> QED BY <1>1, <1>2, <1>3, <1>4 DEF Steady

LEMMA UnchangedSteady ==
  ASSUME NEW h, HeapOK(h), NEW R, NEW Q, Q \subseteq R
  PROVE  Steady(h, h, DOMAIN h, R, Q, R)
BY DEF Steady

-----------------------------------------------------------------------------
(* What a step does to the heap, as far as the frames are concerned: what   *)
(* is in T stays.                                                          *)

RootedBefore == RootedUpTo(stack, Len(stack) - 1)
OperandsBefore == OperandsUpTo(stack, Len(stack) - 1)
RootedNow == RootedUpTo(stack, Len(stack))
OperandsNow == OperandsUpTo(stack, Len(stack))

Stays(h, g, T, v) == Kept(v, h) /\ Here(T, h, v) => Kept(v, g)
StaysBound(h, g, T, p) == IsBindings(p, h) /\ Here(T, h, p) => IsBindings(p, g)
Saved(T) ==
  /\ HeapOK(heap') /\ EnvironmentsOK(heap', env, environment_stack)
  /\ \E W : Moved(heap, heap', stack, T, W)
  /\ \A v : Stays(heap, heap', T, v)
  /\ \A p : StaysBound(heap, heap', T, p)

LEMMA OperandsAreRooted == OperandsNow \subseteq RootedNow
<1> SUFFICES ASSUME NEW v \in OperandsNow PROVE v \in RootedNow
  OBVIOUS
<1>1. PICK j \in 1..Len(stack) : v \in OperandsOf(stack[j])
  BY DEF OperandsNow, OperandsUpTo
<1> DEFINE f == stack[j]
<1>2. f.fn = "eval" /\ f.at = "args" /\ v = f.var.exp  BY <1>1 DEF OperandsOf
<1> HIDE DEF f
<1>3. RootNames(f) = <<"exp", "proc", "args">>  BY <1>2, NamesOfEval DEF Rooting
<1>4. Len(RootNames(f)) = 3 /\ RootNames(f)[1] = "exp"  BY <1>3
<1>5. v \in RootedOf(f)  BY <1>2, <1>4 DEF RootedOf
<1> QED BY <1>5 DEF RootedNow, RootedUpTo, f

LEMMA AliveFacts ==
  ASSUME Coherent, Alive, stack # << >>
  PROVE  /\ HeapOK(heap) /\ EnvironmentsOK(heap, env, environment_stack) /\ Kept(ret, heap)
         /\ Runs(heap, RootedBefore, OperandsBefore, Top)
         /\ Len(stack) \in Nat \ {0} /\ Top = stack[Len(stack)] /\ IsSeq(stack)
         /\ RootedNow = RootedBefore \union RootedOf(Top)
         /\ OperandsNow = OperandsBefore \union OperandsOf(Top)
<1>1. Len(stack) \in Nat \ {0} /\ Top = stack[Len(stack)]  BY TopFacts
<1>2. Len(stack) \in 1..Len(stack)  BY <1>1
<1>3. Runs(heap, RootedBefore, OperandsBefore, Top)
  BY <1>1, <1>2 DEF Alive, FramesSafe, RootedBefore, OperandsBefore
<1>4. RootedNow = RootedBefore \union RootedOf(Top) /\ OperandsNow = OperandsBefore \union OperandsOf(Top)
  BY <1>1, <1>2, RootedGrows DEF RootedNow, RootedBefore, OperandsNow, OperandsBefore
<1> QED BY <1>1, <1>3, <1>4 DEF Alive, Coherent

LEMMA MovedFromSteady ==
  ASSUME Coherent, Alive, stack # << >>, NEW T, NEW W,
         Steady(heap, heap', T, RootedNow, OperandsNow, W),
         W = RootedNow \/ Top.fn \notin Building
  PROVE  Moved(heap, heap', stack, T, W)
<1>1. DOMAIN heap \subseteq Nat  BY HeapFacts DEF Alive
<1>2. stack[Len(stack)] = Top  BY AliveFacts
<1> QED BY <1>1, <1>2 DEF Moved, Alive, Coherent, RootedNow, OperandsNow

LEMMA HeapStays ==
  ASSUME Coherent, Alive, stack # << >>, heap' = heap
  PROVE  Saved(DOMAIN heap)
<1>1. HeapOK(heap)  BY DEF Alive
<1>2. Steady(heap, heap', DOMAIN heap, RootedNow, OperandsNow, RootedNow)
  BY <1>1, OperandsAreRooted, UnchangedSteady
<1>3. Moved(heap, heap', stack, DOMAIN heap, RootedNow)  BY <1>2, MovedFromSteady
<1> QED BY <1>3 DEF Saved, Stays, StaysBound, Alive

Lives(T, A) ==
  /\ \A v \in A : Here(T, heap, v)
  /\ \A v \in RootedNow : Here(T, heap, v)
  /\ \A v \in VmPointers : Here(T, heap, v)

LEMMA EnvironmentsStay ==
  ASSUME Coherent, Alive, NEW T, \A v \in VmPointers : Here(T, heap, v),
         \A p : StaysBound(heap, heap', T, p)
  PROVE  EnvironmentsOK(heap', env, environment_stack)
<1>1. /\ IsBindings(env, heap) /\ IsSeq(environment_stack)
      /\ \A k \in 1..Len(environment_stack) : IsBindings(environment_stack[k], heap)
  BY DEF Alive, EnvironmentsOK
<1>2. env \in VmPointers /\ \A k \in 1..Len(environment_stack) : environment_stack[k] \in VmPointers
  BY <1>1, SeqFacts DEF VmPointers
<1>3. IsBindings(env, heap')  BY <1>1, <1>2 DEF StaysBound
<1>4. \A k \in 1..Len(environment_stack) : IsBindings(environment_stack[k], heap')
  BY <1>1, <1>2 DEF StaysBound
<1> QED BY <1>1, <1>3, <1>4 DEF EnvironmentsOK

LEMMA GrowSteps ==
  ASSUME Coherent, Alive, stack # << >>, NEW T, Grows(heap, heap', T), NEW A, Lives(T, A)
  PROVE  /\ (\A a \in 1..Len(heap') : a \notin 1..Len(heap) => ObjectOK(heap', a, heap'[a])) => Saved(T)
         /\ \A v : Stays(heap, heap', T, v)
         /\ \A p : StaysBound(heap, heap', T, p)
         /\ Moved(heap, heap', stack, T, RootedNow)
<1>0. HeapOK(heap)  BY DEF Alive
<1>1. (\A v : Stays(heap, heap', T, v)) /\ (\A p : StaysBound(heap, heap', T, p))
  BY <1>0, GrowKept DEF Stays, StaysBound
<1>2. Steady(heap, heap', T, RootedNow, OperandsNow, RootedNow)
  BY <1>0, OperandsAreRooted, GrowSteady DEF Lives
<1>3. Moved(heap, heap', stack, T, RootedNow)  BY <1>2, MovedFromSteady
<1>4. EnvironmentsOK(heap', env, environment_stack)
  BY <1>1, EnvironmentsStay DEF Lives
<1>5. ASSUME \A a \in 1..Len(heap') : a \notin 1..Len(heap) => ObjectOK(heap', a, heap'[a])
      PROVE  HeapOK(heap')
  BY <1>0, <1>5, GrowHeap
<1> QED BY <1>1, <1>3, <1>4, <1>5 DEF Saved

LEMMA AllocSteps ==
  ASSUME Coherent, Alive, stack # << >>, NEW o, o # Freed, NEW A, gc_alloc(o, A)
  PROVE  \E T : /\ Allocs(heap, heap', T, o) /\ Lives(T, A)
                /\ ObjectOK(heap', Len(heap) + 1, o) => Saved(T)
                /\ \A v : Stays(heap, heap', T, v)
                /\ \A p : StaysBound(heap, heap', T, p)
                /\ Moved(heap, heap', stack, T, RootedNow)
                /\ Kept(NewAddr, heap')
<1>0. HeapOK(heap) /\ Len(heap) \in Nat  BY HeapFacts DEF Alive
<1>1. PICK T : Allocs(heap, heap', T, o) /\ Lives(T, A)
  BY <1>0, AllocFacts DEF Lives, RootedNow
<1>2. Grows(heap, heap', T) /\ Len(heap') = Len(heap) + 1 /\ heap'[Len(heap) + 1] = o
  BY <1>1 DEF Allocs
<1>3. Kept(NewAddr, heap')
  <2>1. NewAddr \in 1..Len(heap')  BY <1>0, <1>2 DEF NewAddr
  <2> QED BY <1>0, <1>2, <2>1, GrowKept DEF NewAddr
<1>4. \A a \in 1..Len(heap') : a \notin 1..Len(heap) => a = Len(heap) + 1  BY <1>0, <1>2
<1>5. ObjectOK(heap', Len(heap) + 1, o) => Saved(T)
  BY <1>1, <1>2, <1>4, GrowSteps
<1> QED BY <1>1, <1>2, <1>3, <1>5, GrowSteps

LEMMA UpdateSteps ==
  ASSUME Coherent, Alive, stack # << >>, NEW a, NEW o, Updates(heap, heap', a, o),
         ObjectOK(heap, a, o), Top.fn \notin Building,
         \A q \in OperandsNow : a \notin Spine(heap, q) \/ Behind(heap[a]) = Behind(o)
  PROVE  Saved(DOMAIN heap)
<1>0. HeapOK(heap)  BY DEF Alive
<1>1. HeapOK(heap')  BY <1>0, UpdateHeap
<1>2. Steady(heap, heap', DOMAIN heap, RootedNow, OperandsNow, {})
  BY <1>0, OperandsAreRooted, UpdateSteady
<1>3. Moved(heap, heap', stack, DOMAIN heap, {})  BY <1>2, MovedFromSteady
<1>4. (\A v : Stays(heap, heap', DOMAIN heap, v)) /\ (\A p : StaysBound(heap, heap', DOMAIN heap, p))
  BY <1>0, UpdateFacts DEF Stays, StaysBound
<1>5. \A v \in VmPointers : Here(DOMAIN heap, heap, v)  BY <1>0, HeapFacts DEF Here
<1>6. EnvironmentsOK(heap', env, environment_stack)  BY <1>4, <1>5, EnvironmentsStay
<1> QED BY <1>1, <1>3, <1>4, <1>6 DEF Saved

-----------------------------------------------------------------------------
(* What a step does to the frames. *)

LEMMA Gone ==
  ASSUME Coherent, Alive, stack # << >>, NEW T, Saved(T), NEW f, stack' = TopBecomes(f),
         f.fn = Top.fn, Runs(heap', RootedBefore, OperandsBefore, f),
         Kept(ret', heap'), EnvironmentsOK(heap', env', environment_stack')
  PROVE  AliveNext
<1>1. PICK W : Moved(heap, heap', stack, T, W)  BY DEF Saved
<1>2. Top = stack[Len(stack)]  BY AliveFacts
<1>3. FramesSafe(heap', [stack EXCEPT ![Len(stack)] = f]) /\ Ordered([stack EXCEPT ![Len(stack)] = f])
  BY <1>1, <1>2, GoSafe DEF RootedBefore, OperandsBefore
<1> QED BY <1>3 DEF Alive, AliveNext, Saved, TopBecomes

LEMMA CalledIn ==
  ASSUME Coherent, Alive, stack # << >>, NEW T, Saved(T), NEW f, NEW e,
         stack' = Append(TopBecomes(f), e), f.fn = Top.fn,
         Waits(heap', RootedBefore, OperandsBefore, f), f.fn \in Building => e.fn \in Building,
         Runs(heap', RootedBefore \union RootedOf(f), OperandsBefore \union OperandsOf(f), e),
         Kept(ret', heap'), EnvironmentsOK(heap', env', environment_stack')
  PROVE  AliveNext
<1>1. PICK W : Moved(heap, heap', stack, T, W)  BY DEF Saved
<1>2. Top = stack[Len(stack)]  BY AliveFacts
<1>3. /\ FramesSafe(heap', Append([stack EXCEPT ![Len(stack)] = f], e))
      /\ Ordered(Append([stack EXCEPT ![Len(stack)] = f], e))
  BY <1>1, <1>2, CallSafe DEF RootedBefore, OperandsBefore
<1> QED BY <1>3 DEF AliveNext, Saved, TopBecomes

LEMMA Called ==
  ASSUME Coherent, Alive, stack # << >>, NEW T, Saved(T), NEW f, NEW e,
         stack' = Append(TopBecomes(f), e), f.fn = Top.fn,
         Waits(heap', RootedBefore, OperandsBefore, f), f.fn \in Building => e.fn \in Building,
         Runs(heap', RootedBefore \union RootedOf(f), OperandsBefore \union OperandsOf(f), e),
         Kept(ret', heap'), UNCHANGED <<env, environment_stack>>
  PROVE  AliveNext
<1>1. EnvironmentsOK(heap', env', environment_stack')  BY DEF Saved
<1> QED BY <1>1, CalledIn

LEMMA EnvironmentsPop ==
  ASSUME Coherent, stack # << >>, NEW h, EnvironmentsOK(h, env, environment_stack),
         \/ PopEnvironments(Top.pops)
         \/ UNCHANGED <<env, environment_stack>>
  PROVE  EnvironmentsOK(h, env', environment_stack')
<1> DEFINE s == environment_stack
           n == Len(s)
           p == Top.pops
<1>1. /\ n \in Nat /\ p \in Nat /\ p <= n /\ IsSeq(s)
      /\ \A k \in 1..n : IsBindings(s[k], h)
  BY TopFacts DEF FrameOK, EnvironmentsOK
<1>2. CASE UNCHANGED <<env, environment_stack>>  BY <1>2
<1>3. CASE PopEnvironments(p) /\ p # 0
  <2>1. env' = s[n - p + 1] /\ s' = SubSeq(s, 1, n - p)  BY <1>3 DEF PopEnvironments
  <2>2. n - p + 1 \in 1..n /\ n - p \in 0..n /\ \A k \in 1..(n - p) : k \in 1..n  BY <1>1, <1>3
  <2>3. IsSeq(s') /\ Len(s') = n - p /\ \A k \in 1..(n - p) : s'[k] = s[k]
    BY <1>1, <2>1, <2>2, SubSeqFacts
  <2> QED BY <1>1, <2>1, <2>2, <2>3 DEF EnvironmentsOK
<1>4. CASE PopEnvironments(p) /\ p = 0  BY <1>4 DEF PopEnvironments
<1> QED BY <1>2, <1>3, <1>4

LEMMA Returned ==
  ASSUME Coherent, Alive, stack # << >>, NEW T, Saved(T), NEW v, Return(v), Kept(v, heap'),
         \/ PopEnvironments(Top.pops)
         \/ UNCHANGED <<env, environment_stack>>
  PROVE  AliveNext
<1>1. PICK W : Moved(heap, heap', stack, T, W)  BY DEF Saved
<1>2. FramesSafe(heap', Front(stack)) /\ Ordered(Front(stack))  BY <1>1, ReturnSafe
<1>3. EnvironmentsOK(heap', env', environment_stack')  BY EnvironmentsPop DEF Saved
<1> QED BY <1>2, <1>3 DEF Alive, AliveNext, Saved, Return

LEMMA Exited ==
  ASSUME Coherent, Alive, stack # << >>, Exit
  PROVE  AliveNext
<1>1. stack' = << >> /\ Len(stack') = 0 /\ ret' = NULL /\ UNCHANGED <<heap, env, environment_stack>>
  BY Tuples DEF Exit
<1>2. FramesSafe(heap', stack') /\ Ordered(stack')  BY <1>1 DEF FramesSafe, Ordered
<1>3. Kept(NULL, heap)  BY NullKept
<1> QED BY <1>1, <1>2, <1>3 DEF Alive, AliveNext

-----------------------------------------------------------------------------
(* The frames of eval: the parameter is rooted always, the operator and the  *)
(* operands from the moment that they are evaluated until they are used.    *)

EvalSound(h, f) ==
  /\ f.fn = "eval" /\ f.var = [exp |-> f.var.exp, proc |-> f.var.proc, args |-> f.var.args]
  /\ Kept(f.var.exp, h) /\ Kept(f.var.proc, h) /\ Kept(f.var.args, h)
Plain(f) == f.var.proc \notin Nat /\ f.var.args \notin Nat
Used == {"primitive", "wrap"}

LEMMA EvalShape ==
  ASSUME NEW f, f.fn = "eval"
  PROVE  /\ Shape(f) <=> f.var = [exp |-> f.var.exp, proc |-> f.var.proc, args |-> f.var.args]
         /\ Loose(f) = IF f.at \in Used THEN {"proc", "args"} ELSE {}
         /\ f.fn \notin Building
         /\ OperandsOf(f) = IF f.at = "args" THEN {f.var.exp} ELSE {}
         /\ f.var.exp \in RootedOf(f)
         /\ f.at \in Rooting => f.var.proc \in RootedOf(f) /\ f.var.args \in RootedOf(f)
<1>1. Shape(f) <=> f.var = [exp |-> f.var.exp, proc |-> f.var.proc, args |-> f.var.args]
  BY DEF Shape
<1>2. Loose(f) = IF f.at \in Used THEN {"proc", "args"} ELSE {}  BY DEF Loose, Used
<1>3. f.fn \notin Building  BY DEF Building
<1>4. OperandsOf(f) = IF f.at = "args" THEN {f.var.exp} ELSE {}  BY DEF OperandsOf
<1>5. CASE f.at \in Rooting
  <2>1. RootNames(f) = <<"exp", "proc", "args">>  BY <1>5, NamesOfEval
  <2>2. Len(RootNames(f)) = 3 /\ RootNames(f)[1] = "exp" /\ RootNames(f)[2] = "proc" /\ RootNames(f)[3] = "args"
    BY <2>1
  <2>3. 1 \in 1..3 /\ 2 \in 1..3 /\ 3 \in 1..3  OBVIOUS
  <2>4. f.var.exp \in RootedOf(f) /\ f.var.proc \in RootedOf(f) /\ f.var.args \in RootedOf(f)
    BY <2>2, <2>3 DEF RootedOf
  <2> QED BY <2>4, <1>1, <1>2, <1>3, <1>4
<1>6. CASE f.at \notin Rooting
  <2>1. RootNames(f) = <<"exp">>  BY <1>6, NamesOfEval
  <2>2. Len(RootNames(f)) = 1 /\ RootNames(f)[1] = "exp" /\ 1 \in 1..1  BY <2>1
  <2>3. f.var.exp \in RootedOf(f)  BY <2>2 DEF RootedOf
  <2> QED BY <2>3, <1>6, <1>1, <1>2, <1>3, <1>4
<1> QED BY <1>5, <1>6

LEMMA EvalHeld ==
  ASSUME NEW f, f.fn = "eval", NEW h, NEW R, NEW Q
  PROVE  /\ Held(h, R, Q, f, "exp")
         /\ Held(h, R, Q, f, "proc") <=> f.at \in Rooting \/ f.var.proc \notin Nat
         /\ Held(h, R, Q, f, "args") <=> f.at \in Rooting \/ f.var.args \notin Nat
<1>1. f.fn # "list_of_values" /\ f.fn \notin Building  BY DEF Building
<1>2. CASE f.at \in Rooting
  <2>1. RootNames(f) = <<"exp", "proc", "args">>  BY <1>2, NamesOfEval
  <2>2. Len(RootNames(f)) = 3 /\ RootNames(f)[1] = "exp" /\ RootNames(f)[2] = "proc" /\ RootNames(f)[3] = "args"
    BY <2>1
  <2>3. 1 \in 1..3 /\ 2 \in 1..3 /\ 3 \in 1..3  OBVIOUS
  <2> QED BY <2>2, <2>3, <1>2 DEF Held
<1>3. CASE f.at \notin Rooting
  <2>1. RootNames(f) = <<"exp">>  BY <1>3, NamesOfEval
  <2>2. Len(RootNames(f)) = 1 /\ RootNames(f)[1] = "exp" /\ 1 \in 1..1 /\ \A k \in 1..1 : k = 1  BY <2>1
  <2>3. \A k \in 1..Len(RootNames(f)) : RootNames(f)[k] = "exp"  BY <2>2
  <2> QED BY <2>2, <2>3, <1>1, <1>3 DEF Held
<1> QED BY <1>2, <1>3

LEMMA EvalRuns ==
  ASSUME NEW h, NEW R, NEW Q, NEW f, EvalSound(h, f),
         f.at \in Rooting \/ f.at \in Used \/ Plain(f),
         f.at \in Extending => f.var.proc \in 1..Len(h) /\ h[f.var.proc].kind = "procedure",
         f.at = "wrap" => IsBindings(f.var.args, h)
  PROVE  Runs(h, R, Q, f)
<1>1. f.fn = "eval" /\ Shape(f)  BY EvalShape DEF EvalSound
<1>2. DOMAIN f.var = {"exp", "proc", "args"}
  <2>1. f.var = [exp |-> f.var.exp, proc |-> f.var.proc, args |-> f.var.args]  BY DEF EvalSound
  <2>2. \A a, b, c : DOMAIN [exp |-> a, proc |-> b, args |-> c] = {"exp", "proc", "args"}  OBVIOUS
  <2> QED BY <2>1, <2>2
<1>3. ASSUME NEW x \in DOMAIN f.var
      PROVE  Kept(f.var[x], h) /\ (x \in Loose(f) \/ Held(h, R, Q, f, x))
  <2>1. CASE x = "exp"  BY <2>1, <1>1, EvalHeld DEF EvalSound
  <2>2. CASE x = "proc"  BY <2>2, <1>1, EvalHeld, EvalShape DEF EvalSound, Plain
  <2>3. CASE x = "args"  BY <2>3, <1>1, EvalHeld, EvalShape DEF EvalSound, Plain
  <2> QED BY <1>2, <2>1, <2>2, <2>3
<1> QED BY <1>1, <1>3 DEF Runs, Safe, InProcedure, Wraps, Extending

LEMMA EvalWaits ==
  ASSUME NEW h, NEW R, NEW Q, NEW f, EvalSound(h, f),
         f.at \in Rooting \/ Plain(f), f.at \notin Extending, f.at # "wrap"
  PROVE  Waits(h, R, Q, f)
<1>1. f.fn = "eval" /\ Shape(f)  BY EvalShape DEF EvalSound
<1>2. DOMAIN f.var = {"exp", "proc", "args"}
  <2>1. f.var = [exp |-> f.var.exp, proc |-> f.var.proc, args |-> f.var.args]  BY DEF EvalSound
  <2>2. \A a, b, c : DOMAIN [exp |-> a, proc |-> b, args |-> c] = {"exp", "proc", "args"}  OBVIOUS
  <2> QED BY <2>1, <2>2
<1>3. ASSUME NEW x \in DOMAIN f.var
      PROVE  Kept(f.var[x], h) /\ Held(h, R, Q, f, x)
  <2>1. CASE x = "exp"  BY <2>1, <1>1, EvalHeld DEF EvalSound
  <2>2. CASE x = "proc"  BY <2>2, <1>1, EvalHeld DEF EvalSound, Plain
  <2>3. CASE x = "args"  BY <2>3, <1>1, EvalHeld DEF EvalSound, Plain
  <2> QED BY <1>2, <2>1, <2>2, <2>3
<1> QED BY <1>1, <1>3 DEF Waits, Safe, InProcedure, Wraps, Extending

LEMMA EvalTop ==
  ASSUME Coherent, Alive, stack # << >>, Top.fn = "eval"
  PROVE  /\ EvalSound(heap, Top)
         /\ Top.at \in Rooting \/ Top.at \in Used \/ Plain(Top)
         /\ Top.at \in Extending => Top.var.proc \in 1..Len(heap) /\ heap[Top.var.proc].kind = "procedure"
         /\ Top.at = "wrap" => IsBindings(Top.var.args, heap)
<1> DEFINE f == Top
<1>1. Runs(heap, RootedBefore, OperandsBefore, f)  BY AliveFacts
<1>2. f.fn = "eval"  OBVIOUS
<1> HIDE DEF f
<1>3. f.var = [exp |-> f.var.exp, proc |-> f.var.proc, args |-> f.var.args]
  BY <1>1, <1>2, EvalShape DEF Runs
<1>4. DOMAIN f.var = {"exp", "proc", "args"}
  <2>1. \A a, b, c : DOMAIN [exp |-> a, proc |-> b, args |-> c] = {"exp", "proc", "args"}  OBVIOUS
  <2> QED BY <2>1, <1>3
<1>5. "exp" \in DOMAIN f.var /\ "proc" \in DOMAIN f.var /\ "args" \in DOMAIN f.var  BY <1>4
<1>6. Kept(f.var.exp, heap) /\ Kept(f.var.proc, heap) /\ Kept(f.var.args, heap)
  BY <1>1, <1>2, <1>5 DEF Runs, Safe
<1>7. EvalSound(heap, f)  BY <1>2, <1>3, <1>6 DEF EvalSound
<1>8. f.at \in Rooting \/ f.at \in Used \/ Plain(f)
  <2> SUFFICES ASSUME f.at \notin Rooting, f.at \notin Used PROVE Plain(f)
    OBVIOUS
  <2>1. Loose(f) = {}  BY <1>2, EvalShape
  <2>2. Held(heap, RootedBefore, OperandsBefore, f, "proc") /\ Held(heap, RootedBefore, OperandsBefore, f, "args")
    BY <1>1, <1>5, <2>1 DEF Runs
  <2> QED BY <2>2, <1>2, EvalHeld DEF Plain
<1>9. f.at \in Extending => f.var.proc \in 1..Len(heap) /\ heap[f.var.proc].kind = "procedure"
  BY <1>1, <1>2 DEF Runs, InProcedure, Extending
<1>10. f.at = "wrap" => IsBindings(f.var.args, heap)  BY <1>1, <1>2 DEF Runs, Wraps
<1> QED BY <1>7, <1>8, <1>9, <1>10 DEF f

LEMMA EvalFrameRuns ==
  ASSUME NEW h, NEW e, Kept(e, h), NEW R, NEW Q
  PROVE  Runs(h, R, Q, EvalFrame(e))
<1> DEFINE f == EvalFrame(e)
<1>1. f.fn = "eval" /\ f.at = "tailcall" /\ f.var = [exp |-> e, proc |-> NULL, args |-> NULL]
  BY DEF EvalFrame, Frame
<1> HIDE DEF f
<1>2. f.var.exp = e /\ f.var.proc = NULL /\ f.var.args = NULL  BY <1>1
<1>3. NULL \notin Nat /\ Kept(NULL, h)  BY NullKept
<1>4. EvalSound(h, f)  BY <1>1, <1>2, <1>3 DEF EvalSound
<1>5. Plain(f)  BY <1>2, <1>3 DEF Plain
<1>6. "tailcall" \notin Extending /\ "tailcall" # "wrap"  BY DEF Extending
<1>7. Runs(h, R, Q, f)  BY <1>1, <1>4, <1>5, <1>6, EvalRuns
<1> QED BY <1>7 DEF f

(* The running function goes on with other variables. *)
LEMMA ContinueIs ==
  ASSUME Coherent, stack # << >>, NEW at, NEW v
  PROVE  /\ Continue(at, v).fn = Top.fn /\ Continue(at, v).at = at /\ Continue(at, v).var = v
         /\ Continue(at, v) = [fn |-> Top.fn, at |-> at, var |-> v, pops |-> Top.pops,
                               entered |-> Top.entered, saved |-> Top.saved]
<1>1. FrameOK(Top)  BY TopFacts
<1>2. Continue(at, v) = [fn |-> Top.fn, at |-> at, var |-> v, pops |-> Top.pops,
                         entered |-> Top.entered, saved |-> Top.saved]
  BY <1>1, RecordFacts DEF FrameOK, Continue
<1> QED BY <1>2

EvalVar(e, p, a) == [exp |-> e, proc |-> p, args |-> a]
LEMMA EvalVarFacts ==
  ASSUME NEW v, v = EvalVar(v.exp, v.proc, v.args), NEW e, NEW p, NEW a
  PROVE  /\ [v EXCEPT !.exp = e] = EvalVar(e, v.proc, v.args)
         /\ [v EXCEPT !.proc = p] = EvalVar(v.exp, p, v.args)
         /\ [v EXCEPT !.args = a] = EvalVar(v.exp, v.proc, a)
         /\ [v EXCEPT !.proc = p, !.args = a] = EvalVar(v.exp, p, a)
         /\ EvalVar(e, p, a).exp = e /\ EvalVar(e, p, a).proc = p /\ EvalVar(e, p, a).args = a
<1>1. EvalVar(e, p, a).exp = e /\ EvalVar(e, p, a).proc = p /\ EvalVar(e, p, a).args = a
  BY DEF EvalVar
<1>2. [v EXCEPT !.exp = e] = EvalVar(e, v.proc, v.args)  BY DEF EvalVar
<1>3. [v EXCEPT !.args = a] = EvalVar(v.exp, v.proc, a)  BY DEF EvalVar
<1>4. [v EXCEPT !.proc = p] = EvalVar(v.exp, p, v.args)  BY DEF EvalVar
<1>5. [v EXCEPT !.proc = p, !.args = a] = EvalVar(v.exp, p, a)
  <2> DEFINE w == [v EXCEPT !.proc = p]
  <2>1. w = EvalVar(v.exp, p, v.args)  BY <1>4
  <2>2. [v EXCEPT !.proc = p, !.args = a] = [w EXCEPT !.args = a]  OBVIOUS
  <2> HIDE DEF w
  <2>3. [w EXCEPT !.args = a] = EvalVar(v.exp, p, a)  BY <2>1 DEF EvalVar
  <2> QED BY <2>2, <2>3
<1> QED BY <1>1, <1>2, <1>3, <1>4, <1>5

LEMMA EvalTopVar ==
  ASSUME Coherent, Alive, stack # << >>, Top.fn = "eval"
  PROVE  /\ var = EvalVar(exp, var.proc, var.args)
         /\ Kept(exp, heap) /\ Kept(var.proc, heap) /\ Kept(var.args, heap)
BY EvalTop DEF EvalSound, EvalVar, var, exp

(* eval goes on, or calls a function; it returns. *)
LEMMA EvalGoes ==
  ASSUME Coherent, Alive, stack # << >>, Top.fn = "eval", NEW T, Saved(T), NEW f, stack' = TopBecomes(f),
         f.fn = "eval", NEW e, NEW p, NEW a, f.var = EvalVar(e, p, a),
         Kept(e, heap'), Kept(p, heap'), Kept(a, heap'),
         f.at \in Rooting \/ f.at \in Used \/ (p \notin Nat /\ a \notin Nat),
         f.at \in Extending => p \in 1..Len(heap') /\ heap'[p].kind = "procedure",
         f.at = "wrap" => IsBindings(a, heap'),
         Kept(ret', heap'), EnvironmentsOK(heap', env', environment_stack')
  PROVE  AliveNext
<1>1. f.var.exp = e /\ f.var.proc = p /\ f.var.args = a  BY DEF EvalVar
<1>2. EvalSound(heap', f)  BY <1>1 DEF EvalSound, EvalVar
<1>3. Plain(f) <=> p \notin Nat /\ a \notin Nat  BY <1>1 DEF Plain
<1>4. Runs(heap', RootedBefore, OperandsBefore, f)  BY <1>1, <1>2, <1>3, EvalRuns
<1> QED BY <1>4, Gone

LEMMA EvalCalls ==
  ASSUME Coherent, Alive, stack # << >>, Top.fn = "eval", NEW T, Saved(T), NEW at, NEW v, NEW e,
         Call(at, v, e), NEW x, NEW p, NEW a, v = EvalVar(x, p, a),
         Kept(x, heap'), Kept(p, heap'), Kept(a, heap'),
         at \in Rooting \/ (p \notin Nat /\ a \notin Nat), at \notin Extending, at # "wrap",
         Runs(heap', RootedBefore \union RootedOf(Continue(at, v)),
                     OperandsBefore \union OperandsOf(Continue(at, v)), e),
         UNCHANGED <<env, environment_stack>>
  PROVE  AliveNext
<1> DEFINE f == Continue(at, v)
<1>1. f.fn = "eval" /\ f.at = at /\ f.var = v  BY ContinueIs
<1>2. stack' = Append(TopBecomes(f), e) /\ ret' = NULL  BY DEF Call
<1> HIDE DEF f
<1>3. f.var.exp = x /\ f.var.proc = p /\ f.var.args = a  BY <1>1 DEF EvalVar
<1>4. EvalSound(heap', f)  BY <1>1, <1>3 DEF EvalSound, EvalVar
<1>5. Plain(f) <=> p \notin Nat /\ a \notin Nat  BY <1>3 DEF Plain
<1>6. Waits(heap', RootedBefore, OperandsBefore, f)  BY <1>1, <1>4, <1>5, EvalWaits
<1>7. f.fn \notin Building  BY <1>1, EvalShape
<1>8. Kept(ret', heap')  BY <1>2, NullKept
<1>9. Runs(heap', RootedBefore \union RootedOf(f), OperandsBefore \union OperandsOf(f), e)
  BY DEF f
<1> QED BY <1>1, <1>2, <1>6, <1>7, <1>8, <1>9, Called

LEMMA EvalReturns ==
  ASSUME Coherent, Alive, NEW x, At("eval", x), NEW v, Kept(v, heap), EvalReturn(v), UNCHANGED heap
  PROVE  AliveNext
<1>1. stack # << >>  BY AtFacts
<1>2. Saved(DOMAIN heap)  BY <1>1, HeapStays
<1> QED BY <1>1, <1>2, Returned DEF EvalReturn

Simple == {"tailcall", "if", "set!", "define", "rewritten", "begin", "or", "and"}
LEMMA SimplePlaces ==
  ASSUME NEW x \in Simple
  PROVE  x \notin Rooting /\ x \notin Used /\ x \notin Extending /\ x # "wrap" /\ x # "args"
BY DEF Simple, Rooting, Used, Extending

LEMMA SimpleTop ==
  ASSUME Coherent, Alive, NEW x \in Simple, At("eval", x)
  PROVE  /\ stack # << >> /\ Top.fn = "eval" /\ Top.at = x /\ HeapOK(heap)
         /\ Kept(exp, heap) /\ Kept(ret, heap)
         /\ var = EvalVar(exp, var.proc, var.args)
         /\ var.proc \notin Nat /\ var.args \notin Nat
<1>1. stack # << >> /\ Top.fn = "eval" /\ Top.at = x  BY AtFacts
<1>2. Plain(Top)  BY <1>1, EvalTop, SimplePlaces
<1> QED BY <1>1, <1>2, EvalTopVar, AliveFacts DEF Plain, var

LEMMA TailCalls ==
  ASSUME Coherent, Alive, NEW x \in Simple, At("eval", x), NEW e, Kept(e, heap), TailCall(e)
  PROVE  AliveNext
<1> DEFINE f == Continue("tailcall", With(e))
<1>1. /\ stack # << >> /\ Top.fn = "eval" /\ var = EvalVar(exp, var.proc, var.args)
      /\ var.proc \notin Nat /\ var.args \notin Nat
  BY SimpleTop
<1>2. With(e) = EvalVar(e, var.proc, var.args)
  <2> DEFINE v == var
  <2>1. v = EvalVar(v.exp, v.proc, v.args)  BY <1>1 DEF exp
  <2> HIDE DEF v
  <2>2. [v EXCEPT !.exp = e] = EvalVar(e, v.proc, v.args)  BY <2>1, EvalVarFacts
  <2> QED BY <2>2 DEF v, With
<1>3. f.fn = "eval" /\ f.at = "tailcall" /\ f.var = EvalVar(e, var.proc, var.args)
  BY <1>1, <1>2, ContinueIs
<1>4. /\ stack' = TopBecomes(f) /\ ret' = NULL /\ heap' = heap /\ UNCHANGED <<env, environment_stack>>
  BY DEF TailCall, Goto, OnlyTheStack, others
<1> HIDE DEF f
<1>5. Saved(DOMAIN heap)  BY <1>1, <1>4, HeapStays
<1>6. "tailcall" \notin Extending /\ "tailcall" # "wrap"  BY DEF Extending
<1>7. Kept(ret', heap') /\ Kept(var.proc, heap') /\ Kept(var.args, heap')
  BY <1>1, <1>4, NullKept, SimpleTop, EvalTopVar
<1>8. EnvironmentsOK(heap', env', environment_stack')  BY <1>4 DEF Alive
<1> QED BY <1>1, <1>3, <1>4, <1>5, <1>6, <1>7, <1>8, EvalGoes

LEMMA CallsEval ==
  ASSUME Coherent, Alive, NEW x \in Simple, At("eval", x), NEW at \in Simple,
         NEW v, NEW e, CallEval(at, v, e), Kept(e, heap),
         NEW y, v = EvalVar(y, var.proc, var.args), Kept(y, heap)
  PROVE  AliveNext
<1>1. /\ stack # << >> /\ Top.fn = "eval" /\ var.proc \notin Nat /\ var.args \notin Nat
  BY SimpleTop
<1>2. Call(at, v, EvalFrame(e)) /\ heap' = heap /\ UNCHANGED <<env, environment_stack>>
  BY DEF CallEval, others
<1>3. Saved(DOMAIN heap)  BY <1>1, <1>2, HeapStays
<1>4. at \notin Extending /\ at # "wrap"  BY SimplePlaces
<1>5. Kept(var.proc, heap') /\ Kept(var.args, heap')  BY <1>1, EvalTopVar, NoAddressStays
<1>6. \A R, Q : Runs(heap', R, Q, EvalFrame(e))  BY <1>2, EvalFrameRuns
<1> QED BY <1>1, <1>2, <1>3, <1>4, <1>5, <1>6, EvalCalls

-----------------------------------------------------------------------------
(* Environments: a variable's binder is one that binds it, and the top level *)
(* is reached, since each environment is older than those that extend it.   *)

LEMMA EnvironmentsFacts ==
  ASSUME HeapOK(heap)
  PROVE  /\ \A e : e \in Environments <=> IsBindings(e, heap)
         /\ Environments \subseteq Nat
         /\ \A e \in Environments :
              heap[e].parent = NULL \/ (heap[e].parent \in Environments /\ heap[e].parent < e)
         /\ \A e \in Environments : \A x \in DOMAIN heap[e].bindings : Kept(heap[e].bindings[x], heap)
<1>1. Addr = 1..Len(heap) /\ Len(heap) \in Nat  BY HeapFacts DEF Addr
<1>2. Freed.kind = "freed"  BY DEF Freed
<1>3. \A e : e \in Environments <=> IsBindings(e, heap)
  BY <1>1, <1>2 DEF Environments, IsBindings, Live
<1>4. ASSUME NEW e \in Environments
      PROVE  /\ heap[e].parent = NULL \/ (heap[e].parent \in Environments /\ heap[e].parent < e)
             /\ \A x \in DOMAIN heap[e].bindings : Kept(heap[e].bindings[x], heap)
  <2>1. e \in 1..Len(heap) /\ heap[e].kind = "bindings"  BY <1>3 DEF IsBindings
  <2>2. ObjectOK(heap, e, heap[e])  BY <2>1, HeapFacts
  <2> QED BY <2>1, <2>2, <1>2, <1>3 DEF ObjectOK
<1>5. Environments \subseteq Nat  BY <1>1, <1>3 DEF IsBindings
<1> QED BY <1>3, <1>4, <1>5

LEMMA BinderFacts ==
  ASSUME HeapOK(heap), IsBindings(env, heap), NEW x
  PROVE  \/ Binder(x) = NULL
         \/ IsBindings(Binder(x), heap) /\ x \in DOMAIN heap[Binder(x)].bindings
<1> DEFINE S == Environments \union {NULL}
           stops == {e \in S : e = NULL \/ x \in DOMAIN heap[e].bindings}
           up == [e \in S |-> heap[e].parent]
           search == CHOOSE search : search = [e \in S |-> IF e = NULL \/ x \in DOMAIN heap[e].bindings
                                                           THEN e ELSE search[heap[e].parent]]
<1>1. Climbs(S, stops, up)
  <2>1. S \ stops \subseteq Environments /\ NULL \in stops  OBVIOUS
  <2>2. \A e \in S \ stops : up[e] = heap[e].parent  OBVIOUS
  <2>3. \A e \in S \ stops : up[e] \in stops \/ (up[e] \in S \ stops /\ up[e] < e)
    BY <2>1, <2>2, EnvironmentsFacts
  <2>4. S \ stops \subseteq Nat  BY <2>1, EnvironmentsFacts
  <2> QED BY <2>3, <2>4 DEF Climbs
<1>2. ASSUME NEW f
      PROVE  IsSearch(S, stops, up, f) <=>
             f = [e \in S |-> IF e = NULL \/ x \in DOMAIN heap[e].bindings THEN e ELSE f[heap[e].parent]]
  <2>1. \A e \in S : e \in stops <=> e = NULL \/ x \in DOMAIN heap[e].bindings  OBVIOUS
  <2>2. \A e \in S : up[e] = heap[e].parent  OBVIOUS
  <2> HIDE DEF stops, up
  <2>3. [e \in S |-> IF e = NULL \/ x \in DOMAIN heap[e].bindings THEN e ELSE f[heap[e].parent]]
        = [e \in S |-> IF e \in stops THEN e ELSE f[up[e]]]
    BY <2>1, <2>2
  <2> QED BY <2>3 DEF IsSearch
<1>3. \E f : IsSearch(S, stops, up, f)  BY <1>1, SearchExists
<1>4. IsSearch(S, stops, up, search)
  <2>1. \E f : f = [e \in S |-> IF e = NULL \/ x \in DOMAIN heap[e].bindings THEN e ELSE f[heap[e].parent]]
    BY <1>2, <1>3
  <2>2. search = [e \in S |-> IF e = NULL \/ x \in DOMAIN heap[e].bindings
                              THEN e ELSE search[heap[e].parent]]
    BY <2>1
  <2> QED BY <1>2, <2>2
<1>5. Binder(x) = search[env]  BY DEF Binder
<1>6. env \in S  BY EnvironmentsFacts
<1> HIDE DEF search
<1>7. search[env] \in stops
  <2> HIDE DEF S, stops, up
  <2> QED BY <1>1, <1>4, <1>6, SearchIsRight
<1>8. search[env] = NULL \/ (search[env] \in Environments /\ x \in DOMAIN heap[search[env]].bindings)
  BY <1>7
<1> QED BY <1>5, <1>8, EnvironmentsFacts

LEMMA TopLevelFacts ==
  ASSUME HeapOK(heap), IsBindings(env, heap)
  PROVE  IsBindings(TopLevel, heap)
<1> DEFINE S == Environments
           stops == {e \in S : heap[e].parent = NULL}
           up == [e \in S |-> heap[e].parent]
           search == CHOOSE search : search = [e \in S |-> IF heap[e].parent = NULL
                                                           THEN e ELSE search[heap[e].parent]]
<1>1. Climbs(S, stops, up)
  <2>1. \A e \in S \ stops : up[e] = heap[e].parent /\ heap[e].parent # NULL  OBVIOUS
  <2>2. \A e \in S \ stops : up[e] \in S /\ up[e] < e
    BY <2>1, EnvironmentsFacts
  <2>3. \A e \in S \ stops : up[e] \in stops \/ (up[e] \in S \ stops /\ up[e] < e)  BY <2>2
  <2>4. S \ stops \subseteq Nat  BY EnvironmentsFacts
  <2> QED BY <2>3, <2>4 DEF Climbs
<1>2. ASSUME NEW f
      PROVE  IsSearch(S, stops, up, f) <=>
             f = [e \in S |-> IF heap[e].parent = NULL THEN e ELSE f[heap[e].parent]]
  <2>1. \A e \in S : e \in stops <=> heap[e].parent = NULL  OBVIOUS
  <2>2. \A e \in S : up[e] = heap[e].parent  OBVIOUS
  <2> HIDE DEF stops, up
  <2>3. [e \in S |-> IF heap[e].parent = NULL THEN e ELSE f[heap[e].parent]]
        = [e \in S |-> IF e \in stops THEN e ELSE f[up[e]]]
    BY <2>1, <2>2
  <2> QED BY <2>3 DEF IsSearch
<1>3. \E f : IsSearch(S, stops, up, f)  BY <1>1, SearchExists
<1>4. IsSearch(S, stops, up, search)
  <2>1. \E f : f = [e \in S |-> IF heap[e].parent = NULL THEN e ELSE f[heap[e].parent]]
    BY <1>2, <1>3
  <2>2. search = [e \in S |-> IF heap[e].parent = NULL THEN e ELSE search[heap[e].parent]]
    BY <2>1
  <2> QED BY <1>2, <2>2
<1>5. TopLevel = search[env]  BY DEF TopLevel
<1>6. env \in S  BY EnvironmentsFacts
<1> HIDE DEF search
<1>7. search[env] \in stops
  <2> HIDE DEF S, stops, up
  <2> QED BY <1>1, <1>4, <1>6, SearchIsRight
<1>8. search[env] \in Environments  BY <1>7
<1> QED BY <1>5, <1>8, EnvironmentsFacts

-----------------------------------------------------------------------------
(* Lists: what is found in one is kept, and part of what the list is part of. *)

After(h, p) == IF p \in DOMAIN h THEN h[p].cdr ELSE the_empty_list
IsRests(h, list, N, rest) ==
  rest = [n \in 0..N |-> IF n = 0 THEN list ELSE After(h, rest[n - 1])]

LEMMA RestsExist ==
  ASSUME NEW h, NEW list, NEW N \in Nat
  PROVE  \E rest : IsRests(h, list, N, rest)
<1> DEFINE Bad == {n \in Nat : ~ \E rest : IsRests(h, list, n, rest)}
<1> SUFFICES ASSUME Bad # {} PROVE FALSE
  OBVIOUS
<1>1. PICK m \in Bad : \A n \in Bad : m <= n
  <2>1. Bad \in SUBSET Nat  OBVIOUS
  <2> HIDE DEF Bad
  <2> QED BY <2>1, LeastNat
<1>2. CASE m = 0
  <2> DEFINE g == [n \in 0..0 |-> list]
  <2>1. g = [n \in 0..0 |-> IF n = 0 THEN list ELSE After(h, g[n - 1])]
    <3>1. \A n \in 0..0 : n = 0  OBVIOUS
    <3> QED BY <3>1
  <2>2. IsRests(h, list, 0, g)  BY <2>1 DEF IsRests
  <2> QED BY <2>2, <1>1, <1>2
<1>3. CASE m # 0
  <2>1. m - 1 \in Nat /\ m \in Nat /\ m - 1 < m  BY <1>1, <1>3
  <2>2. m - 1 \notin Bad  BY <2>1, <1>1
  <2>3. PICK g : IsRests(h, list, m - 1, g)  BY <2>1, <2>2
  <2> DEFINE f == [n \in 0..m |-> IF n = m THEN After(h, g[m - 1]) ELSE g[n]]
  <2>4. \A n \in 0..(m - 1) : g[n] = IF n = 0 THEN list ELSE After(h, g[n - 1])
    BY <2>3 DEF IsRests
  <2>5. \A n \in 0..m : f[n] = IF n = m THEN After(h, g[m - 1]) ELSE g[n]  OBVIOUS
  <2>6. f = [n \in 0..m |-> f[n]]  OBVIOUS
  <2> HIDE DEF f
  <2>7. \A n \in 0..m : f[n] = IF n = 0 THEN list ELSE After(h, f[n - 1])
    <3> TAKE n \in 0..m
    <3>1. CASE n = m
      <4>1. n # 0 /\ m - 1 \in 0..m /\ m - 1 # m  BY <3>1, <1>3, <2>1
      <4>2. f[n] = After(h, g[m - 1]) /\ f[m - 1] = g[m - 1]  BY <3>1, <4>1, <2>5
      <4> QED BY <3>1, <4>1, <4>2
    <3>2. CASE n # m /\ n # 0
      <4>1. n \in 0..(m - 1) /\ n - 1 \in 0..m /\ n - 1 # m  BY <3>2, <2>1
      <4>2. f[n] = g[n] /\ f[n - 1] = g[n - 1]  BY <3>2, <4>1, <2>5
      <4> QED BY <3>2, <4>1, <4>2, <2>4
    <3>3. CASE n # m /\ n = 0
      <4>1. n \in 0..(m - 1)  BY <3>3, <2>1
      <4> QED BY <3>3, <4>1, <2>4, <2>5
    <3> QED BY <3>1, <3>2, <3>3
  <2>8. IsRests(h, list, m, f)  BY <2>6, <2>7 DEF IsRests
  <2> QED BY <2>8, <1>1
<1> QED BY <1>2, <1>3

LEMMA RestsFacts ==
  ASSUME HeapOK(heap), NEW list
  PROVE  /\ Rests(list)[0] = list
         /\ \A n \in 1..Len(heap) :
              Rests(list)[n] = IF Rests(list)[n - 1] \in Addr THEN cdr(Rests(list)[n - 1]) ELSE the_empty_list
<1>1. Len(heap) \in Nat  BY HeapFacts
<1> DEFINE D(f) == [n \in 0..Len(heap) |-> IF n = 0 THEN list
                                          ELSE IF f[n - 1] \in Addr THEN cdr(f[n - 1]) ELSE the_empty_list]
<1>2. ASSUME NEW f PROVE IsRests(heap, list, Len(heap), f) <=> f = D(f)
  BY DEF IsRests, After, Addr, cdr
<1>3. \E f : IsRests(heap, list, Len(heap), f)  BY <1>1, RestsExist
<1>4. Rests(list) = CHOOSE f : f = D(f)  BY DEF Rests
<1>5. Rests(list) = D(Rests(list))
  <2> HIDE DEF D
  <2> QED BY <1>2, <1>3, <1>4
<1> DEFINE r == Rests(list)
<1>6. r = D(r)  BY <1>5
<1> HIDE DEF r
<1>7. \A n \in 0..Len(heap) : r[n] = IF n = 0 THEN list
                                     ELSE IF r[n - 1] \in Addr THEN cdr(r[n - 1]) ELSE the_empty_list
  BY <1>6
<1>8. 0 \in 0..Len(heap) /\ \A n \in 1..Len(heap) : n \in 0..Len(heap) /\ n # 0  BY <1>1
<1>9. r[0] = list  BY <1>7, <1>8
<1>10. \A n \in 1..Len(heap) : r[n] = IF r[n - 1] \in Addr THEN cdr(r[n - 1]) ELSE the_empty_list
  BY <1>7, <1>8
<1> QED BY <1>9, <1>10 DEF r

(* A set of addresses that contains what its pairs point to.                *)
Whole(T) ==
  T \subseteq DOMAIN heap /\ \A a \in T : PairPointers(heap[a]) \intersect DOMAIN heap \subseteq T

LEMMA PartOfWhole ==
  ASSUME HeapOK(heap), NEW T, Whole(T), NEW p, WholePair(heap, p), Here(T, heap, p)
  PROVE  /\ Kept(car(p), heap) /\ Here(T, heap, car(p))
         /\ Kept(cdr(p), heap) /\ Here(T, heap, cdr(p))
<1>1. p \in T /\ DOMAIN heap = 1..Len(heap)  BY HeapFacts DEF WholePair, Here
<1>2. PairPointers(heap[p]) = {heap[p].car, heap[p].cdr}  BY DEF WholePair, PairPointers
<1>3. \A v \in {heap[p].car, heap[p].cdr} : v \in 1..Len(heap) => v \in T
  BY <1>1, <1>2 DEF Whole
<1> QED BY <1>3 DEF WholePair, Here, car, cdr

LEMMA ListFacts ==
  ASSUME HeapOK(heap), NEW T, Whole(T), NEW list, Kept(list, heap), Here(T, heap, list), IsList(list)
  PROVE  /\ IsSeq(Elements(list))
         /\ \A n \in 1..Len(Elements(list)) :
              Kept(Elements(list)[n], heap) /\ Here(T, heap, Elements(list)[n])
<1> DEFINE r == Rests(list)
           N == Len(heap)
           Ends(n) == r[n] = the_empty_list /\ \A m \in 0..(n - 1) : r[m] # the_empty_list
           length == CHOOSE n \in 0..N : Ends(n)
<1>1. N \in Nat /\ Addr = 1..N  BY HeapFacts DEF Addr
<1>2. r[0] = list /\ \A n \in 1..N : r[n] = IF r[n - 1] \in Addr THEN cdr(r[n - 1]) ELSE the_empty_list
  BY RestsFacts
<1>3. PICK last \in 0..N : r[last] = the_empty_list /\ \A m \in 0..(last - 1) : Pairs(r[m], 1)
  BY DEF IsList
<1>4. Elements(list) = [n \in 1..length |-> car(r[n - 1])]  BY DEF Elements
<1> HIDE DEF r
<1>5. \A m \in 0..(last - 1) : r[m] \in Addr /\ r[m] # the_empty_list
  BY <1>1, <1>3, ValuesAreNoAddresses DEF Pairs
<1>6. Ends(last)  BY <1>3, <1>5
<1>7. length \in 0..N /\ Ends(length)
  <2> HIDE DEF Ends
  <2> QED BY <1>6
<1> HIDE DEF length
<1>8. length = last
  <2>1. \A i, j \in Nat : i < j => i \in 0..(j - 1)  OBVIOUS
  <2>2. length \in Nat /\ last \in Nat  BY <1>1, <1>3, <1>7
  <2>3. ~ (length < last)  BY <2>1, <2>2, <1>5, <1>7
  <2>4. ~ (last < length)  BY <2>1, <2>2, <1>6, <1>7
  <2> QED BY <2>2, <2>3, <2>4
<1> DEFINE Good(m) == Kept(r[m], heap) /\ Here(T, heap, r[m])
           Bad == {m \in 0..last : ~ Good(m)}
<1>9. Bad = {}
  <2> SUFFICES ASSUME Bad # {} PROVE FALSE
    OBVIOUS
  <2>1. PICK m \in Bad : \A n \in Bad : m <= n
    <3>1. Bad \in SUBSET Nat  BY <1>1, <1>3
    <3> HIDE DEF Bad
    <3> QED BY <3>1, LeastNat
  <2>2. m # 0  BY <2>1, <1>2
  <2>3. m - 1 \in 0..(last - 1) /\ m \in 1..N /\ m - 1 \in 0..last /\ ~ (m <= m - 1)
    BY <2>1, <2>2, <1>1, <1>3
  <2>4. m - 1 \notin Bad  BY <2>1, <2>3
  <2>5. Good(m - 1)  BY <2>3, <2>4
  <2>6. Pairs(r[m - 1], 1) /\ r[m - 1] \in Addr  BY <2>3, <1>3, <1>5
  <2>7. r[m] = cdr(r[m - 1])  BY <2>3, <2>6, <1>2
  <2>8. WholePair(heap, r[m - 1])  BY <2>5, <2>6, PairsFacts
  <2>9. Good(m)  BY <2>5, <2>7, <2>8, PartOfWhole
  <2> QED BY <2>1, <2>9
<1>10. ASSUME NEW n \in 1..length PROVE Kept(car(r[n - 1]), heap) /\ Here(T, heap, car(r[n - 1]))
  <2>1. n - 1 \in 0..(last - 1) /\ n - 1 \in 0..last  BY <1>1, <1>3, <1>8
  <2>2. Good(n - 1)  BY <2>1, <1>9
  <2>3. WholePair(heap, r[n - 1])  BY <2>1, <2>2, <1>3, PairsFacts
  <2> QED BY <2>2, <2>3, PartOfWhole
<1> DEFINE e == [n \in 1..length |-> car(r[n - 1])]
           V == {car(r[n - 1]) : n \in 1..length}
<1>11. e \in [1..length -> V] /\ length \in Nat  BY <1>1, <1>7
<1>12. \A n \in 1..length : e[n] = car(r[n - 1])  OBVIOUS
<1>13. Elements(list) = e  BY <1>4
<1> HIDE DEF e, V
<1>14. IsSeq(e) /\ Len(e) = length  BY <1>11, MadeSeq
<1>15. \A n \in 1..length : Kept(e[n], heap) /\ Here(T, heap, e[n])  BY <1>10, <1>12
<1> QED BY <1>13, <1>14, <1>15

LEMMA ParametersFacts ==
  ASSUME HeapOK(heap), NEW T, Whole(T), NEW names, NEW list, Kept(list, heap), Here(T, heap, list), IsList(list),
         IsSeq(Elements(names)), Len(Elements(names)) <= Len(Elements(list))
  PROVE  \A x \in DOMAIN Parameters(names, list) :
           Kept(Parameters(names, list)[x], heap) /\ Here(T, heap, Parameters(names, list)[x])
<1> DEFINE p == Parameters(names, list)
           s == Elements(names)
           t == Elements(list)
           Latest(x, i) == s[i] = x /\ \A j \in DOMAIN s : s[j] = x => j <= i
           latest(x) == CHOOSE i \in DOMAIN s : Latest(x, i)
<1>1. p = [x \in Range(s) |-> t[latest(x)]]  BY DEF Parameters
<1>2. DOMAIN s = 1..Len(s) /\ Len(s) \in Nat  BY SeqFacts
<1>3. /\ IsSeq(t) /\ \A n \in 1..Len(t) : Kept(t[n], heap) /\ Here(T, heap, t[n])
  BY ListFacts
<1>4. Len(t) \in Nat /\ Len(s) <= Len(t)  BY <1>3, SeqFacts
<1> HIDE DEF p, s, t
<1> SUFFICES ASSUME NEW x \in DOMAIN p PROVE Kept(p[x], heap) /\ Here(T, heap, p[x])
  BY DEF p
<1>5. x \in Range(s) /\ p[x] = t[latest(x)]  BY <1>1
<1>6. \E i \in DOMAIN s : Latest(x, i)
  <2> DEFINE I == {i \in 1..Len(s) : s[i] = x}
  <2>1. I \in SUBSET (1..Len(s)) /\ I # {}  BY <1>2, <1>5 DEF Range
  <2>2. PICK i \in I : \A j \in I : j <= i
    <3> HIDE DEF I
    <3> QED BY <2>1, <1>2, GreatestIn
  <2> QED BY <2>2, <1>2
<1>7. latest(x) \in DOMAIN s
  <2> HIDE DEF Latest
  <2> QED BY <1>6
<1>8. latest(x) \in 1..Len(t)
  <2> HIDE DEF latest
  <2> QED BY <1>2, <1>4, <1>7
<1> QED BY <1>3, <1>5, <1>8

-----------------------------------------------------------------------------
(* What the actions need of the heap. *)

LEMMA PairsKept ==
  ASSUME HeapOK(heap), NEW p, Kept(p, heap), NEW n \in 1..4, Pairs(p, n)
  PROVE  /\ Kept(car(p), heap) /\ Kept(cdr(p), heap)
         /\ n > 1 => Kept(cadr(p), heap) /\ Kept(cddr(p), heap)
         /\ n > 2 => Kept(caddr(p), heap) /\ Kept(cdr(cddr(p)), heap)
         /\ n > 3 => Kept(cadr(cddr(p)), heap)
<1>1. \A q : WholePair(heap, q) => Kept(car(q), heap) /\ Kept(cdr(q), heap)
  BY DEF WholePair, car, cdr
<1>2. WholePair(heap, p)  BY PairsFacts
<1>3. ASSUME n > 1 PROVE Kept(cadr(p), heap) /\ Kept(cddr(p), heap)
  <2>1. WholePair(heap, cdr(p))  BY <1>3, PairsFacts
  <2> QED BY <2>1, <1>1 DEF cadr, cddr
<1>4. ASSUME n > 2 PROVE Kept(caddr(p), heap) /\ Kept(cdr(cddr(p)), heap)
  <2>1. WholePair(heap, cddr(p))  BY <1>4, PairsFacts
  <2> QED BY <2>1, <1>1 DEF caddr
<1>5. ASSUME n > 3 PROVE Kept(cadr(cddr(p)), heap)
  <2>1. WholePair(heap, cdr(cddr(p)))  BY <1>5, PairsFacts
  <2> QED BY <2>1, <1>1 DEF cadr
<1> QED BY <1>1, <1>2, <1>3, <1>4, <1>5

LEMMA ValuesKept ==
  \A h : /\ \A v \in {NULL, true, false, the_empty_list, eof} : Kept(v, h)
         /\ \A v \in Symbol \union Primitive : Kept(v, h)
BY OutsideFacts DEF Outside

LEMMA NamedSymbols ==
  /\ {quote_symbol, define_symbol, set_bang_symbol, ok_symbol, if_symbol, lambda_symbol,
      begin_symbol, cond_symbol, else_symbol, let_symbol, and_symbol, or_symbol} \subseteq Symbol
  /\ \A v \in Symbol : v \notin Nat
BY SymbolsAreNoAddresses DEF Symbol

LEMMA ConsSteps ==
  ASSUME Coherent, Alive, stack # << >>, NEW p, NEW q, Kept(p, heap), Kept(q, heap), cons(p, q)
  PROVE  \E T : /\ Saved(T) /\ Allocs(heap, heap', T, Pair(p, q)) /\ Lives(T, {p, q})
                /\ Moved(heap, heap', stack, T, RootedNow)
                /\ Kept(NewAddr, heap')
<1> DEFINE o == Pair(p, q)
<1>1. o # Freed /\ o.kind = "pair" /\ o.car = p /\ o.cdr = q
  <2>1. o.kind = "pair" /\ o.car = p /\ o.cdr = q  BY DEF Pair
  <2>2. Freed.kind = "freed"  BY DEF Freed
  <2> QED BY <2>1, <2>2
<1>2. gc_alloc(o, {p, q})  BY DEF cons
<1>3. o = Pair(o.car, o.cdr)  BY <1>1
<1> HIDE DEF o
<1>4. PICK T : /\ Allocs(heap, heap', T, o) /\ Lives(T, {p, q})
               /\ ObjectOK(heap', Len(heap) + 1, o) => Saved(T)
               /\ \A v : Stays(heap, heap', T, v)
               /\ Moved(heap, heap', stack, T, RootedNow)
               /\ Kept(NewAddr, heap')
  BY <1>1, <1>2, AllocSteps
<1>5. Kept(p, heap') /\ Kept(q, heap')  BY <1>4 DEF Stays, Lives
<1>6. ObjectOK(heap', Len(heap) + 1, o)  BY <1>1, <1>3, <1>5 DEF ObjectOK
<1> QED BY <1>4, <1>6 DEF o

LEMMA BoundSteps ==
  ASSUME Coherent, Alive, stack # << >>, Top.fn = "eval",
         NEW e, IsBindings(e, heap), NEW x, NEW val, Kept(val, heap), heap' = Bound(e, x, val)
  PROVE  Saved(DOMAIN heap)
<1> DEFINE b == heap[e].bindings
           F == [y \in DOMAIN b \union {x} |-> IF y = x THEN val ELSE b[y]]
           o == [heap[e] EXCEPT !.bindings = F]
<1>1. e \in 1..Len(heap) /\ heap[e].kind = "bindings" /\ heap[e] # Freed
  BY DEF IsBindings, Freed
<1>2. ObjectOK(heap, e, heap[e])  BY <1>1, HeapFacts DEF Alive
<1>3. heap[e] = Bindings(heap[e].parent, b)
      /\ (heap[e].parent = NULL \/ (IsBindings(heap[e].parent, heap) /\ heap[e].parent < e))
      /\ \A y \in DOMAIN b : Kept(b[y], heap)
  BY <1>1, <1>2 DEF ObjectOK
<1>4. heap' = [heap EXCEPT ![e] = o]  BY DEF Bound
<1>5. o = Bindings(heap[e].parent, F)
  <2> HIDE DEF F, b
  <2> QED BY <1>3 DEF Bindings
<1>6. \A y \in DOMAIN F : Kept(F[y], heap)  BY <1>3
<1> HIDE DEF F, o
<1>7. o.kind = "bindings" /\ o.parent = heap[e].parent /\ o.bindings = F  BY <1>5 DEF Bindings
<1>8. o # Freed  BY <1>7 DEF Freed
<1>9. Updates(heap, heap', e, o)  BY <1>1, <1>4, <1>7, <1>8 DEF Updates
<1>10. o = Bindings(o.parent, o.bindings)  BY <1>5, <1>7
<1>11. ObjectOK(heap, e, o)  BY <1>3, <1>6, <1>7, <1>10 DEF ObjectOK
<1>12. Behind(heap[e]) = Behind(o)  BY <1>1, <1>7 DEF Behind
<1>13. Top.fn \notin Building  BY EvalShape
<1> QED BY <1>9, <1>11, <1>12, <1>13, UpdateSteps

(* A part of an expression that is rooted. *)
PartOf(h, R, v) == v \notin Nat \/ \E r \in R : v \in Parts(h, r)

LEMMA PartOfSelf ==
  ASSUME HeapOK(heap), NEW R, NEW v \in R, Kept(v, heap)
  PROVE  PartOf(heap, R, v)
<1>1. CASE v \notin Nat  BY <1>1 DEF PartOf
<1>2. CASE v \in Nat
  <2>1. v \in DOMAIN heap  BY <1>2, HeapFacts DEF Kept
  <2>2. v \in Parts(heap, v)  BY <2>1, PartsFacts
  <2> QED BY <2>2 DEF PartOf
<1> QED BY <1>1, <1>2

LEMMA PartOfPair ==
  ASSUME HeapOK(heap), NEW R, NEW p, WholePair(heap, p), PartOf(heap, R, p)
  PROVE  PartOf(heap, R, car(p)) /\ PartOf(heap, R, cdr(p))
<1>1. PICK r \in R : p \in Parts(heap, r)  BY DEF PartOf, WholePair
<1>2. PairPointers(heap[p]) = {car(p), cdr(p)}  BY DEF WholePair, PairPointers, car, cdr
<1>3. \A v \in {car(p), cdr(p)} : v \in DOMAIN heap => v \in Parts(heap, r)
  BY <1>1, <1>2, PartsFacts
<1>4. \A v \in {car(p), cdr(p)} : v \in Nat => v \in DOMAIN heap
  BY HeapFacts DEF WholePair, Kept, car, cdr
<1> QED BY <1>3, <1>4 DEF PartOf

LEMMA HeldByPart ==
  ASSUME NEW h, NEW R, NEW Q, NEW f, f.fn \in Building, NEW x, PartOf(h, R, f.var[x])
  PROVE  Held(h, R, Q, f, x)
BY DEF PartOf, Held

-----------------------------------------------------------------------------
(* eval, away from applications *)

LEMMA DispatchTop ==
  ASSUME Coherent, Alive, Dispatch
  PROVE  /\ "tailcall" \in Simple /\ At("eval", "tailcall")
         /\ stack # << >> /\ Top.fn = "eval" /\ Top.at = "tailcall" /\ HeapOK(heap)
         /\ Kept(exp, heap) /\ Kept(ret, heap)
         /\ var = EvalVar(exp, var.proc, var.args)
         /\ var.proc \notin Nat /\ var.args \notin Nat
<1>1. "tailcall" \in Simple /\ At("eval", "tailcall")  BY DEF Simple, Dispatch
<1> QED BY <1>1, SimpleTop

LEMMA FormFacts ==
  ASSUME Coherent, Alive, NEW n \in 1..4, Pairs(exp, n), Dispatch
  PROVE  /\ Kept(car(exp), heap) /\ Kept(cdr(exp), heap)
         /\ n > 1 => Kept(cadr(exp), heap) /\ Kept(cddr(exp), heap)
         /\ n > 2 => Kept(caddr(exp), heap) /\ Kept(cdr(cddr(exp)), heap)
         /\ n > 3 => Kept(cadr(cddr(exp)), heap)
BY DispatchTop, PairsKept

LEMMA Sequences ==
  ASSUME Coherent, Alive, NEW x \in Simple, At("eval", x), NEW form \in Simple,
         NEW n \in 1..4, Pairs(exp, n), n > 1, Sequence(form, cdr(exp))
  PROVE  AliveNext
<1>1. HeapOK(heap) /\ Kept(exp, heap) /\ var = EvalVar(exp, var.proc, var.args)  BY SimpleTop
<1>2. Kept(cdr(exp), heap) /\ Kept(car(cdr(exp)), heap)  BY <1>1, PairsKept DEF cadr
<1>3. With(cdr(exp)) = EvalVar(cdr(exp), var.proc, var.args)
  <2> DEFINE v == var
  <2>1. v = EvalVar(v.exp, v.proc, v.args)  BY <1>1 DEF exp
  <2> HIDE DEF v
  <2>2. \A e : [v EXCEPT !.exp = e] = EvalVar(e, v.proc, v.args)  BY <2>1, EvalVarFacts
  <2> QED BY <2>2 DEF v, With
<1>4. CASE TailCall(car(cdr(exp)))  BY <1>2, <1>4, TailCalls
<1>5. CASE CallEval(form, With(cdr(exp)), car(cdr(exp)))  BY <1>2, <1>3, <1>5, CallsEval
<1> QED BY <1>4, <1>5 DEF Sequence

LEMMA Rewrites ==
  ASSUME Coherent, Alive, Dispatch, NEW e, Rewrite(e),
         \A R, Q : exp \in R => Runs(heap, R, Q, e)
  PROVE  AliveNext
<1>1. /\ stack # << >> /\ Top.fn = "eval" /\ Kept(exp, heap) /\ var = EvalVar(exp, var.proc, var.args)
      /\ var.proc \notin Nat /\ var.args \notin Nat
  BY DispatchTop
<1>2. Call("rewritten", var, e) /\ heap' = heap /\ UNCHANGED <<env, environment_stack>>
  BY DEF Rewrite, Invoke, OnlyTheStack, others
<1>3. Saved(DOMAIN heap)  BY <1>1, <1>2, HeapStays
<1> DEFINE f == Continue("rewritten", var)
<1>4. f.fn = "eval" /\ f.var = var  BY <1>1, ContinueIs
<1> HIDE DEF f
<1>5. exp \in RootedOf(f)  BY <1>4, EvalShape DEF exp
<1>6. Runs(heap', RootedBefore \union RootedOf(f), OperandsBefore \union OperandsOf(f), e)
  BY <1>2, <1>5
<1>7. "rewritten" \notin Extending /\ "rewritten" # "wrap"  BY DEF Extending
<1>8. Kept(var.proc, heap') /\ Kept(var.args, heap')  BY <1>1, EvalTopVar, NoAddressStays
<1> QED BY <1>1, <1>2, <1>3, <1>6, <1>7, <1>8, EvalCalls DEF f

LEMMA EvalLambda ==
  ASSUME Coherent, Alive, Pairs(exp, 2), eval_lambda
  PROVE  AliveNext
<1> DEFINE p == cadr(exp)
           b == cddr(exp)
           o == CompoundProcedure(p, b)
<1>1. Dispatch /\ gc_alloc(o, {p, b}) /\ EvalReturn(NewAddr)
  BY DEF eval_lambda, Form, make_compound_procedure
<1>2. stack # << >>  BY <1>1, DispatchTop
<1>3. Kept(p, heap) /\ Kept(b, heap)  BY <1>1, FormFacts
<1>4. o.kind = "procedure" /\ o.arguments = p /\ o.body = b /\ o.env = env
  BY DEF CompoundProcedure
<1>5. o # Freed  BY <1>4 DEF Freed
<1> HIDE DEF p, b, o
<1>6. PICK T : /\ Allocs(heap, heap', T, o) /\ Lives(T, {p, b})
               /\ ObjectOK(heap', Len(heap) + 1, o) => Saved(T)
               /\ \A v : Stays(heap, heap', T, v)
               /\ \A v : StaysBound(heap, heap', T, v)
               /\ Kept(NewAddr, heap')
  BY <1>1, <1>2, <1>5, AllocSteps
<1>7. Kept(p, heap') /\ Kept(b, heap')  BY <1>3, <1>6 DEF Stays, Lives
<1>8. IsBindings(env, heap')
  <2>1. env \in VmPointers /\ IsBindings(env, heap)  BY DEF VmPointers, Alive, EnvironmentsOK
  <2> QED BY <2>1, <1>6 DEF StaysBound, Lives
<1>9. ObjectOK(heap', Len(heap) + 1, o)  BY <1>4, <1>7, <1>8 DEF ObjectOK
<1>10. Saved(T)  BY <1>6, <1>9
<1> QED BY <1>1, <1>2, <1>6, <1>10, Returned DEF EvalReturn

LEMMA Assigns ==
  ASSUME Coherent, Alive, NEW x \in Simple, At("eval", x), EvalReturn(ok_symbol),
         \/ heap' = heap
         \/ \E e, y : IsBindings(e, heap) /\ heap' = Bound(e, y, ret)
  PROVE  AliveNext
<1>1. stack # << >> /\ Top.fn = "eval" /\ Kept(ret, heap)  BY SimpleTop
<1>2. Saved(DOMAIN heap)
  <2>1. CASE heap' = heap  BY <2>1, <1>1, HeapStays
  <2>2. CASE \E e, y : IsBindings(e, heap) /\ heap' = Bound(e, y, ret)
    BY <2>2, <1>1, BoundSteps
  <2> QED BY <2>1, <2>2
<1>3. Kept(ok_symbol, heap')  BY ValuesKept, NamedSymbols
<1> QED BY <1>1, <1>2, <1>3, Returned DEF EvalReturn

LEMMA TransformsRun ==
  ASSUME HeapOK(heap), Kept(exp, heap), Pairs(exp, 2), NEW R, exp \in R, NEW Q
  PROVE  /\ Runs(heap, R, Q, Frame("transform_complex_define", "start", [exp |-> exp]))
         /\ Runs(heap, R, Q, Frame("transform_let", "start",
                                   [let |-> exp, bindings |-> cadr(exp), vars |-> NULL, inits |-> NULL]))
<1>1. WholePair(heap, exp) /\ WholePair(heap, cdr(exp))  BY PairsFacts
<1>2. PartOf(heap, R, exp)  BY PartOfSelf
<1>3. PartOf(heap, R, cdr(exp))  BY <1>1, <1>2, PartOfPair
<1>4. PartOf(heap, R, cadr(exp)) /\ Kept(cadr(exp), heap)
  BY <1>1, <1>3, PartOfPair, PairsKept DEF cadr
<1>5. PartOf(heap, R, NULL) /\ Kept(NULL, heap)  BY NullKept DEF PartOf
<1> DEFINE x == exp
           y == cadr(exp)
<1>6. PartOf(heap, R, x) /\ Kept(x, heap) /\ PartOf(heap, R, y) /\ Kept(y, heap)
  BY <1>2, <1>4
<1> HIDE DEF x, y
<1>7. Runs(heap, R, Q, Frame("transform_complex_define", "start", [exp |-> x]))
  <2> DEFINE f == Frame("transform_complex_define", "start", [exp |-> x])
  <2>1. f.fn = "transform_complex_define" /\ f.at = "start" /\ f.var = [exp |-> x]  BY DEF Frame
  <2> HIDE DEF f
  <2>2. f.fn \in Building /\ Shape(f) /\ ~ InProcedure(f) /\ ~ Wraps(f)
    BY <2>1 DEF Building, Shape, InProcedure, Wraps
  <2>3. \A z \in DOMAIN f.var : Kept(f.var[z], heap) /\ PartOf(heap, R, f.var[z])
    BY <2>1, <1>6
  <2> QED BY <2>2, <2>3, HeldByPart DEF Runs, Safe, f
<1>8. Runs(heap, R, Q, Frame("transform_let", "start",
                             [let |-> x, bindings |-> y, vars |-> NULL, inits |-> NULL]))
  <2> DEFINE f == Frame("transform_let", "start",
                        [let |-> x, bindings |-> y, vars |-> NULL, inits |-> NULL])
  <2>1. /\ f.fn = "transform_let" /\ f.at = "start"
        /\ f.var = [let |-> x, bindings |-> y, vars |-> NULL, inits |-> NULL]
    BY DEF Frame
  <2> HIDE DEF f
  <2>2. f.fn \in Building /\ Shape(f) /\ ~ InProcedure(f) /\ ~ Wraps(f)
    BY <2>1 DEF Building, Shape, InProcedure, Wraps
  <2>3. \A z \in DOMAIN f.var : Kept(f.var[z], heap) /\ PartOf(heap, R, f.var[z])
    BY <2>1, <1>5, <1>6
  <2> QED BY <2>2, <2>3, HeldByPart DEF Runs, Safe, f
<1> QED BY <1>7, <1>8 DEF x, y

(* The clauses of a cond, and what has been read of the first.              *)
LEMMA CondRuns ==
  ASSUME NEW h, NEW R, NEW Q, NEW c, Kept(c, h), PartOf(h, R, c)
  PROVE  Runs(h, R, Q, Frame("transform_cond_clauses", "start",
                             [cond_clauses |-> c, condition |-> NULL, exp |-> NULL]))
<1> DEFINE f == Frame("transform_cond_clauses", "start",
                      [cond_clauses |-> c, condition |-> NULL, exp |-> NULL])
<1>1. PartOf(h, R, NULL) /\ Kept(NULL, h)  BY NullKept DEF PartOf
<1>2. /\ f.fn = "transform_cond_clauses" /\ f.at = "start"
      /\ f.var = [cond_clauses |-> c, condition |-> NULL, exp |-> NULL]
  BY DEF Frame
<1> HIDE DEF f
<1>3. f.fn \in Building /\ Shape(f) /\ ~ InProcedure(f) /\ ~ Wraps(f)
  BY <1>2 DEF Building, Shape, InProcedure, Wraps
<1>4. \A z \in DOMAIN f.var : Kept(f.var[z], h) /\ PartOf(h, R, f.var[z])
  BY <1>1, <1>2
<1> QED BY <1>3, <1>4, HeldByPart DEF Runs, Safe, f

LEMMA IsPairFacts ==
  ASSUME HeapOK(heap), Kept(exp, heap), is_pair(exp)
  PROVE  Pairs(exp, 1) /\ WholePair(heap, exp)
<1>1. Pairs(exp, 1)  BY DEF is_pair, Is, Live, Pairs
<1> QED BY <1>1, PairsFacts

LEMMA EvalKeepsAlive == Coherent /\ Alive /\ WellFormed /\ Eval => AliveNext
<1> SUFFICES ASSUME Coherent, Alive, FormsAreWhole, Eval PROVE AliveNext
  BY DEF WellFormed
<1>0. /\ "if" \in Simple /\ "set!" \in Simple /\ "define" \in Simple /\ "rewritten" \in Simple
      /\ "begin" \in Simple /\ "or" \in Simple /\ "and" \in Simple /\ "tailcall" \in Simple
  BY DEF Simple
<1>1. \A tag : Form(tag) => Dispatch /\ is_pair(exp)  BY DEF Form
<1>2. CASE eval_self_evaluating
  BY <1>2, DispatchTop, EvalReturns DEF eval_self_evaluating
<1>3. CASE eval_unexpected  BY <1>3, DispatchTop, Exited DEF eval_unexpected
<1>4. CASE eval_variable
  <2>1. Dispatch  BY <1>4 DEF eval_variable
  <2>2. HeapOK(heap) /\ IsBindings(env, heap) /\ stack # << >>
    BY <2>1, DispatchTop DEF Alive, EnvironmentsOK
  <2>3. CASE Binder(exp) = NULL  BY <1>4, <2>2, <2>3, Exited DEF eval_variable
  <2>4. CASE Binder(exp) # NULL
    <3> DEFINE b == Binder(exp)
    <3>1. IsBindings(b, heap) /\ exp \in DOMAIN heap[b].bindings  BY <2>2, <2>4, BinderFacts
    <3>2. Kept(heap[b].bindings[exp], heap)  BY <3>1, <2>2, EnvironmentsFacts
    <3>3. EvalReturn(heap[b].bindings[exp]) /\ UNCHANGED heap  BY <1>4, <2>4 DEF eval_variable
    <3> QED BY <2>1, <3>2, <3>3, DispatchTop, EvalReturns
  <2> QED BY <2>3, <2>4
<1>5. CASE eval_quoted
  <2>1. Dispatch /\ Pairs(exp, 2)  BY <1>1, <1>5 DEF eval_quoted, FormsAreWhole
  <2>2. Kept(cadr(exp), heap)  BY <2>1, FormFacts
  <2> QED BY <1>5, <2>1, <2>2, DispatchTop, EvalReturns DEF eval_quoted
<1>6. CASE eval_if
  <2>1. Dispatch /\ Pairs(exp, 2)  BY <1>1, <1>6 DEF eval_if, FormsAreWhole
  <2>2. Kept(cadr(exp), heap)  BY <2>1, FormFacts
  <2> QED BY <1>0, <1>6, <2>1, <2>2, DispatchTop, CallsEval DEF eval_if
<1>7. CASE eval_if_chosen
  <2>1. At("eval", "if") /\ HeapOK(heap) /\ Kept(exp, heap)
    BY <1>0, <1>7, SimpleTop DEF eval_if_chosen
  <2>2. CASE ret # false
    <3>1. Pairs(exp, 3)  BY <2>1, <2>2 DEF FormsAreWhole
    <3>2. Kept(caddr(exp), heap)  BY <2>1, <3>1, PairsKept
    <3> QED BY <1>0, <1>7, <2>1, <2>2, <3>2, TailCalls DEF eval_if_chosen
  <2>3. CASE ret = false
    <3>1. Pairs(exp, 4)  BY <2>1, <2>3 DEF FormsAreWhole
    <3>2. Kept(cadr(cddr(exp)), heap)  BY <2>1, <3>1, PairsKept
    <3> QED BY <1>0, <1>7, <2>1, <2>3, <3>2, TailCalls DEF eval_if_chosen
  <2> QED BY <2>2, <2>3
<1>8. CASE eval_lambda
  <2>1. Pairs(exp, 2)  BY <1>8 DEF eval_lambda, FormsAreWhole
  <2> QED BY <1>8, <2>1, EvalLambda
<1>9. CASE eval_assignment
  <2>1. Dispatch /\ Pairs(exp, 3)  BY <1>1, <1>9 DEF eval_assignment, FormsAreWhole
  <2>2. Kept(caddr(exp), heap)  BY <2>1, FormFacts
  <2> QED BY <1>0, <1>9, <2>1, <2>2, DispatchTop, CallsEval DEF eval_assignment
<1>10. CASE eval_assignment_set
  <2>1. At("eval", "set!") /\ EvalReturn(ok_symbol)  BY <1>10 DEF eval_assignment_set
  <2>2. HeapOK(heap) /\ IsBindings(env, heap)  BY DEF Alive, EnvironmentsOK
  <2>3. CASE Binder(cadr(exp)) = NULL
    <3>1. heap' = heap  BY <1>10, <2>3 DEF eval_assignment_set
    <3> QED BY <1>0, <2>1, <3>1, Assigns
  <2>4. CASE Binder(cadr(exp)) # NULL
    <3>1. heap' = Bound(Binder(cadr(exp)), cadr(exp), ret)  BY <1>10, <2>4 DEF eval_assignment_set
    <3>2. IsBindings(Binder(cadr(exp)), heap)  BY <2>2, <2>4, BinderFacts
    <3>3. \E e, y : IsBindings(e, heap) /\ heap' = Bound(e, y, ret)  BY <3>1, <3>2
    <3> QED BY <1>0, <2>1, <3>3, Assigns
  <2> QED BY <2>3, <2>4
<1>11. CASE eval_define
  <2>1. Dispatch /\ Pairs(exp, 3)  BY <1>1, <1>11 DEF eval_define, FormsAreWhole
  <2>2. Kept(caddr(exp), heap)  BY <2>1, FormFacts
  <2> QED BY <1>0, <1>11, <2>1, <2>2, DispatchTop, CallsEval DEF eval_define
<1>12. CASE eval_define_set
  <2>1. At("eval", "define") /\ EvalReturn(ok_symbol) /\ heap' = Bound(env, cadr(exp), ret)
    BY <1>12 DEF eval_define_set
  <2>2. IsBindings(env, heap)  BY DEF Alive, EnvironmentsOK
  <2>3. \E e, y : IsBindings(e, heap) /\ heap' = Bound(e, y, ret)  BY <2>1, <2>2
  <2> QED BY <1>0, <2>1, <2>3, Assigns
<1>13. CASE eval_complex_define
  <2>1. Dispatch /\ Pairs(exp, 2)  BY <1>1, <1>13 DEF eval_complex_define, FormsAreWhole
  <2> DEFINE e == Frame("transform_complex_define", "start", [exp |-> exp])
  <2>2. HeapOK(heap) /\ Kept(exp, heap)  BY <2>1, DispatchTop
  <2>3. \A R, Q : exp \in R => Runs(heap, R, Q, e)  BY <2>1, <2>2, TransformsRun
  <2>4. Rewrite(e)  BY <1>13 DEF eval_complex_define
  <2> HIDE DEF e
  <2> QED BY <2>1, <2>3, <2>4, Rewrites
<1>14. CASE eval_let
  <2>1. Dispatch /\ Pairs(exp, 2)  BY <1>1, <1>14 DEF eval_let, FormsAreWhole
  <2> DEFINE e == Frame("transform_let", "start",
                        [let |-> exp, bindings |-> cadr(exp), vars |-> NULL, inits |-> NULL])
  <2>2. HeapOK(heap) /\ Kept(exp, heap)  BY <2>1, DispatchTop
  <2>3. \A R, Q : exp \in R => Runs(heap, R, Q, e)  BY <2>1, <2>2, TransformsRun
  <2>4. Rewrite(e)  BY <1>14 DEF eval_let
  <2> HIDE DEF e
  <2> QED BY <2>1, <2>3, <2>4, Rewrites
<1>15. CASE eval_cond
  <2>1. Dispatch /\ is_pair(exp)  BY <1>1, <1>15 DEF eval_cond
  <2>2. HeapOK(heap) /\ Kept(exp, heap)  BY <2>1, DispatchTop
  <2>3. WholePair(heap, exp)  BY <2>1, <2>2, IsPairFacts
  <2> DEFINE e == Frame("transform_cond_clauses", "start",
                        [cond_clauses |-> cdr(exp), condition |-> NULL, exp |-> NULL])
  <2>4. ASSUME NEW R, NEW Q, exp \in R PROVE Runs(heap, R, Q, e)
    <3>1. PartOf(heap, R, cdr(exp))  BY <2>2, <2>3, <2>4, PartOfSelf, PartOfPair
    <3>2. Kept(cdr(exp), heap)  BY <2>3 DEF WholePair, cdr
    <3> QED BY <3>1, <3>2, CondRuns
  <2>5. Rewrite(e)  BY <1>15 DEF eval_cond
  <2> HIDE DEF e
  <2> QED BY <2>1, <2>4, <2>5, Rewrites
<1>16. CASE eval_rewritten
  <2>1. At("eval", "rewritten") /\ TailCall(ret)  BY <1>16 DEF eval_rewritten
  <2>2. Kept(ret, heap)  BY DEF Alive
  <2> QED BY <1>0, <2>1, <2>2, TailCalls
<1>17. CASE eval_begin
  <2>1. At("eval", "tailcall") /\ Pairs(exp, 2) /\ Sequence("begin", cdr(exp))
    BY <1>1, <1>17 DEF eval_begin, FormsAreWhole, Dispatch
  <2> QED BY <1>0, <2>1, Sequences
<1>18. CASE eval_begin_next
  <2>1. At("eval", "begin") /\ Pairs(exp, 2) /\ Sequence("begin", cdr(exp))
    BY <1>18 DEF eval_begin_next, FormsAreWhole
  <2> QED BY <1>0, <2>1, Sequences
<1>19. CASE eval_or
  <2>1. At("eval", "tailcall") /\ (cdr(exp) = the_empty_list \/ Pairs(exp, 2))
    BY <1>1, <1>19 DEF eval_or, FormsAreWhole, Dispatch
  <2>2. CASE cdr(exp) = the_empty_list
    BY <1>19, <2>1, <2>2, ValuesKept, EvalReturns DEF eval_or
  <2>3. CASE cdr(exp) # the_empty_list
    <3>1. Pairs(exp, 2) /\ Sequence("or", cdr(exp))  BY <1>19, <2>1, <2>3 DEF eval_or
    <3> QED BY <1>0, <2>1, <3>1, Sequences
  <2> QED BY <2>2, <2>3
<1>20. CASE eval_or_next
  <2>1. At("eval", "or") /\ (ret # false \/ Pairs(exp, 2))
    BY <1>20 DEF eval_or_next, FormsAreWhole
  <2>2. CASE ret # false
    <3>1. Kept(ret, heap)  BY DEF Alive
    <3> QED BY <1>20, <2>1, <2>2, <3>1, EvalReturns DEF eval_or_next
  <2>3. CASE ret = false
    <3>1. Pairs(exp, 2) /\ Sequence("or", cdr(exp))  BY <1>20, <2>1, <2>3 DEF eval_or_next
    <3> QED BY <1>0, <2>1, <3>1, Sequences
  <2> QED BY <2>2, <2>3
<1>21. CASE eval_and
  <2>1. At("eval", "tailcall") /\ (cdr(exp) = the_empty_list \/ Pairs(exp, 2))
    BY <1>1, <1>21 DEF eval_and, FormsAreWhole, Dispatch
  <2>2. CASE cdr(exp) = the_empty_list
    BY <1>21, <2>1, <2>2, ValuesKept, EvalReturns DEF eval_and
  <2>3. CASE cdr(exp) # the_empty_list
    <3>1. Pairs(exp, 2) /\ Sequence("and", cdr(exp))  BY <1>21, <2>1, <2>3 DEF eval_and
    <3> QED BY <1>0, <2>1, <3>1, Sequences
  <2> QED BY <2>2, <2>3
<1>22. CASE eval_and_next
  <2>1. At("eval", "and") /\ (ret = false \/ Pairs(exp, 2))
    BY <1>22 DEF eval_and_next, FormsAreWhole
  <2>2. CASE ret = false
    <3>1. Kept(ret, heap)  BY DEF Alive
    <3> QED BY <1>22, <2>1, <2>2, <3>1, EvalReturns DEF eval_and_next
  <2>3. CASE ret # false
    <3>1. Pairs(exp, 2) /\ Sequence("and", cdr(exp))  BY <1>22, <2>1, <2>3 DEF eval_and_next
    <3> QED BY <1>0, <2>1, <3>1, Sequences
  <2> QED BY <2>2, <2>3
<1> QED
  BY <1>2, <1>3, <1>4, <1>5, <1>6, <1>7, <1>8, <1>9, <1>10, <1>11, <1>12, <1>13, <1>14, <1>15,
     <1>16, <1>17, <1>18, <1>19, <1>20, <1>21, <1>22
     DEF Eval

-----------------------------------------------------------------------------
(* list_of_values: the operands left are the end of a list that the calling  *)
(* eval has rooted; each value is rooted while the others are found.        *)

SpineOf(h, Q, v) == v \notin Nat \/ \E q \in Q : v \in Spine(h, q)
LovVar(x, y) == [exps |-> x, tmp |-> y]

LEMMA SpineOfSelf ==
  ASSUME HeapOK(heap), NEW Q, NEW p \in Q, WholePair(heap, p)
  PROVE  SpineOf(heap, Q, p)
<1>1. p \in Spine(heap, p)  BY HeapFacts, SpineFacts DEF WholePair
<1> QED BY <1>1 DEF SpineOf

LEMMA SpineOfPair ==
  ASSUME HeapOK(heap), NEW Q, NEW p, WholePair(heap, p), SpineOf(heap, Q, p)
  PROVE  SpineOf(heap, Q, cdr(p)) /\ Kept(cdr(p), heap) /\ Kept(car(p), heap)
<1>1. PICK q \in Q : p \in Spine(heap, q)  BY DEF SpineOf, WholePair
<1>2. Behind(heap[p]) = {cdr(p)}  BY DEF WholePair, Behind, cdr
<1>3. cdr(p) \in DOMAIN heap => cdr(p) \in Spine(heap, q)  BY <1>1, <1>2, SpineFacts
<1>4. Kept(cdr(p), heap) /\ Kept(car(p), heap)  BY DEF WholePair, cdr, car
<1>5. cdr(p) \in Nat => cdr(p) \in DOMAIN heap  BY <1>4, HeapFacts DEF Kept
<1> QED BY <1>3, <1>4, <1>5 DEF SpineOf

LEMMA LovVarFacts ==
  \A x, y : LovVar(x, y).exps = x /\ LovVar(x, y).tmp = y /\ DOMAIN LovVar(x, y) = {"exps", "tmp"}
BY DEF LovVar

LEMMA LovWaits ==
  ASSUME NEW h, NEW R, NEW Q, NEW f, f.fn = "list_of_values", NEW x, NEW y, f.var = LovVar(x, y),
         Kept(x, h), Kept(y, h), SpineOf(h, Q, x), f.at # "start" \/ y \notin Nat
  PROVE  Waits(h, R, Q, f) /\ Runs(h, R, Q, f)
<1>1. f.var.exps = x /\ f.var.tmp = y /\ DOMAIN f.var = {"exps", "tmp"}  BY LovVarFacts
<1>2. Shape(f) /\ ~ InProcedure(f) /\ ~ Wraps(f)
  BY <1>1 DEF Shape, LovVar, InProcedure, Wraps
<1>3. Held(h, R, Q, f, "exps")  BY <1>1 DEF Held, SpineOf
<1>4. Held(h, R, Q, f, "tmp")
  <2>1. CASE f.at = "start"  BY <2>1, <1>1 DEF Held
  <2>2. CASE f.at # "start"
    <3>1. RootNames(f) = <<"tmp">>  BY <2>2, NamesOfOthers
    <3>2. Len(RootNames(f)) = 1 /\ RootNames(f)[1] = "tmp" /\ 1 \in 1..1  BY <3>1
    <3> QED BY <3>2 DEF Held
  <2> QED BY <2>1, <2>2
<1>5. \A z \in DOMAIN f.var : Kept(f.var[z], h) /\ Held(h, R, Q, f, z)
  BY <1>1, <1>3, <1>4
<1> QED BY <1>2, <1>5 DEF Waits, Runs, Safe

LEMMA LovRuns ==
  ASSUME NEW h, NEW R, NEW Q, NEW x, Kept(x, h), SpineOf(h, Q, x)
  PROVE  Runs(h, R, Q, ListOfValues(x))
<1> DEFINE f == ListOfValues(x)
<1>1. f.fn = "list_of_values" /\ f.var = LovVar(x, NULL)  BY DEF ListOfValues, Frame, LovVar
<1>2. NULL \notin Nat /\ Kept(NULL, h)  BY NullKept
<1> HIDE DEF f
<1>3. Runs(h, R, Q, f)  BY <1>1, <1>2, LovWaits
<1> QED BY <1>3 DEF f

LEMMA LovTop ==
  ASSUME Coherent, Alive, NEW x, At("list_of_values", x)
  PROVE  /\ stack # << >> /\ Top.fn = "list_of_values" /\ Top.at = x /\ HeapOK(heap)
         /\ var = LovVar(var.exps, var.tmp)
         /\ Kept(var.exps, heap) /\ Kept(var.tmp, heap)
         /\ SpineOf(heap, OperandsBefore, var.exps)
         /\ x # "start" => var.tmp \in RootedOf(Top)
         /\ x = "start" => SpineOf(heap, OperandsBefore, var.tmp)
<1> DEFINE f == Top
<1>1. stack # << >> /\ f.fn = "list_of_values" /\ f.at = x  BY AtFacts
<1>2. Runs(heap, RootedBefore, OperandsBefore, f) /\ HeapOK(heap)  BY <1>1, AliveFacts
<1>3. var = f.var  BY DEF var
<1> HIDE DEF f
<1>4. f.var = LovVar(f.var.exps, f.var.tmp)  BY <1>1, <1>2 DEF Runs, Shape, LovVar
<1>5. DOMAIN f.var = {"exps", "tmp"}  BY <1>4, LovVarFacts
<1>6. Loose(f) = {} /\ f.fn \notin Building  BY <1>1 DEF Loose, Building
<1>7. \A z \in {"exps", "tmp"} : Kept(f.var[z], heap) /\ Held(heap, RootedBefore, OperandsBefore, f, z)
  BY <1>1, <1>2, <1>5, <1>6 DEF Runs, Safe
<1>8. CASE x = "start"
  <2>1. RootNames(f) = << >>  BY <1>1, <1>8, NamesOfOthers
  <2>2. Len(RootNames(f)) = 0  BY <2>1
  <2>3. \A z \in {"exps", "tmp"} : SpineOf(heap, OperandsBefore, f.var[z])
    BY <2>2, <1>6, <1>7 DEF Held, SpineOf
  <2>4. SpineOf(heap, OperandsBefore, f.var.exps) /\ SpineOf(heap, OperandsBefore, f.var.tmp)
    BY <2>3
  <2> QED BY <2>4, <1>1, <1>2, <1>3, <1>4, <1>7, <1>8 DEF f
<1>9. CASE x # "start"
  <2>1. RootNames(f) = <<"tmp">>  BY <1>1, <1>9, NamesOfOthers
  <2>2. Len(RootNames(f)) = 1 /\ RootNames(f)[1] = "tmp" /\ 1 \in 1..1 /\ \A k \in 1..1 : k = 1
    BY <2>1
  <2>3. "exps" # "tmp"  OBVIOUS
  <2>4. SpineOf(heap, OperandsBefore, f.var.exps)
    BY <2>2, <2>3, <1>6, <1>7 DEF Held, SpineOf
  <2>5. f.var.tmp \in RootedOf(f)  BY <2>2 DEF RootedOf
  <2> QED BY <2>4, <2>5, <1>1, <1>2, <1>3, <1>4, <1>7, <1>9 DEF f
<1> QED BY <1>8, <1>9

LEMMA SpineOfMore ==
  ASSUME NEW h, NEW Q, NEW P, NEW v, SpineOf(h, Q, v), Q \subseteq P
  PROVE  SpineOf(h, P, v)
BY DEF SpineOf

(* A function that is not eval calls another one. *)
LEMMA Invokes ==
  ASSUME Coherent, Alive, stack # << >>, NEW at, NEW v, NEW e, Call(at, v, e), heap' = heap,
         UNCHANGED <<env, environment_stack>>,
         NEW f, f = Continue(at, v), Waits(heap, RootedBefore, OperandsBefore, f),
         f.fn \in Building => e.fn \in Building,
         Runs(heap, RootedBefore \union RootedOf(f), OperandsBefore \union OperandsOf(f), e)
  PROVE  AliveNext
<1>1. f.fn = Top.fn  BY ContinueIs
<1>2. stack' = Append(TopBecomes(f), e) /\ ret' = NULL  BY DEF Call
<1>3. Kept(ret', heap')  BY <1>2, NullKept
<1>4. Saved(DOMAIN heap)  BY HeapStays
<1> QED BY <1>1, <1>2, <1>3, <1>4, Called

LEMMA Finishes ==
  ASSUME Coherent, Alive, stack # << >>, NEW v, Kept(v, heap), Return(v), heap' = heap,
         UNCHANGED <<env, environment_stack>>
  PROVE  AliveNext
<1>1. Saved(DOMAIN heap)  BY HeapStays
<1> QED BY <1>1, Returned

LEMMA LovFirst == Coherent /\ Alive /\ CallsAreWhole /\ list_of_values_first => AliveNext
<1> SUFFICES ASSUME Coherent, Alive, CallsAreWhole, list_of_values_first PROVE AliveNext
  OBVIOUS
<1>1. /\ At("list_of_values", "start") /\ var.exps # the_empty_list
      /\ Call("first", var, EvalFrame(car(var.exps))) /\ heap' = heap
      /\ UNCHANGED <<env, environment_stack>>
  BY DEF list_of_values_first, others
<1>2. /\ stack # << >> /\ Top.fn = "list_of_values" /\ HeapOK(heap)
      /\ var = LovVar(var.exps, var.tmp) /\ Kept(var.exps, heap) /\ Kept(var.tmp, heap)
      /\ SpineOf(heap, OperandsBefore, var.exps)
  BY <1>1, LovTop
<1>3. Pairs(var.exps, 1)  BY <1>1 DEF CallsAreWhole
<1>4. Kept(car(var.exps), heap)  BY <1>2, <1>3, PairsKept
<1> DEFINE f == Continue("first", var)
<1>5. f.fn = "list_of_values" /\ f.at = "first" /\ f.var = var  BY <1>2, ContinueIs
<1>6. f.fn \notin Building  BY <1>5 DEF Building
<1> HIDE DEF f
<1>7. "first" # "start"  OBVIOUS
<1>8. Waits(heap, RootedBefore, OperandsBefore, f)  BY <1>2, <1>5, <1>7, LovWaits
<1>9. \A R, Q : Runs(heap, R, Q, EvalFrame(car(var.exps)))  BY <1>4, EvalFrameRuns
<1> QED BY <1>1, <1>2, <1>6, <1>8, <1>9, Invokes DEF f

LEMMA LovRest == Coherent /\ Alive /\ CallsAreWhole /\ list_of_values_rest => AliveNext
<1> SUFFICES ASSUME Coherent, Alive, CallsAreWhole, list_of_values_rest PROVE AliveNext
  OBVIOUS
<1> DEFINE v == LovVar(NULL, ret)
           e == ListOfValues(cdr(var.exps))
<1>1. /\ At("list_of_values", "first")
      /\ Call("rest", v, e) /\ heap' = heap
      /\ UNCHANGED <<env, environment_stack>>
  BY DEF list_of_values_rest, Invoke, OnlyTheStack, others, LovVar
<1>2. /\ stack # << >> /\ Top.fn = "list_of_values" /\ HeapOK(heap)
      /\ Kept(var.exps, heap) /\ SpineOf(heap, OperandsBefore, var.exps)
  BY <1>1, LovTop
<1>3. Pairs(var.exps, 1)  BY <1>1 DEF CallsAreWhole
<1>4. WholePair(heap, var.exps)  BY <1>2, <1>3, PairsFacts
<1>5. SpineOf(heap, OperandsBefore, cdr(var.exps)) /\ Kept(cdr(var.exps), heap)
  BY <1>2, <1>4, SpineOfPair
<1> DEFINE f == Continue("rest", v)
<1>6. f.fn = "list_of_values" /\ f.at = "rest" /\ f.var = v  BY <1>2, ContinueIs
<1>7. f.fn \notin Building  BY <1>6 DEF Building
<1> HIDE DEF f
<1>8. NULL \notin Nat /\ Kept(NULL, heap) /\ Kept(ret, heap) /\ SpineOf(heap, OperandsBefore, NULL)
  BY NullKept DEF Alive, SpineOf
<1>9. "rest" # "start"  OBVIOUS
<1>10. Waits(heap, RootedBefore, OperandsBefore, f)  BY <1>6, <1>8, <1>9, LovWaits
<1>11. SpineOf(heap, OperandsBefore \union OperandsOf(f), cdr(var.exps))  BY <1>5, SpineOfMore
<1>12. Runs(heap, RootedBefore \union RootedOf(f), OperandsBefore \union OperandsOf(f), e)
  BY <1>5, <1>11, LovRuns
<1> HIDE DEF v, e
<1> QED BY <1>1, <1>2, <1>7, <1>10, <1>12, Invokes DEF f

LEMMA LovCons == Coherent /\ Alive /\ list_of_values_cons => AliveNext
<1> SUFFICES ASSUME Coherent, Alive, list_of_values_cons PROVE AliveNext
  OBVIOUS
<1>1. /\ At("list_of_values", "rest") /\ cons(var.tmp, ret) /\ Return(NewAddr)
      /\ UNCHANGED <<env, environment_stack>>
  BY DEF list_of_values_cons, others
<1>2. stack # << >> /\ Kept(var.tmp, heap) /\ Kept(ret, heap)  BY <1>1, LovTop DEF Alive
<1>3. PICK T : Saved(T) /\ Kept(NewAddr, heap')  BY <1>1, <1>2, ConsSteps
<1> QED BY <1>1, <1>2, <1>3, Returned

-----------------------------------------------------------------------------
(* cons(e1, cons(e2, ...)): what waits is held by an expression.             *)

LEMMA ConsesFrame ==
  ASSUME NEW h, NEW R, NEW Q, NEW s, IsSeq(s), \A k \in 1..Len(s) : Kept(s[k], h),
         \A k \in 1..(Len(s) - 2) : PartOf(h, R, s[k]),
         NEW f, f.fn = "conses", f.var = s
  PROVE  Runs(h, R, Q, f)
<1>1. Shape(f) /\ ~ InProcedure(f) /\ ~ Wraps(f) /\ f.fn \in Building
  BY DEF Shape, InProcedure, Wraps, Building
<1>2. Loose(f) = {Len(s) - 1, Len(s)}  BY DEF Loose
<1>3. DOMAIN f.var = 1..Len(s) /\ Len(s) \in Nat  BY SeqFacts
<1>4. ASSUME NEW k \in 1..Len(s)  PROVE Kept(f.var[k], h) /\ (k \in Loose(f) \/ Held(h, R, Q, f, k))
  <2>1. Kept(f.var[k], h)  OBVIOUS
  <2>2. CASE k \in 1..(Len(s) - 2)
    <3>1. PartOf(h, R, f.var[k])  BY <2>2
    <3>2. Held(h, R, Q, f, k)  BY <3>1, <1>1, HeldByPart
    <3> QED BY <2>1, <3>2
  <2>3. CASE k \notin 1..(Len(s) - 2)
    <3>1. \A m \in Nat : \A j \in 1..m : j \notin 1..(m - 2) => j = m - 1 \/ j = m  OBVIOUS
    <3>2. k = Len(s) - 1 \/ k = Len(s)  BY <2>3, <3>1, <1>3
    <3> QED BY <2>1, <3>2, <1>2
  <2> QED BY <2>2, <2>3
<1> QED BY <1>1, <1>3, <1>4 DEF Runs, Safe

LEMMA ConsesRun ==
  ASSUME NEW h, NEW R, NEW Q, NEW s, IsSeq(s), \A k \in 1..Len(s) : Kept(s[k], h),
         \A k \in 1..(Len(s) - 2) : PartOf(h, R, s[k])
  PROVE  Runs(h, R, Q, Conses(s))
<1> DEFINE f == Conses(s)
<1>1. f.fn = "conses" /\ f.var = s  BY DEF Conses, Frame
<1> HIDE DEF f
<1>2. Runs(h, R, Q, f)  BY <1>1, ConsesFrame
<1> QED BY <1>2 DEF f

-----------------------------------------------------------------------------
(* Applications *)

LEMMA EvalAt ==
  ASSUME Coherent, Alive, NEW x, At("eval", x)
  PROVE  /\ stack # << >> /\ Top.fn = "eval" /\ Top.at = x /\ HeapOK(heap)
         /\ var = EvalVar(exp, var.proc, var.args) /\ var = Top.var
         /\ Kept(exp, heap) /\ Kept(var.proc, heap) /\ Kept(var.args, heap) /\ Kept(ret, heap)
         /\ EnvironmentsOK(heap, env, environment_stack)
<1>1. stack # << >> /\ Top.fn = "eval" /\ Top.at = x  BY AtFacts
<1> QED BY <1>1, EvalTopVar, AliveFacts DEF var

LEMMA EnvironmentsPush ==
  ASSUME NEW h, EnvironmentsOK(h, env, environment_stack), NEW e, IsBindings(e, h),
         vm_push_environment(e)
  PROVE  EnvironmentsOK(h, env', environment_stack')
<1> DEFINE s == environment_stack
           t == Append(s, env)
<1>1. /\ IsSeq(s) /\ IsBindings(env, h) /\ \A k \in 1..Len(s) : IsBindings(s[k], h)
  BY DEF EnvironmentsOK
<1>2. Len(s) \in Nat  BY <1>1, SeqFacts
<1>3. IsSeq(t) /\ Len(t) = Len(s) + 1 /\ t[Len(s) + 1] = env /\ \A k \in 1..Len(s) : t[k] = s[k]
  BY <1>1, AppendFacts
<1>4. environment_stack' = t /\ env' = e  BY DEF vm_push_environment
<1> HIDE DEF t, s
<1>5. \A k \in 1..Len(t) : IsBindings(t[k], h)
  <2> TAKE k \in 1..Len(t)
  <2>1. k \in 1..Len(s) \/ k = Len(s) + 1  BY <1>2, <1>3
  <2> QED BY <2>1, <1>1, <1>3
<1> QED BY <1>3, <1>4, <1>5 DEF EnvironmentsOK

LEMMA ProcedureFacts ==
  ASSUME HeapOK(heap), NEW p, p \in 1..Len(heap), heap[p].kind = "procedure"
  PROVE  /\ Kept(heap[p].arguments, heap) /\ Kept(heap[p].body, heap)
         /\ IsBindings(heap[p].env, heap)
<1>1. ObjectOK(heap, p, heap[p])  BY HeapFacts
<1>2. Freed.kind = "freed"  BY DEF Freed
<1> QED BY <1>1, <1>2 DEF ObjectOK

LEMMA ApplicationBegins == Coherent /\ Alive /\ eval_application => AliveNext
<1> SUFFICES ASSUME Coherent, Alive, eval_application PROVE AliveNext
  OBVIOUS
<1>1. /\ At("eval", "tailcall") /\ is_pair(exp) /\ Call("proc", var, EvalFrame(car(exp)))
      /\ heap' = heap /\ UNCHANGED <<env, environment_stack>>
  BY DEF eval_application, Dispatch, others
<1>2. /\ stack # << >> /\ Top.fn = "eval" /\ HeapOK(heap) /\ var = EvalVar(exp, var.proc, var.args)
      /\ Kept(exp, heap) /\ Kept(var.proc, heap) /\ Kept(var.args, heap)
  BY <1>1, EvalAt
<1>3. Saved(DOMAIN heap)  BY <1>1, <1>2, HeapStays
<1>4. Kept(car(exp), heap)  BY <1>1, <1>2, IsPairFacts DEF WholePair, car
<1>5. \A R, Q : Runs(heap, R, Q, EvalFrame(car(exp)))  BY <1>4, EvalFrameRuns
<1>6. "proc" \in Rooting /\ "proc" \notin Extending /\ "proc" # "wrap"  BY DEF Rooting, Extending
<1> QED BY <1>1, <1>2, <1>3, <1>5, <1>6, EvalCalls

LEMMA ApplicationOperands == Coherent /\ Alive /\ CallsAreWhole /\ eval_operands => AliveNext
<1> SUFFICES ASSUME Coherent, Alive, CallsAreWhole, eval_operands PROVE AliveNext
  OBVIOUS
<1> DEFINE w == var
           v == [w EXCEPT !.proc = ret]
           e == ListOfValues(cdr(exp))
           f == Continue("args", v)
<1>1. /\ At("eval", "proc") /\ Call("args", v, e) /\ heap' = heap /\ UNCHANGED <<env, environment_stack>>
  BY DEF eval_operands, Invoke, OnlyTheStack, others
<1>2. /\ stack # << >> /\ Top.fn = "eval" /\ HeapOK(heap) /\ w = EvalVar(exp, w.proc, w.args)
      /\ Kept(exp, heap) /\ Kept(w.args, heap) /\ Kept(ret, heap)
  BY <1>1, EvalAt
<1>3. Saved(DOMAIN heap)  BY <1>1, <1>2, HeapStays
<1>4. WholePair(heap, exp)  BY <1>1, <1>2, PairsFacts DEF CallsAreWhole
<1>5. v = EvalVar(exp, ret, w.args)
  <2>1. w = EvalVar(w.exp, w.proc, w.args) /\ w.exp = exp  BY <1>2 DEF exp
  <2> HIDE DEF w
  <2> QED BY <2>1, EvalVarFacts
<1>6. f.fn = "eval" /\ f.at = "args" /\ f.var = v  BY <1>2, ContinueIs
<1> HIDE DEF w, v, f
<1>7. f.var.exp = exp  BY <1>5, <1>6 DEF EvalVar
<1>8. exp \in OperandsBefore \union OperandsOf(f)  BY <1>6, <1>7, EvalShape
<1>9. SpineOf(heap, OperandsBefore \union OperandsOf(f), cdr(exp)) /\ Kept(cdr(exp), heap)
  BY <1>2, <1>4, <1>8, SpineOfSelf, SpineOfPair
<1>10. Runs(heap', RootedBefore \union RootedOf(f), OperandsBefore \union OperandsOf(f), e)
  BY <1>1, <1>9, LovRuns
<1>11. "args" \in Rooting /\ "args" \notin Extending /\ "args" # "wrap"  BY DEF Rooting, Extending
<1> HIDE DEF e
<1> QED BY <1>1, <1>2, <1>3, <1>5, <1>10, <1>11, EvalCalls DEF f

LEMMA ApplicationApply == Coherent /\ Alive /\ CallsAreWhole /\ eval_apply => AliveNext
<1> SUFFICES ASSUME Coherent, Alive, CallsAreWhole, eval_apply PROVE AliveNext
  OBVIOUS
<1> DEFINE w == var
           v == [w EXCEPT !.proc = car(ret), !.args = ret]
           s == Elements(cdr(ret))
           e == Conses(s)
           f == Continue("applied", v)
           T == Parts(heap, ret)
           R == RootedBefore \union RootedOf(f)
<1>1. /\ At("eval", "args") /\ var.proc = apply_procedure /\ Call("applied", v, e)
      /\ heap' = heap /\ UNCHANGED <<env, environment_stack>>
  BY DEF eval_apply, Invoke, OnlyTheStack, others
<1>2. /\ stack # << >> /\ Top.fn = "eval" /\ HeapOK(heap) /\ w = EvalVar(exp, w.proc, w.args)
      /\ Kept(exp, heap) /\ Kept(w.args, heap) /\ Kept(ret, heap)
  BY <1>1, EvalAt
<1>3. Saved(DOMAIN heap)  BY <1>1, <1>2, HeapStays
<1>4. WholePair(heap, ret) /\ IsList(cdr(ret))  BY <1>1, <1>2, PairsFacts DEF CallsAreWhole
<1>5. v = EvalVar(exp, car(ret), ret)
  <2>1. w = EvalVar(w.exp, w.proc, w.args) /\ w.exp = exp  BY <1>2 DEF exp
  <2> HIDE DEF w
  <2> DEFINE u == [w EXCEPT !.proc = car(ret)]
  <2>2. v = [u EXCEPT !.args = ret]  OBVIOUS
  <2> HIDE DEF v
  <2>3. u = EvalVar(w.exp, car(ret), w.args)  BY <2>1, EvalVarFacts
  <2> HIDE DEF u
  <2>4. [u EXCEPT !.args = ret] = EvalVar(w.exp, car(ret), ret)  BY <2>3 DEF EvalVar
  <2> QED BY <2>1, <2>2, <2>4
<1>6. f.fn = "eval" /\ f.at = "applied" /\ f.var = v  BY <1>2, ContinueIs
<1>7. "applied" \in Rooting /\ "applied" \notin Extending /\ "applied" # "wrap"  BY DEF Rooting, Extending
<1> HIDE DEF w, v, f
<1>8. f.var.args = ret  BY <1>5, <1>6 DEF EvalVar
<1>9. ret \in R  BY <1>6, <1>7, <1>8, EvalShape
<1>10. Whole(T) /\ Here(T, heap, ret)  BY <1>2, HeapFacts, PartsFacts DEF Whole, Here
<1>11. Kept(car(ret), heap) /\ Kept(cdr(ret), heap) /\ Here(T, heap, cdr(ret))
  BY <1>2, <1>4, <1>10, PartOfWhole
<1>12. IsSeq(s) /\ \A n \in 1..Len(s) : Kept(s[n], heap) /\ Here(T, heap, s[n])
  BY <1>2, <1>4, <1>10, <1>11, ListFacts
<1> HIDE DEF s
<1>13. Len(s) \in Nat  BY <1>12, SeqFacts
<1>14. ASSUME NEW n \in 1..(Len(s) - 2) PROVE PartOf(heap, R, s[n])
  <2>1. n \in 1..Len(s)  BY <1>13
  <2>2. s[n] \in Nat => s[n] \in Parts(heap, ret)  BY <2>1, <1>12 DEF Kept, Here
  <2> HIDE DEF R, T
  <2> QED BY <2>2, <1>9 DEF PartOf
<1>15. Runs(heap', R, OperandsBefore \union OperandsOf(f), e)
  <2> HIDE DEF R
  <2> QED BY <1>1, <1>12, <1>14, ConsesRun
<1> HIDE DEF e
<1> QED BY <1>1, <1>2, <1>3, <1>5, <1>7, <1>11, <1>15, EvalCalls DEF f

LEMMA ApplicationEval == Coherent /\ Alive /\ CallsAreWhole /\ eval_eval => AliveNext
<1> SUFFICES ASSUME Coherent, Alive, CallsAreWhole, eval_eval PROVE AliveNext
  OBVIOUS
<1> DEFINE v == [exp |-> car(ret), proc |-> NULL, args |-> NULL]
           f == [Continue("tailcall", v) EXCEPT !.pops = @ + 1]
           a == cadr(ret)
<1>1. /\ At("eval", "args") /\ var.proc = eval_procedure /\ vm_push_environment(heap[a].value)
      /\ stack' = TopBecomes(f) /\ ret' = NULL /\ heap' = heap
  BY DEF eval_eval
<1>2. /\ stack # << >> /\ Top.fn = "eval" /\ HeapOK(heap) /\ Kept(ret, heap)
      /\ EnvironmentsOK(heap, env, environment_stack)
  BY <1>1, EvalAt
<1>3. Saved(DOMAIN heap)  BY <1>1, <1>2, HeapStays
<1>4. /\ Pairs(ret, 2) /\ a \in Addr /\ heap[a].kind \in {"environment", "freed"}
  BY <1>1 DEF CallsAreWhole
<1>5. Kept(car(ret), heap) /\ Kept(a, heap)  BY <1>2, <1>4, PairsKept
<1>6. IsBindings(heap[a].value, heap)
  <2>1. a \in 1..Len(heap) /\ a \in Nat  BY <1>2, <1>4, HeapFacts DEF Addr
  <2>2. heap[a] # Freed /\ ObjectOK(heap, a, heap[a])  BY <2>1, <1>2, <1>5, HeapFacts DEF Kept
  <2> QED BY <2>2, <1>4 DEF ObjectOK
<1>7. EnvironmentsOK(heap', env', environment_stack')  BY <1>1, <1>2, <1>6, EnvironmentsPush
<1>8. f.fn = "eval" /\ f.at = "tailcall" /\ f.var = v
  <2> DEFINE c == Continue("tailcall", v)
  <2>1. c = [fn |-> Top.fn, at |-> "tailcall", var |-> v, pops |-> Top.pops,
             entered |-> Top.entered, saved |-> Top.saved]
    BY <1>2, ContinueIs
  <2>2. f = [c EXCEPT !.pops = @ + 1]  OBVIOUS
  <2> HIDE DEF c, v
  <2> QED BY <1>2, <2>1, <2>2
<1>9. v = EvalVar(car(ret), NULL, NULL)  BY DEF EvalVar
<1>10. "tailcall" \notin Extending /\ "tailcall" # "wrap"  BY DEF Extending
<1> HIDE DEF v, f, a
<1> QED BY <1>1, <1>2, <1>3, <1>5, <1>7, <1>8, <1>9, <1>10, NullKept, EvalGoes

LEMMA ApplicationArguments == Coherent /\ Alive /\ (eval_arguments \/ eval_applied) => AliveNext
<1> SUFFICES ASSUME Coherent, Alive, eval_arguments \/ eval_applied PROVE AliveNext
  OBVIOUS
<1> DEFINE w == var
           v == [w EXCEPT !.args = ret]
           f == Continue("call", v)
<1>1. /\ At("eval", "args") \/ At("eval", "applied")
      /\ stack' = TopBecomes(f) /\ ret' = NULL /\ heap' = heap /\ UNCHANGED <<env, environment_stack>>
  BY DEF eval_arguments, eval_applied, Arguments, Goto, OnlyTheStack, others
<1>2. /\ stack # << >> /\ Top.fn = "eval" /\ HeapOK(heap) /\ w = EvalVar(exp, w.proc, w.args)
      /\ Kept(exp, heap) /\ Kept(w.proc, heap) /\ Kept(ret, heap)
      /\ EnvironmentsOK(heap, env, environment_stack)
  BY <1>1, EvalAt
<1>3. Saved(DOMAIN heap)  BY <1>1, <1>2, HeapStays
<1>4. v = EvalVar(exp, w.proc, ret)
  <2>1. w = EvalVar(w.exp, w.proc, w.args) /\ w.exp = exp  BY <1>2 DEF exp
  <2> HIDE DEF w
  <2> QED BY <2>1, EvalVarFacts
<1>5. f.fn = "eval" /\ f.at = "call" /\ f.var = v  BY <1>2, ContinueIs
<1>6. "call" \in Rooting /\ "call" \notin Extending /\ "call" # "wrap"  BY DEF Rooting, Extending
<1> HIDE DEF w, v, f
<1> QED BY <1>1, <1>2, <1>3, <1>4, <1>5, <1>6, NullKept, EvalGoes

LEMMA ApplicationPrimitive == Coherent /\ Alive /\ eval_primitive => AliveNext
<1> SUFFICES ASSUME Coherent, Alive, eval_primitive PROVE AliveNext
  OBVIOUS
<1> DEFINE f == Continue("primitive", var)
<1>1. /\ At("eval", "call") /\ stack' = TopBecomes(f) /\ ret' = NULL /\ heap' = heap
      /\ UNCHANGED <<env, environment_stack>>
  BY DEF eval_primitive, Goto, others
<1>2. /\ stack # << >> /\ Top.fn = "eval" /\ HeapOK(heap) /\ var = EvalVar(exp, var.proc, var.args)
      /\ Kept(exp, heap) /\ Kept(var.proc, heap) /\ Kept(var.args, heap)
      /\ EnvironmentsOK(heap, env, environment_stack)
  BY <1>1, EvalAt
<1>3. Saved(DOMAIN heap)  BY <1>1, <1>2, HeapStays
<1>4. f.fn = "eval" /\ f.at = "primitive" /\ f.var = var  BY <1>2, ContinueIs
<1>5. "primitive" \in Used /\ "primitive" \notin Extending /\ "primitive" # "wrap"
  BY DEF Used, Extending
<1> HIDE DEF f
<1> QED BY <1>1, <1>2, <1>3, <1>4, <1>5, NullKept, EvalGoes

LEMMA ApplicationCompound == Coherent /\ Alive /\ eval_compound => AliveNext
<1> SUFFICES ASSUME Coherent, Alive, eval_compound PROVE AliveNext
  OBVIOUS
<1> DEFINE f == [Continue("extend", var) EXCEPT !.pops = @ + 1]
           p == var.proc
<1>1. /\ At("eval", "call") /\ Is(p, "procedure") /\ vm_push_environment(heap[p].env)
      /\ stack' = TopBecomes(f) /\ UNCHANGED <<heap, ret>>
  BY DEF eval_compound
<1>2. /\ stack # << >> /\ Top.fn = "eval" /\ HeapOK(heap) /\ var = EvalVar(exp, p, var.args)
      /\ Kept(exp, heap) /\ Kept(p, heap) /\ Kept(var.args, heap) /\ Kept(ret, heap)
      /\ EnvironmentsOK(heap, env, environment_stack)
  BY <1>1, EvalAt
<1>3. Saved(DOMAIN heap)  BY <1>1, <1>2, HeapStays
<1>4. p \in 1..Len(heap) /\ heap[p].kind = "procedure"
  BY <1>1, <1>2, HeapFacts DEF Is, Live, Addr
<1>5. EnvironmentsOK(heap', env', environment_stack')
  BY <1>1, <1>2, <1>4, ProcedureFacts, EnvironmentsPush
<1>6. f.fn = "eval" /\ f.at = "extend" /\ f.var = var
  <2> DEFINE c == Continue("extend", var)
  <2>1. c = [fn |-> Top.fn, at |-> "extend", var |-> var, pops |-> Top.pops,
             entered |-> Top.entered, saved |-> Top.saved]
    BY <1>2, ContinueIs
  <2>2. f = [c EXCEPT !.pops = @ + 1]  OBVIOUS
  <2> HIDE DEF c
  <2> QED BY <1>2, <2>1, <2>2
<1>7. "extend" \in Rooting /\ "extend" # "wrap"  BY DEF Rooting
<1> HIDE DEF f, p
<1> QED BY <1>1, <1>2, <1>3, <1>4, <1>5, <1>6, <1>7, EvalGoes

LEMMA EverythingIsWhole ==
  ASSUME HeapOK(heap)
  PROVE  Whole(DOMAIN heap) /\ \A v : Here(DOMAIN heap, heap, v)
BY HeapFacts DEF Whole, Here

LEMMA KeptIsWhole ==
  ASSUME NEW T, NEW W, Moved(heap, heap', stack, T, W)
  PROVE  Whole(T)
BY DEF Moved, Steady, Whole

LEMMA RootedTop ==
  ASSUME Coherent, Alive, stack # << >>, NEW v \in RootedOf(Top), NEW T, NEW A, Lives(T, A)
  PROVE  v \in RootedNow /\ Here(T, heap, v)
BY AliveFacts DEF Lives

(* The procedure's environment is extended by its parameters. *)
LEMMA ApplicationExtend == Coherent /\ Alive /\ CallsAreWhole /\ eval_extend => AliveNext
<1> SUFFICES ASSUME Coherent, Alive, CallsAreWhole, eval_extend PROVE AliveNext
  OBVIOUS
<1> DEFINE w == var
           p == w.proc
           names == heap[p].arguments
           bound == Parameters(names, w.args)
           o == Bindings(env, bound)
           v == [w EXCEPT !.args = NULL]
           f == Continue("body", v)
<1>1. /\ At("eval", "extend") /\ gc_alloc(o, {}) /\ env' = NewAddr
      /\ stack' = TopBecomes(f) /\ ret' = NULL /\ UNCHANGED environment_stack
  BY DEF eval_extend, environment_create, Goto
<1>2. /\ stack # << >> /\ Top.fn = "eval" /\ Top.at = "extend" /\ HeapOK(heap)
      /\ w = EvalVar(exp, p, w.args) /\ w = Top.var
      /\ Kept(exp, heap) /\ Kept(p, heap) /\ Kept(w.args, heap)
      /\ EnvironmentsOK(heap, env, environment_stack)
  BY <1>1, EvalAt
<1>3. "extend" \in Extending /\ "extend" \in Rooting /\ "body" \in Rooting /\ "body" # "wrap"
  BY DEF Extending, Rooting
<1>4. p \in 1..Len(heap) /\ heap[p].kind = "procedure"  BY <1>2, <1>3, EvalTop
<1>5. exp \in RootedOf(Top) /\ p \in RootedOf(Top) /\ w.args \in RootedOf(Top)
  BY <1>2, <1>3, EvalShape DEF exp
<1>6. IsList(names) /\ IsList(w.args) /\ Len(Elements(names)) <= Len(Elements(w.args))
  BY <1>1 DEF CallsAreWhole, args
<1>7. IsSeq(Elements(names))
  BY <1>2, <1>4, <1>6, ProcedureFacts, EverythingIsWhole, ListFacts
<1>8. o.kind = "bindings" /\ o.parent = env /\ o.bindings = bound /\ o = Bindings(o.parent, o.bindings)
  BY DEF Bindings
<1>9. o # Freed  BY <1>8 DEF Freed
<1>10. f.fn = "eval" /\ f.at = "body" /\ f.var = v  BY <1>2, ContinueIs
<1>11. v = EvalVar(exp, p, NULL)
  <2>1. w = EvalVar(w.exp, w.proc, w.args) /\ w.exp = exp  BY <1>2 DEF exp
  <2> HIDE DEF w
  <2> QED BY <2>1, EvalVarFacts
<1> HIDE DEF o, v, f, w, p
<1>12. PICK T : /\ Allocs(heap, heap', T, o) /\ Lives(T, {})
                /\ ObjectOK(heap', Len(heap) + 1, o) => Saved(T)
                /\ \A u : Stays(heap, heap', T, u)
                /\ \A u : StaysBound(heap, heap', T, u)
                /\ Moved(heap, heap', stack, T, RootedNow)
  BY <1>1, <1>2, <1>9, AllocSteps
<1>13. Here(T, heap, exp) /\ Here(T, heap, p) /\ Here(T, heap, w.args)
  BY <1>2, <1>5, <1>12, RootedTop
<1>14. Whole(T)  BY <1>12, KeptIsWhole
<1>15. \A x \in DOMAIN bound : Kept(bound[x], heap) /\ Here(T, heap, bound[x])
  BY <1>2, <1>6, <1>7, <1>13, <1>14, ParametersFacts
<1> HIDE DEF bound, names
<1>16. \A x \in DOMAIN bound : Kept(bound[x], heap')  BY <1>12, <1>15 DEF Stays
<1>17. IsBindings(env, heap') /\ env < Len(heap) + 1
  <2>1. env \in VmPointers /\ IsBindings(env, heap)  BY <1>2 DEF VmPointers, EnvironmentsOK
  <2>2. Len(heap) \in Nat  BY <1>2, HeapFacts
  <2>3. env < Len(heap) + 1  BY <2>1, <2>2 DEF IsBindings
  <2>4. IsBindings(env, heap')  BY <2>1, <1>12 DEF StaysBound, Lives
  <2> QED BY <2>3, <2>4
<1>18. ObjectOK(heap', Len(heap) + 1, o)  BY <1>8, <1>16, <1>17 DEF ObjectOK
<1>19. Saved(T)  BY <1>12, <1>18
<1>20. Kept(exp, heap') /\ Kept(p, heap')  BY <1>2, <1>12, <1>13 DEF Stays
<1>21. p \in 1..Len(heap') /\ heap'[p].kind = "procedure" /\ IsBindings(NewAddr, heap')
  <2>1. Len(heap') = Len(heap) + 1 /\ heap'[Len(heap) + 1] = o /\ heap'[p] = heap[p]
    BY <1>4, <1>12, <1>13 DEF Allocs, Grows, Here
  <2>2. Len(heap) \in Nat  BY <1>2, HeapFacts
  <2> QED BY <2>1, <2>2, <1>4, <1>8 DEF IsBindings, NewAddr
<1>22. EnvironmentsOK(heap', env', environment_stack')
  BY <1>1, <1>19, <1>21 DEF Saved, EnvironmentsOK
<1> QED BY <1>1, <1>2, <1>3, <1>10, <1>11, <1>19, <1>20, <1>21, <1>22, NullKept, EvalGoes

LEMMA ApplicationBody == Coherent /\ Alive /\ eval_body => AliveNext
<1> SUFFICES ASSUME Coherent, Alive, eval_body PROVE AliveNext
  OBVIOUS
<1> DEFINE p == var.proc
           b == heap[p].body
           v == [exp |-> NewAddr, proc |-> NULL, args |-> NULL]
           f == Continue("tailcall", v)
<1>1. /\ At("eval", "body") /\ cons(begin_symbol, b)
      /\ stack' = TopBecomes(f) /\ ret' = NULL /\ UNCHANGED <<env, environment_stack>>
  BY DEF eval_body, Goto, others
<1>2. /\ stack # << >> /\ Top.fn = "eval" /\ Top.at = "body" /\ HeapOK(heap) /\ var = Top.var
      /\ EnvironmentsOK(heap, env, environment_stack)
  BY <1>1, EvalAt
<1>3. "body" \in Extending /\ "tailcall" \notin Extending /\ "tailcall" # "wrap"  BY DEF Extending
<1>4. p \in 1..Len(heap) /\ heap[p].kind = "procedure"  BY <1>2, <1>3, EvalTop
<1>5. Kept(b, heap) /\ Kept(begin_symbol, heap)
  BY <1>2, <1>4, ProcedureFacts, ValuesKept, NamedSymbols
<1>6. f.fn = "eval" /\ f.at = "tailcall" /\ f.var = v  BY <1>2, ContinueIs
<1>7. v = EvalVar(NewAddr, NULL, NULL)  BY DEF EvalVar
<1> HIDE DEF p, b, v, f
<1>8. PICK T : Saved(T) /\ Kept(NewAddr, heap')  BY <1>1, <1>2, <1>5, ConsSteps
<1>9. EnvironmentsOK(heap', env', environment_stack')  BY <1>1, <1>8 DEF Saved
<1> QED BY <1>1, <1>2, <1>3, <1>6, <1>7, <1>8, <1>9, NullKept, EvalGoes

LEMMA LovEnd == Coherent /\ Alive /\ list_of_values_end => AliveNext
<1> SUFFICES ASSUME Coherent, Alive, list_of_values_end PROVE AliveNext
  OBVIOUS
<1>1. /\ At("list_of_values", "start") /\ Return(the_empty_list) /\ heap' = heap
      /\ UNCHANGED <<env, environment_stack>>
  BY DEF list_of_values_end, Finish, OnlyTheStack, others
<1>2. stack # << >>  BY <1>1, AtFacts
<1> QED BY <1>1, <1>2, ValuesKept, Finishes

LEMMA ApplicationKeepsAlive == Coherent /\ Alive /\ WellFormed /\ Application => AliveNext
BY ApplicationBegins, ApplicationOperands, ApplicationApply, ApplicationEval, ApplicationArguments,
   ApplicationPrimitive, ApplicationCompound, ApplicationExtend, ApplicationBody,
   LovEnd, LovFirst, LovRest, LovCons
   DEF WellFormed, Application

-----------------------------------------------------------------------------
(* The primitive procedures *)

(* An object of a kind that is always OK, or of an environment. *)
LEMMA PlainSteps ==
  ASSUME Coherent, Alive, stack # << >>, NEW o, o.kind \in {"number", "character", "string"},
         gc_alloc(o, {})
  PROVE  \E T : Saved(T) /\ Kept(NewAddr, heap')
<1>1. o # Freed  BY DEF Freed
<1>2. PICK T : (ObjectOK(heap', Len(heap) + 1, o) => Saved(T)) /\ Kept(NewAddr, heap')
  BY <1>1, AllocSteps
<1>3. ObjectOK(heap', Len(heap) + 1, o)  BY DEF ObjectOK
<1> QED BY <1>2, <1>3

LEMMA EnvironmentSteps ==
  ASSUME Coherent, Alive, stack # << >>, NEW e, IsBindings(e, heap), make_environment(e)
  PROVE  \E T : Saved(T) /\ Kept(NewAddr, heap')
<1> DEFINE o == SchemeEnvironment(e)
<1>1. o.kind = "environment" /\ o.value = e  BY DEF SchemeEnvironment
<1>2. o # Freed  BY <1>1 DEF Freed
<1>3. gc_alloc(o, {e})  BY DEF make_environment
<1> HIDE DEF o
<1>4. PICK T : /\ ObjectOK(heap', Len(heap) + 1, o) => Saved(T)
               /\ Lives(T, {e}) /\ \A p : StaysBound(heap, heap', T, p)
               /\ Kept(NewAddr, heap')
  BY <1>2, <1>3, AllocSteps
<1>5. IsBindings(e, heap')  BY <1>4 DEF Lives, StaysBound
<1>6. ObjectOK(heap', Len(heap) + 1, o)  BY <1>1, <1>5 DEF ObjectOK
<1> QED BY <1>4, <1>6

LEMMA EvalReturned ==
  ASSUME Coherent, Alive, stack # << >>, NEW T, Saved(T), NEW v, Kept(v, heap'), EvalReturn(v)
  PROVE  AliveNext
BY Returned DEF EvalReturn

LEMMA ProcedureLooks == Coherent /\ Alive /\ CallsAreWhole /\ call_looking => AliveNext
<1> SUFFICES ASSUME Coherent, Alive, CallsAreWhole, call_looking PROVE AliveNext
  OBVIOUS
<1> DEFINE p == var.proc
<1>1. At("eval", "primitive") /\ p \in Looking /\ EvalReturn(Value(p)) /\ UNCHANGED heap
  BY DEF call_looking
<1>2. HeapOK(heap) /\ Kept(args, heap)  BY <1>1, EvalAt DEF args
<1>3. ASSUME p \in {car_procedure, cdr_procedure}
      PROVE  Kept(car(car(args)), heap) /\ Kept(cdr(car(args)), heap)
  <2>1. Pairs(args, 1) /\ Pairs(car(args), 1)  BY <1>1, <1>3 DEF CallsAreWhole
  <2>2. Kept(car(args), heap)  BY <1>2, <2>1, PairsKept
  <2> QED BY <1>2, <2>1, <2>2, PairsKept
<1>4. Kept(true, heap) /\ Kept(false, heap)  BY ValuesKept
<1> DEFINE x == Truth(car(args) = the_empty_list)
           y == Truth(Same(car(args), cadr(args)))
<1>5. x \in {true, false}  BY DEF Truth
<1>6. y \in {true, false}  BY DEF Truth
<1>7. Kept(x, heap) /\ Kept(y, heap)
  <2> HIDE DEF x, y
  <2> QED BY <1>4, <1>5, <1>6
<1> DEFINE u == car(car(args))
           z == cdr(car(args))
<1>8. Value(p) = CASE p = car_procedure -> u
                   [] p = cdr_procedure -> z
                   [] p = list_procedure -> args
                   [] p = is_empty_procedure -> x
                   [] p = is_eq_procedure -> y
  BY DEF Value
<1>9. /\ p = car_procedure => Kept(u, heap)
      /\ p = cdr_procedure => Kept(z, heap)
  BY <1>3
<1>10. \/ p = car_procedure \/ p = cdr_procedure \/ p = list_procedure
       \/ p = is_empty_procedure \/ p = is_eq_procedure
  BY <1>1 DEF Looking
<1> HIDE DEF u, z, x, y, p
<1>11. Kept(Value(p), heap)
  BY <1>2, <1>7, <1>8, <1>9, <1>10
<1> QED BY <1>1, <1>11, EvalReturns

LEMMA ProcedureSets ==
  ASSUME Coherent, Alive, WellFormed, call_set_car \/ call_set_cdr
  PROVE  AliveNext
<1> DEFINE a == car(args)
           b == cadr(args)
           q == heap[a]
<1>1. /\ At("eval", "primitive") /\ var.proc \in {set_car_procedure, set_cdr_procedure}
      /\ EvalReturn(ok_symbol)
  BY DEF call_set_car, call_set_cdr
<1>2. stack # << >> /\ Top.fn = "eval" /\ HeapOK(heap) /\ Kept(args, heap)  BY <1>1, EvalAt DEF args
<1>3. Pairs(args, 2) /\ Pairs(a, 1)  BY <1>1 DEF WellFormed, CallsAreWhole
<1>4. Kept(a, heap) /\ Kept(b, heap)  BY <1>2, <1>3, PairsKept
<1>5. WholePair(heap, a)  BY <1>2, <1>3, <1>4, PairsFacts
<1>6. /\ a \in 1..Len(heap) /\ q # Freed /\ q.kind = "pair" /\ q = Pair(q.car, q.cdr)
      /\ Kept(q.car, heap) /\ Kept(q.cdr, heap)
  BY <1>5 DEF WholePair
<1>7. Kept(ok_symbol, heap')  BY ValuesKept, NamedSymbols
<1>8. Top.fn \notin Building  BY <1>2, EvalShape
<1>9. \A f, s : Pair(f, s).kind = "pair" /\ Pair(f, s).car = f /\ Pair(f, s).cdr = s /\ Pair(f, s) # Freed
  BY DEF Pair, Freed
<1>10. Behind(q) = {q.cdr} /\ \A f, s : Behind(Pair(f, s)) = {s}  BY <1>6, <1>9 DEF Behind
<1>11. CASE call_set_car
  <2> DEFINE o == Pair(b, q.cdr)
  <2>1. heap' = [heap EXCEPT ![a].car = b]  BY <1>11 DEF call_set_car
  <2>2. [q EXCEPT !.car = b] = o
    <3> HIDE DEF q, b
    <3> QED BY <1>6 DEF Pair
  <2>3. heap' = [heap EXCEPT ![a] = o]  BY <2>1, <2>2
  <2>4. o.kind = "pair" /\ o.car = b /\ o.cdr = q.cdr /\ o # Freed /\ Behind(q) = Behind(o)
    BY <1>9, <1>10
  <2>5. o = Pair(o.car, o.cdr)  BY <2>4
  <2> HIDE DEF o, a, b
  <2>6. Updates(heap, heap', a, o)  BY <1>6, <2>3, <2>4 DEF Updates
  <2>7. ObjectOK(heap, a, o)  BY <1>4, <1>6, <2>4, <2>5 DEF ObjectOK
  <2>8. Saved(DOMAIN heap)  BY <1>2, <1>8, <2>4, <2>6, <2>7, UpdateSteps
  <2> QED BY <1>1, <1>2, <1>7, <2>8, EvalReturned
<1>12. CASE call_set_cdr
  <2> DEFINE o == Pair(q.car, b)
             P == [c \in Addr |-> Behind(heap[c])]
  <2>1. heap' = [heap EXCEPT ![a].cdr = b] /\ var.proc = set_cdr_procedure  BY <1>12 DEF call_set_cdr
  <2>2. [q EXCEPT !.cdr = b] = o
    <3> HIDE DEF q, b
    <3> QED BY <1>6 DEF Pair
  <2>3. heap' = [heap EXCEPT ![a] = o]  BY <2>1, <2>2
  <2>4. o.kind = "pair" /\ o.car = q.car /\ o.cdr = b /\ o # Freed  BY <1>9
  <2>5. o = Pair(o.car, o.cdr)  BY <2>4
  <2>6. ASSUME NEW r \in OperandsNow PROVE a \notin Spine(heap, r)
    <3>1. PICK i \in 1..Len(stack) : r \in OperandsOf(stack[i])
      BY DEF OperandsNow, OperandsUpTo
    <3>2. stack[i].fn = "eval" /\ stack[i].at = "args" /\ r = stack[i].var.exp
      BY <3>1 DEF OperandsOf
    <3>3. a \notin Marked(P, {r})  BY <1>1, <2>1, <3>2 DEF WellFormed, OperandsStay
    <3>4. DOMAIN P = DOMAIN heap /\ \A c \in DOMAIN heap : P[c] = Behind(heap[c])  BY DEF Addr
    <3>5. IsFiniteSet(DOMAIN P)  BY <1>2, <3>4, HeapFacts, FS_Interval
    <3> HIDE DEF P
    <3> DEFINE M == Marked(P, {r})
    <3>6. {r} \intersect DOMAIN P \subseteq M /\ M \subseteq DOMAIN P /\ \A c \in M : P[c] \intersect DOMAIN P \subseteq M
      BY <3>5, MarkedFacts DEF ClosedUnder
    <3> HIDE DEF M
    <3>7. /\ M \in SUBSET DOMAIN heap /\ (r \in DOMAIN heap => r \in M)
          /\ \A c \in M : Behind(heap[c]) \intersect DOMAIN heap \subseteq M
      BY <3>4, <3>6
    <3>8. Spine(heap, r) \subseteq M  BY <3>7, SpineFacts
    <3> QED BY <3>3, <3>8 DEF M
  <2> HIDE DEF o, a, b
  <2>7. Updates(heap, heap', a, o)  BY <1>6, <2>3, <2>4 DEF Updates
  <2>8. ObjectOK(heap, a, o)  BY <1>4, <1>6, <2>4, <2>5 DEF ObjectOK
  <2>9. Saved(DOMAIN heap)  BY <1>2, <1>8, <2>6, <2>7, <2>8, UpdateSteps
  <2> QED BY <1>1, <1>2, <1>7, <2>9, EvalReturned
<1> QED BY <1>11, <1>12

LEMMA ProcedureAllocates ==
  ASSUME Coherent, Alive, CallsAreWhole,
         call_cons \/ call_add \/ call_interaction_environment \/ call_null_environment_wrap
  PROVE  AliveNext
<1>1. EvalReturn(NewAddr) /\ (At("eval", "primitive") \/ At("eval", "wrap"))
  BY DEF call_cons, call_add, call_interaction_environment, call_null_environment_wrap
<1>2. /\ stack # << >> /\ Top.fn = "eval" /\ HeapOK(heap) /\ Kept(args, heap) /\ var = Top.var
      /\ IsBindings(env, heap)
  BY <1>1, EvalAt DEF args, EnvironmentsOK
<1>3. \E T : Saved(T) /\ Kept(NewAddr, heap')
  <2>1. CASE call_cons
    <3>1. At("eval", "primitive") /\ var.proc = cons_procedure /\ cons(car(args), cadr(args))
      BY <2>1 DEF call_cons
    <3>2. Pairs(args, 2)  BY <3>1 DEF CallsAreWhole
    <3>3. Kept(car(args), heap) /\ Kept(cadr(args), heap)  BY <1>2, <3>2, PairsKept
    <3> QED BY <1>2, <3>1, <3>3, ConsSteps
  <2>2. CASE call_add
    <3> DEFINE sum == FoldSeq(LAMBDA p, total : heap[p].value + total, 0, Elements(args))
    <3>1. gc_alloc(Number(sum), {})  BY <2>2 DEF call_add, make_number
    <3> HIDE DEF sum
    <3>2. Number(sum).kind \in {"number", "character", "string"}  BY DEF Number
    <3> QED BY <1>2, <3>1, <3>2, PlainSteps
  <2>3. CASE call_interaction_environment
    <3>1. make_environment(TopLevel)  BY <2>3 DEF call_interaction_environment
    <3>2. IsBindings(TopLevel, heap)  BY <1>2, TopLevelFacts
    <3> QED BY <1>2, <3>1, <3>2, EnvironmentSteps
  <2>4. CASE call_null_environment_wrap
    <3>1. At("eval", "wrap") /\ make_environment(args)  BY <2>4 DEF call_null_environment_wrap
    <3>2. Top.at = "wrap"  BY <3>1, EvalAt
    <3>3. IsBindings(args, heap)  BY <1>2, <3>2, EvalTop DEF args
    <3> QED BY <1>2, <3>1, <3>3, EnvironmentSteps
  <2>5. call_cons \/ call_add \/ call_interaction_environment \/ call_null_environment_wrap  OBVIOUS
  <2> QED BY <2>1, <2>2, <2>3, <2>4, <2>5
<1> QED BY <1>1, <1>2, <1>3, EvalReturned

LEMMA EnvironmentCreated ==
  ASSUME Coherent, Alive, At("eval", "primitive"), NEW b, \A x \in DOMAIN b : b[x] \in Outside,
         environment_create(NULL, b), Goto("wrap", [var EXCEPT !.proc = NULL, !.args = NewAddr]),
         UNCHANGED <<env, environment_stack>>
  PROVE  AliveNext
<1> DEFINE w == var
           v == [w EXCEPT !.proc = NULL, !.args = NewAddr]
           f == Continue("wrap", v)
           o == Bindings(NULL, b)
<1>1. /\ At("eval", "primitive") /\ gc_alloc(o, {})
      /\ stack' = TopBecomes(f) /\ ret' = NULL /\ UNCHANGED <<env, environment_stack>>
  BY DEF environment_create, Goto
<1>2. /\ stack # << >> /\ Top.fn = "eval" /\ HeapOK(heap) /\ w = EvalVar(exp, w.proc, w.args)
      /\ w = Top.var /\ Kept(exp, heap)
  BY <1>1, EvalAt
<1>3. v = EvalVar(exp, NULL, NewAddr)
  <2>1. w = EvalVar(w.exp, w.proc, w.args) /\ w.exp = exp  BY <1>2 DEF exp
  <2> DEFINE u == [w EXCEPT !.proc = NULL]
  <2>2. v = [u EXCEPT !.args = NewAddr]  OBVIOUS
  <2> HIDE DEF v, w
  <2>3. u = EvalVar(w.exp, NULL, w.args)  BY <2>1, EvalVarFacts
  <2> HIDE DEF u
  <2>4. [u EXCEPT !.args = NewAddr] = EvalVar(w.exp, NULL, NewAddr)  BY <2>3 DEF EvalVar
  <2> QED BY <2>1, <2>2, <2>4
<1>4. f.fn = "eval" /\ f.at = "wrap" /\ f.var = v  BY <1>2, ContinueIs
<1>5. o.kind = "bindings" /\ o.parent = NULL /\ o.bindings = b /\ o = Bindings(o.parent, o.bindings)
  BY DEF Bindings
<1>6. o # Freed  BY <1>5 DEF Freed
<1>7. exp \in RootedOf(Top)  BY <1>2, EvalShape DEF exp
<1>8. "wrap" \in Used /\ "wrap" \notin Extending  BY DEF Used, Extending
<1> HIDE DEF o, v, f, w
<1>9. PICK T : /\ Allocs(heap, heap', T, o) /\ Lives(T, {})
               /\ ObjectOK(heap', Len(heap) + 1, o) => Saved(T)
               /\ \A u : Stays(heap, heap', T, u)
               /\ Kept(NewAddr, heap')
  BY <1>1, <1>2, <1>6, AllocSteps
<1>10. \A x \in DOMAIN o.bindings : Kept(o.bindings[x], heap')  BY <1>5, OutsideFacts
<1>11. ObjectOK(heap', Len(heap) + 1, o)  BY <1>5, <1>10 DEF ObjectOK
<1>12. Saved(T)  BY <1>9, <1>11
<1>13. Kept(exp, heap')
  <2>1. Here(T, heap, exp)  BY <1>2, <1>7, <1>9, RootedTop
  <2> QED BY <2>1, <1>2, <1>9 DEF Stays
<1>14. IsBindings(NewAddr, heap')
  BY <1>2, <1>5, <1>9, HeapFacts DEF Allocs, Grows, IsBindings, NewAddr
<1>15. EnvironmentsOK(heap', env', environment_stack')  BY <1>1, <1>12 DEF Saved
<1> QED BY <1>1, <1>2, <1>3, <1>4, <1>8, <1>9, <1>12, <1>13, <1>14, <1>15, NullKept, EvalGoes

LEMMA ProcedureNull == Coherent /\ Alive /\ call_null_environment => AliveNext
<1> SUFFICES ASSUME Coherent, Alive, call_null_environment PROVE AliveNext
  OBVIOUS
<1> DEFINE b == << >>
<1>1. /\ At("eval", "primitive") /\ environment_create(NULL, b)
      /\ Goto("wrap", [var EXCEPT !.proc = NULL, !.args = NewAddr])
      /\ UNCHANGED <<env, environment_stack>>
  BY DEF call_null_environment, others
<1>2. \A x \in DOMAIN b : b[x] \in Outside  OBVIOUS
<1> HIDE DEF b
<1> QED BY <1>1, <1>2, EnvironmentCreated

LEMMA ProcedureSpecial == Coherent /\ Alive /\ call_special => AliveNext
BY AtFacts, Exited DEF call_special

LEMMA ProcedureKeepsAlive == Coherent /\ Alive /\ WellFormed /\ Procedure => AliveNext
BY ProcedureLooks, ProcedureSets, ProcedureAllocates, ProcedureNull, ProcedureSpecial
   DEF WellFormed, Procedure

-----------------------------------------------------------------------------
(* The functions that build expressions *)

LEMMA PartStays ==
  ASSUME Coherent, Alive, stack # << >>, NEW T, Moved(heap, heap', stack, T, RootedNow),
         NEW R, R \subseteq RootedNow, NEW v, Kept(v, heap), PartOf(heap, R, v)
  PROVE  Kept(v, heap') /\ PartOf(heap', R, v)
<1>1. Steady(heap, heap', T, RootedNow, OperandsNow, RootedNow)
  BY DEF Moved, RootedNow, OperandsNow
<1>2. CASE v \notin Nat  BY <1>2, NoAddressStays DEF PartOf
<1>3. CASE v \in Nat
  <2>1. PICK r \in R : v \in Parts(heap, r)  BY <1>3 DEF PartOf
  <2>2. Parts(heap, r) \subseteq T  BY <2>1, <1>1, HeldIsThere
  <2>3. v \in Parts(heap', r)  BY <2>1, <1>1 DEF Steady
  <2>4. Kept(v, heap')  BY <2>1, <2>2, <1>1 DEF Steady
  <2> QED BY <2>1, <2>3, <2>4 DEF PartOf
<1> QED BY <1>2, <1>3

LEMMA PartOfMore ==
  ASSUME NEW h, NEW R, NEW P, NEW v, PartOf(h, R, v), R \subseteq P
  PROVE  PartOf(h, P, v)
BY DEF PartOf

LEMMA NoPart == \A h, R : \A v \in Outside : Kept(v, h) /\ PartOf(h, R, v)
BY OutsideFacts DEF PartOf

LEMMA SymbolsAreNoParts ==
  \A v \in {NULL, true, false, the_empty_list, define_symbol, if_symbol, lambda_symbol, begin_symbol} :
    v \in Outside /\ v \notin Nat
BY ValuesAreNoAddresses, NamedSymbols DEF Outside

LEMMA LongTuples ==
  /\ \A x, y, z, u : LET s == <<x, y, z, u>> IN
       IsSeq(s) /\ Len(s) = 4 /\ s[1] = x /\ s[2] = y /\ s[3] = z /\ s[4] = u
  /\ \A x, y, z, u, v : LET s == <<x, y, z, u, v>> IN
       IsSeq(s) /\ Len(s) = 5 /\ s[1] = x /\ s[2] = y /\ s[3] = z /\ s[4] = u /\ s[5] = v
<1>1. ASSUME NEW x, NEW y, NEW z, NEW u PROVE IsSeq(<<x, y, z, u>>)
  <2>1. <<x, y, z, u>> \in Seq({x, y, z, u})  OBVIOUS
  <2> QED BY <2>1, AnySeq
<1>2. ASSUME NEW x, NEW y, NEW z, NEW u, NEW v PROVE IsSeq(<<x, y, z, u, v>>)
  <2>1. <<x, y, z, u, v>> \in Seq({x, y, z, u, v})  OBVIOUS
  <2> QED BY <2>1, AnySeq
<1> QED BY <1>1, <1>2

(* What the pairs at a part of an expression point to. *)
LEMMA PartOfPairs ==
  ASSUME HeapOK(heap), NEW R, NEW p, Kept(p, heap), PartOf(heap, R, p), NEW n \in 1..4, Pairs(p, n)
  PROVE  /\ PartOf(heap, R, car(p)) /\ PartOf(heap, R, cdr(p))
         /\ n > 1 => PartOf(heap, R, cadr(p)) /\ PartOf(heap, R, cddr(p))
<1>1. WholePair(heap, p) /\ (n > 1 => WholePair(heap, cdr(p)))  BY PairsFacts
<1>2. PartOf(heap, R, car(p)) /\ PartOf(heap, R, cdr(p))  BY <1>1, PartOfPair
<1>3. ASSUME n > 1 PROVE PartOf(heap, R, cadr(p)) /\ PartOf(heap, R, cddr(p))
  BY <1>1, <1>2, <1>3, PartOfPair DEF cadr, cddr
<1> QED BY <1>2, <1>3

LEMMA BuildingTop ==
  ASSUME Coherent, Alive, NEW fn \in Building, NEW at, At(fn, at)
  PROVE  /\ stack # << >> /\ Top.fn = fn /\ Top.at = at /\ HeapOK(heap) /\ Kept(ret, heap)
         /\ Shape(Top) /\ EnvironmentsOK(heap, env, environment_stack)
         /\ RootedBefore \subseteq RootedNow /\ RootedOf(Top) \subseteq RootedNow
         /\ \A x \in DOMAIN Top.var :
              /\ Kept(Top.var[x], heap)
              /\ \/ x \in Loose(Top)
                 \/ PartOf(heap, RootedBefore, Top.var[x])
                 \/ \E k \in 1..Len(RootNames(Top)) : x = RootNames(Top)[k]
<1>1. stack # << >> /\ Top.fn = fn /\ Top.at = at  BY AtFacts
<1>2. /\ HeapOK(heap) /\ Kept(ret, heap) /\ EnvironmentsOK(heap, env, environment_stack)
      /\ Runs(heap, RootedBefore, OperandsBefore, Top)
      /\ RootedBefore \subseteq RootedNow /\ RootedOf(Top) \subseteq RootedNow
  BY <1>1, AliveFacts
<1>3. Top.fn # "list_of_values"  BY <1>1 DEF Building
<1>4. ASSUME NEW x \in DOMAIN Top.var
      PROVE  /\ Kept(Top.var[x], heap)
             /\ \/ x \in Loose(Top)
                \/ PartOf(heap, RootedBefore, Top.var[x])
                \/ \E k \in 1..Len(RootNames(Top)) : x = RootNames(Top)[k]
  <2>1. Kept(Top.var[x], heap) /\ (x \in Loose(Top) \/ Held(heap, RootedBefore, OperandsBefore, Top, x))
    BY <1>1, <1>2 DEF Runs, Safe, Building
  <2>2. Held(heap, RootedBefore, OperandsBefore, Top, x)
        => \/ PartOf(heap, RootedBefore, Top.var[x])
           \/ \E k \in 1..Len(RootNames(Top)) : x = RootNames(Top)[k]
    BY <1>3 DEF Held, PartOf
  <2> QED BY <2>1, <2>2
<1> QED BY <1>1, <1>2, <1>4 DEF Runs

LEMMA FrameRuns ==
  ASSUME NEW h, NEW R, NEW Q, NEW f, Shape(f), f.fn \in Building,
         \A x \in DOMAIN f.var :
           /\ Kept(f.var[x], h)
           /\ \/ x \in Loose(f)
              \/ PartOf(h, R, f.var[x])
              \/ \E k \in 1..Len(RootNames(f)) : x = RootNames(f)[k]
  PROVE  Runs(h, R, Q, f) /\ (Loose(f) = {} => Waits(h, R, Q, f))
<1>1. ~ InProcedure(f) /\ ~ Wraps(f)  BY DEF InProcedure, Wraps, Building
<1>2. ASSUME NEW x \in DOMAIN f.var
      PROVE  Kept(f.var[x], h) /\ (x \in Loose(f) \/ Held(h, R, Q, f, x))
  <2>1. PartOf(h, R, f.var[x]) => Held(h, R, Q, f, x)  BY HeldByPart
  <2>2. (\E k \in 1..Len(RootNames(f)) : x = RootNames(f)[k]) => Held(h, R, Q, f, x)  BY DEF Held
  <2> QED BY <2>1, <2>2
<1> QED BY <1>1, <1>2 DEF Runs, Waits, Safe

-----------------------------------------------------------------------------
(* transform_complex_define *)

LEMMA DefineTop ==
  ASSUME Coherent, Alive, NEW at, At("transform_complex_define", at)
  PROVE  /\ stack # << >> /\ Top.fn = "transform_complex_define" /\ HeapOK(heap) /\ Kept(ret, heap)
         /\ var = [exp |-> exp] /\ var = Top.var
         /\ Kept(exp, heap) /\ PartOf(heap, RootedBefore, exp)
<1>1. "transform_complex_define" \in Building  BY DEF Building
<1> DEFINE f == Top
<1>2. /\ stack # << >> /\ f.fn = "transform_complex_define" /\ HeapOK(heap) /\ Kept(ret, heap) /\ Shape(f)
      /\ \A x \in DOMAIN f.var :
           /\ Kept(f.var[x], heap)
           /\ \/ x \in Loose(f)
              \/ PartOf(heap, RootedBefore, f.var[x])
              \/ \E k \in 1..Len(RootNames(f)) : x = RootNames(f)[k]
  BY <1>1, BuildingTop
<1>3. var = f.var /\ exp = f.var.exp  BY DEF var, exp
<1> HIDE DEF f
<1>4. f.var = [exp |-> f.var.exp]  BY <1>2 DEF Shape
<1>5. "exp" \in DOMAIN f.var  BY <1>4
<1>6. Loose(f) = {} /\ RootNames(f) = << >>  BY <1>2, NamesOfOthers DEF Loose
<1>7. Len(RootNames(f)) = 0  BY <1>6
<1>8. Kept(f.var.exp, heap) /\ PartOf(heap, RootedBefore, f.var.exp)  BY <1>2, <1>5, <1>6, <1>7
<1> QED BY <1>2, <1>3, <1>4, <1>8 DEF f

LEMMA DefineWaits ==
  ASSUME NEW h, NEW R, NEW Q, NEW f, f.fn = "transform_complex_define", NEW x, f.var = [exp |-> x],
         Kept(x, h), PartOf(h, R, x)
  PROVE  Waits(h, R, Q, f)
<1>1. f.fn \in Building /\ Shape(f) /\ Loose(f) = {}  BY DEF Building, Shape, Loose
<1>2. \A z \in DOMAIN f.var : Kept(f.var[z], h) /\ PartOf(h, R, f.var[z])  OBVIOUS
<1> QED BY <1>1, <1>2, FrameRuns

LEMMA DefineLambda == Coherent /\ Alive /\ RewritesAreWhole /\ complex_define_lambda => AliveNext
<1> SUFFICES ASSUME Coherent, Alive, RewritesAreWhole, complex_define_lambda PROVE AliveNext
  OBVIOUS
<1> DEFINE params == cdr(cadr(exp))
           body == cddr(exp)
           s == <<lambda_symbol, params, body>>
           e == Conses(s)
           f == Continue("lambda", var)
<1>1. /\ At("transform_complex_define", "start") /\ Call("lambda", var, e) /\ heap' = heap
      /\ UNCHANGED <<env, environment_stack>>
  BY DEF complex_define_lambda, Invoke, OnlyTheStack, others
<1>2. /\ stack # << >> /\ Top.fn = "transform_complex_define" /\ HeapOK(heap) /\ Kept(exp, heap)
      /\ var = [exp |-> exp] /\ PartOf(heap, RootedBefore, exp)
  BY <1>1, DefineTop
<1>3. Pairs(exp, 2) /\ Pairs(cadr(exp), 1)  BY <1>1 DEF RewritesAreWhole
<1>4. Kept(cadr(exp), heap) /\ Kept(body, heap)  BY <1>2, <1>3, PairsKept
<1>5. Kept(params, heap)  BY <1>2, <1>3, <1>4, PairsKept
<1>6. f.fn = "transform_complex_define" /\ f.var = var  BY <1>2, ContinueIs
<1> HIDE DEF f, params, body
<1>7. Waits(heap, RootedBefore, OperandsBefore, f)  BY <1>2, <1>6, DefineWaits
<1>8. IsSeq(s) /\ Len(s) = 3 /\ s[1] = lambda_symbol /\ s[2] = params /\ s[3] = body  BY Tuples
<1>9. \A k \in 1..3 : k = 1 \/ k = 2 \/ k = 3  OBVIOUS
<1>10. \A R : Kept(lambda_symbol, heap) /\ PartOf(heap, R, lambda_symbol)  BY SymbolsAreNoParts, NoPart
<1> HIDE DEF s
<1>11. \A k \in 1..Len(s) : Kept(s[k], heap)  BY <1>4, <1>5, <1>8, <1>9, <1>10
<1>12. \A R : \A k \in 1..(Len(s) - 2) : PartOf(heap, R, s[k])  BY <1>8, <1>10
<1>13. \A R, Q : Runs(heap, R, Q, e)  BY <1>8, <1>11, <1>12, ConsesRun
<1>14. e.fn \in Building  BY DEF Conses, Frame, Building
<1> HIDE DEF e
<1> QED BY <1>1, <1>2, <1>7, <1>13, <1>14, Invokes DEF f

LEMMA DefineDefine == Coherent /\ Alive /\ RewritesAreWhole /\ complex_define_define => AliveNext
<1> SUFFICES ASSUME Coherent, Alive, RewritesAreWhole, complex_define_define PROVE AliveNext
  OBVIOUS
<1> DEFINE name == car(cadr(exp))
           s == <<define_symbol, name, ret, the_empty_list>>
           e == Conses(s)
           v == [exp |-> NULL]
           f == Continue("define", v)
           R == RootedBefore \union RootedOf(f)
<1>1. /\ At("transform_complex_define", "lambda") /\ Call("define", v, e) /\ heap' = heap
      /\ UNCHANGED <<env, environment_stack>>
  BY DEF complex_define_define, Invoke, OnlyTheStack, others
<1>2. /\ stack # << >> /\ Top.fn = "transform_complex_define" /\ HeapOK(heap) /\ Kept(exp, heap)
      /\ Kept(ret, heap) /\ PartOf(heap, RootedBefore, exp)
  BY <1>1, DefineTop
<1>3. Pairs(exp, 2) /\ Pairs(cadr(exp), 1)  BY <1>1 DEF RewritesAreWhole
<1>4. Kept(cadr(exp), heap) /\ PartOf(heap, RootedBefore, cadr(exp))
  BY <1>2, <1>3, PairsKept, PartOfPairs
<1>5. Kept(name, heap) /\ PartOf(heap, RootedBefore, name)  BY <1>2, <1>3, <1>4, PairsKept, PartOfPairs
<1>6. f.fn = "transform_complex_define" /\ f.var = v  BY <1>2, ContinueIs
<1> HIDE DEF f, name
<1>7. Waits(heap, RootedBefore, OperandsBefore, f)
  BY <1>6, SymbolsAreNoParts, NoPart, DefineWaits
<1>8. IsSeq(s) /\ Len(s) = 4 /\ s[1] = define_symbol /\ s[2] = name /\ s[3] = ret /\ s[4] = the_empty_list
  BY LongTuples
<1>9. (\A k \in 1..4 : k = 1 \/ k = 2 \/ k = 3 \/ k = 4) /\ (\A k \in 1..2 : k = 1 \/ k = 2)  OBVIOUS
<1>10. /\ Kept(define_symbol, heap) /\ PartOf(heap, R, define_symbol) /\ Kept(the_empty_list, heap)
  BY SymbolsAreNoParts, NoPart
<1>11. PartOf(heap, R, name)  BY <1>5, PartOfMore
<1> HIDE DEF s, R
<1>12. \A k \in 1..Len(s) : Kept(s[k], heap)  BY <1>2, <1>5, <1>8, <1>9, <1>10
<1>13. \A k \in 1..(Len(s) - 2) : PartOf(heap, R, s[k])  BY <1>8, <1>9, <1>10, <1>11
<1>14. \A Q : Runs(heap, R, Q, e)  BY <1>8, <1>12, <1>13, ConsesRun
<1>15. e.fn \in Building  BY DEF Conses, Frame, Building
<1> HIDE DEF e, v
<1> QED BY <1>1, <1>2, <1>7, <1>14, <1>15, Invokes DEF f, R

-----------------------------------------------------------------------------
(* transform_cond_clauses_to_nested_if *)

CondVar(c, d, e) == [cond_clauses |-> c, condition |-> d, exp |-> e]
LEMMA CondVarFacts ==
  /\ \A c, d, e : /\ CondVar(c, d, e).cond_clauses = c /\ CondVar(c, d, e).condition = d
                  /\ CondVar(c, d, e).exp = e
                  /\ DOMAIN CondVar(c, d, e) = {"cond_clauses", "condition", "exp"}
  /\ \A v : v = CondVar(v.cond_clauses, v.condition, v.exp) =>
       \A c, d, e : /\ [v EXCEPT !.cond_clauses = c] = CondVar(c, v.condition, v.exp)
                    /\ [v EXCEPT !.condition = d] = CondVar(v.cond_clauses, d, v.exp)
                    /\ [v EXCEPT !.exp = e] = CondVar(v.cond_clauses, v.condition, e)
BY DEF CondVar

LEMMA CondTop ==
  ASSUME Coherent, Alive, NEW at, At("transform_cond_clauses", at)
  PROVE  /\ stack # << >> /\ Top.fn = "transform_cond_clauses" /\ Top.at = at
         /\ HeapOK(heap) /\ Kept(ret, heap) /\ EnvironmentsOK(heap, env, environment_stack)
         /\ var = CondVar(var.cond_clauses, var.condition, exp) /\ var = Top.var /\ exp = var.exp
         /\ Kept(var.cond_clauses, heap) /\ Kept(var.condition, heap) /\ Kept(exp, heap)
         /\ PartOf(heap, RootedBefore, var.cond_clauses)
         /\ PartOf(heap, RootedBefore, var.condition)
         /\ RootedBefore \subseteq RootedNow
<1>1. "transform_cond_clauses" \in Building  BY DEF Building
<1> DEFINE f == Top
<1>2. /\ stack # << >> /\ f.fn = "transform_cond_clauses" /\ f.at = at /\ HeapOK(heap) /\ Kept(ret, heap)
      /\ Shape(f) /\ EnvironmentsOK(heap, env, environment_stack) /\ RootedBefore \subseteq RootedNow
      /\ \A x \in DOMAIN f.var :
           /\ Kept(f.var[x], heap)
           /\ \/ x \in Loose(f)
              \/ PartOf(heap, RootedBefore, f.var[x])
              \/ \E k \in 1..Len(RootNames(f)) : x = RootNames(f)[k]
  BY <1>1, BuildingTop
<1>3. var = f.var /\ exp = f.var.exp  BY DEF var, exp
<1> HIDE DEF f
<1>4. f.var = CondVar(f.var.cond_clauses, f.var.condition, f.var.exp)  BY <1>2 DEF Shape, CondVar
<1>5. DOMAIN f.var = {"cond_clauses", "condition", "exp"}  BY <1>4, CondVarFacts
<1>6. \A x \in Loose(f) : x = "exp"  BY <1>2 DEF Loose
<1>7. \A k \in 1..Len(RootNames(f)) : RootNames(f)[k] = "exp"
  <2>1. RootNames(f) = IF f.at \in {"rest", "if"} THEN <<"exp">> ELSE << >>  BY <1>2, NamesOfOthers
  <2>2. Len(<<"exp">>) = 1 /\ <<"exp">>[1] = "exp" /\ (\A k \in 1..1 : k = 1) /\ Len(<< >>) = 0
    OBVIOUS
  <2> QED BY <2>1, <2>2
<1>8. \A x \in {"cond_clauses", "condition"} : x \in DOMAIN f.var /\ x # "exp"  BY <1>5
<1>9. \A x \in {"cond_clauses", "condition"} : Kept(f.var[x], heap) /\ PartOf(heap, RootedBefore, f.var[x])
  BY <1>2, <1>6, <1>7, <1>8
<1>10. Kept(f.var.cond_clauses, heap) /\ Kept(f.var.condition, heap) /\ Kept(f.var.exp, heap)
  BY <1>2, <1>5, <1>9
<1>11. PartOf(heap, RootedBefore, f.var.cond_clauses) /\ PartOf(heap, RootedBefore, f.var.condition)
  BY <1>9
<1> QED BY <1>2, <1>3, <1>4, <1>10, <1>11 DEF f

LEMMA CondFrame ==
  ASSUME NEW h, NEW R, NEW Q, NEW f, f.fn = "transform_cond_clauses",
         NEW c, NEW d, NEW e, f.var = CondVar(c, d, e), f.at \in {"actions", "rest", "if"},
         Kept(c, h), Kept(d, h), Kept(e, h), PartOf(h, R, c), PartOf(h, R, d)
  PROVE  /\ Runs(h, R, Q, f) /\ (f.at # "actions" => Waits(h, R, Q, f) /\ e \in RootedOf(f))
         /\ f.fn \in Building
<1>1. f.fn \in Building /\ Shape(f)
  <2>1. f.fn \in Building  BY DEF Building
  <2>2. f.var.cond_clauses = c /\ f.var.condition = d /\ f.var.exp = e  BY CondVarFacts
  <2> QED BY <2>1, <2>2 DEF Shape, CondVar
<1>2. DOMAIN f.var = {"cond_clauses", "condition", "exp"} /\ f.var.cond_clauses = c /\ f.var.condition = d
      /\ f.var.exp = e
  BY CondVarFacts
<1>3. CASE f.at = "actions"
  <2>1. Loose(f) = {"exp"}  BY <1>3 DEF Loose
  <2>2. \A x \in DOMAIN f.var : Kept(f.var[x], h) /\ (x \in Loose(f) \/ PartOf(h, R, f.var[x]))
    BY <1>2, <2>1
  <2> QED BY <1>1, <1>3, <2>2, FrameRuns
<1>4. CASE f.at # "actions"
  <2>1. Loose(f) = {}  BY <1>4 DEF Loose
  <2>2. RootNames(f) = <<"exp">>  BY <1>4, NamesOfOthers
  <2>3. Len(RootNames(f)) = 1 /\ RootNames(f)[1] = "exp" /\ 1 \in 1..1  BY <2>2
  <2>4. \A x \in DOMAIN f.var :
          /\ Kept(f.var[x], h)
          /\ PartOf(h, R, f.var[x]) \/ \E k \in 1..Len(RootNames(f)) : x = RootNames(f)[k]
    BY <1>2, <2>3
  <2>5. e \in RootedOf(f)  BY <1>2, <2>3 DEF RootedOf
  <2> QED BY <1>1, <1>4, <2>1, <2>4, <2>5, FrameRuns
<1> QED BY <1>3, <1>4

(* The clause's actions are the expression, or are put in a begin.          *)
LEMMA CondActions == Coherent /\ Alive /\ RewritesAreWhole /\ cond_actions => AliveNext
<1> SUFFICES ASSUME Coherent, Alive, RewritesAreWhole, cond_actions PROVE AliveNext
  OBVIOUS
<1> DEFINE clauses == var.cond_clauses
           clause == car(clauses)
           acts == cdr(clause)
           direct == acts = the_empty_list \/ cdr(acts) = the_empty_list
           e == IF acts = the_empty_list THEN acts ELSE IF direct THEN car(acts) ELSE NewAddr
           v == [var EXCEPT !.condition = car(clause), !.exp = e]
           f == Continue("actions", v)
<1>1. /\ At("transform_cond_clauses", "start") /\ clauses # the_empty_list
      /\ IF direct THEN UNCHANGED heap ELSE cons(begin_symbol, acts)
      /\ stack' = TopBecomes(f) /\ ret' = NULL /\ UNCHANGED <<env, environment_stack>>
  BY DEF cond_actions, Goto, others
<1>2. /\ stack # << >> /\ Top.fn = "transform_cond_clauses" /\ HeapOK(heap)
      /\ EnvironmentsOK(heap, env, environment_stack)
      /\ var = CondVar(clauses, var.condition, exp) /\ exp = var.exp
      /\ Kept(clauses, heap) /\ PartOf(heap, RootedBefore, clauses)
      /\ RootedBefore \subseteq RootedNow
  BY <1>1, CondTop
<1>3. /\ Pairs(clauses, 1) /\ Pairs(clause, 1)
      /\ acts = the_empty_list \/ Pairs(clause, 2)
  BY <1>1 DEF RewritesAreWhole
<1>4. Kept(clause, heap) /\ PartOf(heap, RootedBefore, clause)  BY <1>2, <1>3, PairsKept, PartOfPairs
<1>5. Kept(acts, heap) /\ Kept(car(clause), heap) /\ PartOf(heap, RootedBefore, car(clause))
  BY <1>2, <1>3, <1>4, PairsKept, PartOfPairs
<1>6. acts # the_empty_list => Kept(car(acts), heap)
  BY <1>2, <1>3, <1>4, PairsKept DEF cadr
<1>7. v = CondVar(clauses, car(clause), e)
  <2> DEFINE w == var
             u == [w EXCEPT !.condition = car(clause)]
  <2>1. w = CondVar(w.cond_clauses, w.condition, w.exp) /\ w.cond_clauses = clauses  BY <1>2
  <2>2. v = [u EXCEPT !.exp = e]  OBVIOUS
  <2> HIDE DEF v, w, e, clause, clauses
  <2>3. u = CondVar(w.cond_clauses, car(clause), w.exp)  BY <2>1, CondVarFacts
  <2> HIDE DEF u
  <2>4. u = CondVar(u.cond_clauses, u.condition, u.exp) /\ u.cond_clauses = w.cond_clauses /\ u.condition = car(clause)
    BY <2>3, CondVarFacts
  <2>5. [u EXCEPT !.exp = e] = CondVar(u.cond_clauses, u.condition, e)  BY <2>4, CondVarFacts
  <2> QED BY <2>1, <2>2, <2>4, <2>5
<1>8. f.fn = "transform_cond_clauses" /\ f.at = "actions" /\ f.var = v  BY <1>2, ContinueIs
<1>9. direct => e = acts \/ (acts # the_empty_list /\ e = car(acts))  OBVIOUS
<1>10. ~ direct => e = NewAddr  OBVIOUS
<1>11. Kept(ret', heap')  BY <1>1, NullKept
<1> HIDE DEF v, f, e
<1>12. CASE direct
  <2>1. heap' = heap  BY <1>1, <1>12
  <2>2. Saved(DOMAIN heap)  BY <1>2, <2>1, HeapStays
  <2>3. Kept(e, heap)  BY <1>5, <1>6, <1>9, <1>12
  <2>4. Runs(heap', RootedBefore, OperandsBefore, f)
    BY <1>2, <1>5, <1>7, <1>8, <2>1, <2>3, CondFrame
  <2>5. EnvironmentsOK(heap', env', environment_stack')  BY <1>1, <1>2, <2>1
  <2> QED BY <1>1, <1>2, <1>8, <1>11, <2>2, <2>4, <2>5, Gone
<1>13. CASE ~ direct
  <2>1. cons(begin_symbol, acts)  BY <1>1, <1>13
  <2>2. Kept(begin_symbol, heap)  BY SymbolsAreNoParts, NoPart
  <2>3. PICK T : Saved(T) /\ Moved(heap, heap', stack, T, RootedNow) /\ Kept(NewAddr, heap')
    BY <1>2, <1>5, <2>1, <2>2, ConsSteps
  <2>4. Kept(clauses, heap') /\ PartOf(heap', RootedBefore, clauses)
    BY <1>2, <2>3, PartStays
  <2>5. Kept(car(clause), heap') /\ PartOf(heap', RootedBefore, car(clause))
    BY <1>2, <1>5, <2>3, PartStays
  <2>6. Runs(heap', RootedBefore, OperandsBefore, f)
    BY <1>7, <1>8, <1>10, <1>13, <2>3, <2>4, <2>5, CondFrame
  <2>7. EnvironmentsOK(heap', env', environment_stack')  BY <1>1, <2>3 DEF Saved
  <2> QED BY <1>1, <1>2, <1>8, <1>11, <2>3, <2>6, <2>7, Gone
<1> QED BY <1>12, <1>13

LEMMA CondRest == Coherent /\ Alive /\ RewritesAreWhole /\ cond_rest => AliveNext
<1> SUFFICES ASSUME Coherent, Alive, RewritesAreWhole, cond_rest PROVE AliveNext
  OBVIOUS
<1> DEFINE w == var
           clauses == w.cond_clauses
           v == [w EXCEPT !.cond_clauses = NULL]
           e == Frame("transform_cond_clauses", "start",
                      [cond_clauses |-> cdr(clauses), condition |-> NULL, exp |-> NULL])
           f == Continue("rest", v)
<1>1. /\ At("transform_cond_clauses", "actions") /\ Call("rest", v, e) /\ heap' = heap
      /\ UNCHANGED <<env, environment_stack>>
  BY DEF cond_rest, others
<1>2. /\ stack # << >> /\ Top.fn = "transform_cond_clauses" /\ HeapOK(heap)
      /\ w = CondVar(clauses, w.condition, exp) /\ exp = w.exp
      /\ Kept(clauses, heap) /\ Kept(w.condition, heap) /\ Kept(exp, heap)
      /\ PartOf(heap, RootedBefore, clauses) /\ PartOf(heap, RootedBefore, w.condition)
  BY <1>1, CondTop
<1>3. Pairs(clauses, 1)  BY <1>1 DEF RewritesAreWhole
<1>4. Kept(cdr(clauses), heap) /\ PartOf(heap, RootedBefore, cdr(clauses))
  BY <1>2, <1>3, PairsKept, PartOfPairs
<1>5. f.fn = "transform_cond_clauses" /\ f.at = "rest" /\ f.var = v  BY <1>2, ContinueIs
<1>6. v = CondVar(NULL, w.condition, exp)
  <2> HIDE DEF w
  <2> QED BY <1>2, CondVarFacts
<1>7. e.fn \in Building  BY DEF Frame, Building
<1>8. Kept(NULL, heap) /\ PartOf(heap, RootedBefore, NULL)  BY SymbolsAreNoParts, NoPart
<1> HIDE DEF v, f
<1>9. Waits(heap, RootedBefore, OperandsBefore, f)
  <2> HIDE DEF w
  <2> QED BY <1>2, <1>5, <1>6, <1>8, CondFrame
<1>10. PartOf(heap, RootedBefore \union RootedOf(f), cdr(clauses))  BY <1>4, PartOfMore
<1>11. \A Q : Runs(heap, RootedBefore \union RootedOf(f), Q, e)
  <2> HIDE DEF clauses
  <2> QED BY <1>4, <1>10, CondRuns
<1> HIDE DEF e
<1> QED BY <1>1, <1>2, <1>7, <1>9, <1>11, Invokes DEF f

LEMMA CondIf == Coherent /\ Alive /\ cond_if => AliveNext
<1> SUFFICES ASSUME Coherent, Alive, cond_if PROVE AliveNext
  OBVIOUS
<1> DEFINE w == var
           v == [w EXCEPT !.condition = NULL]
           s == <<if_symbol, w.condition, exp, ret, the_empty_list>>
           e == Conses(s)
           f == Continue("if", v)
           R == RootedBefore \union RootedOf(f)
<1>1. /\ At("transform_cond_clauses", "rest") /\ Call("if", v, e) /\ heap' = heap
      /\ UNCHANGED <<env, environment_stack>>
  BY DEF cond_if, Invoke, OnlyTheStack, others
<1>2. /\ stack # << >> /\ Top.fn = "transform_cond_clauses" /\ HeapOK(heap) /\ Kept(ret, heap)
      /\ w = CondVar(w.cond_clauses, w.condition, exp) /\ exp = w.exp
      /\ Kept(w.cond_clauses, heap) /\ Kept(w.condition, heap) /\ Kept(exp, heap)
      /\ PartOf(heap, RootedBefore, w.cond_clauses) /\ PartOf(heap, RootedBefore, w.condition)
  BY <1>1, CondTop
<1>3. f.fn = "transform_cond_clauses" /\ f.at = "if" /\ f.var = v  BY <1>2, ContinueIs
<1>4. v = CondVar(w.cond_clauses, NULL, exp)
  <2> HIDE DEF w
  <2> QED BY <1>2, CondVarFacts
<1>5. Kept(NULL, heap) /\ PartOf(heap, RootedBefore, NULL)  BY SymbolsAreNoParts, NoPart
<1>6. IsSeq(s) /\ Len(s) = 5 /\ s[1] = if_symbol /\ s[2] = w.condition /\ s[3] = exp /\ s[4] = ret
      /\ s[5] = the_empty_list
  BY LongTuples
<1> HIDE DEF v, f, w
<1>7. Waits(heap, RootedBefore, OperandsBefore, f) /\ exp \in RootedOf(f)
  BY <1>2, <1>3, <1>4, <1>5, CondFrame
<1>8. (\A k \in 1..5 : k = 1 \/ k = 2 \/ k = 3 \/ k = 4 \/ k = 5) /\ (\A k \in 1..3 : k = 1 \/ k = 2 \/ k = 3)
  OBVIOUS
<1>9. Kept(if_symbol, heap) /\ PartOf(heap, R, if_symbol) /\ Kept(the_empty_list, heap)
  BY SymbolsAreNoParts, NoPart
<1>10. PartOf(heap, R, w.condition) /\ PartOf(heap, R, exp)  BY <1>2, <1>7, PartOfMore, PartOfSelf
<1> HIDE DEF s, R
<1>11. \A k \in 1..Len(s) : Kept(s[k], heap)  BY <1>2, <1>6, <1>8, <1>9
<1>12. \A k \in 1..(Len(s) - 2) : PartOf(heap, R, s[k])  BY <1>6, <1>8, <1>9, <1>10
<1>13. \A Q : Runs(heap, R, Q, e)  BY <1>6, <1>11, <1>12, ConsesRun
<1>14. e.fn \in Building  BY DEF Conses, Frame, Building
<1> HIDE DEF e
<1> QED BY <1>1, <1>2, <1>7, <1>13, <1>14, Invokes DEF f, R

-----------------------------------------------------------------------------
(* transform_let_to_lambda *)

LetVar(l, b, v, i) == [let |-> l, bindings |-> b, vars |-> v, inits |-> i]
LEMMA LetVarFacts ==
  /\ \A l, b, v, i : /\ LetVar(l, b, v, i).let = l /\ LetVar(l, b, v, i).bindings = b
                     /\ LetVar(l, b, v, i).vars = v /\ LetVar(l, b, v, i).inits = i
                     /\ DOMAIN LetVar(l, b, v, i) = {"let", "bindings", "vars", "inits"}
  /\ \A w : w = LetVar(w.let, w.bindings, w.vars, w.inits) =>
       \A x : /\ [w EXCEPT !.let = x] = LetVar(x, w.bindings, w.vars, w.inits)
              /\ [w EXCEPT !.bindings = x] = LetVar(w.let, x, w.vars, w.inits)
              /\ [w EXCEPT !.vars = x] = LetVar(w.let, w.bindings, x, w.inits)
              /\ [w EXCEPT !.inits = x] = LetVar(w.let, w.bindings, w.vars, x)
BY DEF LetVar

LEMMA LetTop ==
  ASSUME Coherent, Alive, NEW at, At("transform_let", at)
  PROVE  /\ stack # << >> /\ Top.fn = "transform_let" /\ Top.at = at
         /\ HeapOK(heap) /\ Kept(ret, heap) /\ EnvironmentsOK(heap, env, environment_stack)
         /\ var = LetVar(var.let, var.bindings, var.vars, var.inits) /\ var = Top.var
         /\ Kept(var.let, heap) /\ Kept(var.bindings, heap) /\ Kept(var.vars, heap) /\ Kept(var.inits, heap)
         /\ PartOf(heap, RootedBefore, var.let) /\ PartOf(heap, RootedBefore, var.bindings)
         /\ at # "start" => var.vars \in RootedOf(Top) /\ var.inits \in RootedOf(Top)
         /\ RootedBefore \subseteq RootedNow
<1>1. "transform_let" \in Building  BY DEF Building
<1> DEFINE f == Top
           w == f.var
<1>2. /\ stack # << >> /\ f.fn = "transform_let" /\ f.at = at /\ HeapOK(heap) /\ Kept(ret, heap)
      /\ Shape(f) /\ EnvironmentsOK(heap, env, environment_stack) /\ RootedBefore \subseteq RootedNow
      /\ \A x \in DOMAIN f.var :
           /\ Kept(f.var[x], heap)
           /\ \/ x \in Loose(f)
              \/ PartOf(heap, RootedBefore, f.var[x])
              \/ \E k \in 1..Len(RootNames(f)) : x = RootNames(f)[k]
  BY <1>1, BuildingTop
<1>3. var = f.var  BY DEF var
<1> HIDE DEF f
<1>4. w = LetVar(w.let, w.bindings, w.vars, w.inits)  BY <1>2 DEF Shape, LetVar
<1>5. DOMAIN w = {"let", "bindings", "vars", "inits"}  BY <1>4, LetVarFacts
<1>6. Loose(f) = {}  BY <1>2 DEF Loose
<1>7. RootNames(f) = IF f.at = "start" THEN << >> ELSE <<"vars", "inits">>  BY <1>2, NamesOfOthers
<1>8. /\ Len(<<"vars", "inits">>) = 2 /\ <<"vars", "inits">>[1] = "vars" /\ <<"vars", "inits">>[2] = "inits"
      /\ (\A k \in 1..2 : k = 1 \/ k = 2) /\ 1 \in 1..2 /\ 2 \in 1..2 /\ Len(<< >>) = 0
  OBVIOUS
<1>9. \A k \in 1..Len(RootNames(f)) : RootNames(f)[k] = "vars" \/ RootNames(f)[k] = "inits"
  BY <1>7, <1>8
<1>10. \A x \in {"let", "bindings"} : x \in DOMAIN w /\ x # "vars" /\ x # "inits"  BY <1>5
<1>11. \A x \in {"let", "bindings"} : PartOf(heap, RootedBefore, w[x])
  BY <1>2, <1>6, <1>9, <1>10
<1>12. Kept(w.let, heap) /\ Kept(w.bindings, heap) /\ Kept(w.vars, heap) /\ Kept(w.inits, heap)
  BY <1>2, <1>5
<1>13. at # "start" => w.vars \in RootedOf(f) /\ w.inits \in RootedOf(f)
  BY <1>2, <1>7, <1>8 DEF RootedOf
<1>14. PartOf(heap, RootedBefore, w.let) /\ PartOf(heap, RootedBefore, w.bindings)  BY <1>11
<1> QED BY <1>2, <1>3, <1>4, <1>12, <1>13, <1>14 DEF f

LEMMA LetFrame ==
  ASSUME NEW h, NEW R, NEW Q, NEW f, f.fn = "transform_let", f.at # "start",
         NEW l, NEW b, NEW v, NEW i, f.var = LetVar(l, b, v, i),
         Kept(l, h), Kept(b, h), Kept(v, h), Kept(i, h), PartOf(h, R, l), PartOf(h, R, b)
  PROVE  Runs(h, R, Q, f) /\ Waits(h, R, Q, f) /\ v \in RootedOf(f) /\ i \in RootedOf(f)
<1>1. /\ DOMAIN f.var = {"let", "bindings", "vars", "inits"} /\ f.var.let = l /\ f.var.bindings = b
      /\ f.var.vars = v /\ f.var.inits = i
  BY LetVarFacts
<1>2. f.fn \in Building /\ Shape(f) /\ Loose(f) = {}  BY <1>1 DEF Building, Shape, LetVar, Loose
<1>3. RootNames(f) = <<"vars", "inits">>  BY NamesOfOthers
<1>4. Len(RootNames(f)) = 2 /\ RootNames(f)[1] = "vars" /\ RootNames(f)[2] = "inits" /\ 1 \in 1..2 /\ 2 \in 1..2
  BY <1>3
<1>5. \A x \in DOMAIN f.var :
        /\ Kept(f.var[x], h)
        /\ PartOf(h, R, f.var[x]) \/ \E k \in 1..Len(RootNames(f)) : x = RootNames(f)[k]
  BY <1>1, <1>4
<1>6. v \in RootedOf(f) /\ i \in RootedOf(f)  BY <1>1, <1>4 DEF RootedOf
<1> QED BY <1>2, <1>5, <1>6, FrameRuns

LEMMA LetStart == Coherent /\ Alive /\ let_start => AliveNext
<1> SUFFICES ASSUME Coherent, Alive, let_start PROVE AliveNext
  OBVIOUS
<1> DEFINE w == var
           v == [w EXCEPT !.vars = the_empty_list, !.inits = the_empty_list]
           f == Continue("var", v)
<1>1. /\ At("transform_let", "start") /\ stack' = TopBecomes(f) /\ ret' = NULL /\ heap' = heap
      /\ UNCHANGED <<env, environment_stack>>
  BY DEF let_start, Goto, others
<1>2. /\ stack # << >> /\ Top.fn = "transform_let" /\ HeapOK(heap)
      /\ EnvironmentsOK(heap, env, environment_stack)
      /\ w = LetVar(w.let, w.bindings, w.vars, w.inits)
      /\ Kept(w.let, heap) /\ Kept(w.bindings, heap)
      /\ PartOf(heap, RootedBefore, w.let) /\ PartOf(heap, RootedBefore, w.bindings)
  BY <1>1, LetTop
<1>3. v = LetVar(w.let, w.bindings, the_empty_list, the_empty_list)
  <2> DEFINE u == [w EXCEPT !.vars = the_empty_list]
  <2>1. v = [u EXCEPT !.inits = the_empty_list]  OBVIOUS
  <2> HIDE DEF v, w
  <2>2. u = LetVar(w.let, w.bindings, the_empty_list, w.inits)  BY <1>2, LetVarFacts
  <2> HIDE DEF u
  <2>3. u = LetVar(u.let, u.bindings, u.vars, u.inits) /\ u.let = w.let /\ u.bindings = w.bindings
        /\ u.vars = the_empty_list
    BY <2>2, LetVarFacts
  <2>4. [u EXCEPT !.inits = the_empty_list] = LetVar(u.let, u.bindings, u.vars, the_empty_list)
    BY <2>3, LetVarFacts
  <2> QED BY <2>1, <2>3, <2>4
<1>4. f.fn = "transform_let" /\ f.at = "var" /\ f.var = v  BY <1>2, ContinueIs
<1> HIDE DEF v, f, w
<1>5. Kept(the_empty_list, heap)  BY SymbolsAreNoParts, NoPart
<1>6. "var" # "start"  OBVIOUS
<1>7. Runs(heap', RootedBefore, OperandsBefore, f)  BY <1>1, <1>2, <1>3, <1>4, <1>5, <1>6, LetFrame
<1>8. Saved(DOMAIN heap)  BY <1>1, <1>2, HeapStays
<1>9. Kept(ret', heap') /\ EnvironmentsOK(heap', env', environment_stack')  BY <1>1, <1>2, NullKept
<1> QED BY <1>1, <1>2, <1>4, <1>7, <1>8, <1>9, Gone

(* A cell is added to the variables, or to their initial values.            *)
LEMMA LetGoes ==
  ASSUME Coherent, Alive, NEW at, At("transform_let", at), at # "start",
         NEW p, NEW q, Kept(p, heap), Kept(q, heap), cons(p, q), UNCHANGED <<env, environment_stack>>,
         NEW to, to # "start", NEW v, Goto(to, v),
         NEW b, Kept(b, heap), PartOf(heap, RootedBefore, b),
         \/ v = LetVar(var.let, b, NewAddr, var.inits)
         \/ v = LetVar(var.let, b, var.vars, NewAddr)
  PROVE  AliveNext
<1> DEFINE f == Continue(to, v)
<1>1. stack' = TopBecomes(f) /\ ret' = NULL  BY DEF Goto
<1>2. /\ stack # << >> /\ Top.fn = "transform_let" /\ HeapOK(heap)
      /\ Kept(var.let, heap) /\ Kept(var.vars, heap) /\ Kept(var.inits, heap)
      /\ PartOf(heap, RootedBefore, var.let) /\ RootedBefore \subseteq RootedNow
      /\ var.vars \in RootedOf(Top) /\ var.inits \in RootedOf(Top)
  BY LetTop
<1>3. PICK T : Saved(T) /\ Moved(heap, heap', stack, T, RootedNow) /\ Lives(T, {p, q}) /\ Kept(NewAddr, heap')
  BY <1>2, ConsSteps
<1>4. Kept(var.let, heap') /\ PartOf(heap', RootedBefore, var.let)  BY <1>2, <1>3, PartStays
<1>5. Kept(b, heap') /\ PartOf(heap', RootedBefore, b)  BY <1>2, <1>3, PartStays
<1>6. Kept(var.vars, heap') /\ Kept(var.inits, heap')
  <2>1. Here(T, heap, var.vars) /\ Here(T, heap, var.inits)  BY <1>2, <1>3, RootedTop
  <2> QED BY <2>1, <1>2, <1>3 DEF Saved, Stays
<1>7. f.fn = "transform_let" /\ f.at = to /\ f.var = v  BY <1>2, ContinueIs
<1> HIDE DEF f
<1>8. Runs(heap', RootedBefore, OperandsBefore, f)
  <2>1. CASE v = LetVar(var.let, b, NewAddr, var.inits)
    BY <2>1, <1>3, <1>4, <1>5, <1>6, <1>7, LetFrame
  <2>2. CASE v = LetVar(var.let, b, var.vars, NewAddr)
    BY <2>2, <1>3, <1>4, <1>5, <1>6, <1>7, LetFrame
  <2> QED BY <2>1, <2>2
<1>9. Kept(ret', heap') /\ EnvironmentsOK(heap', env', environment_stack')
  BY <1>1, <1>3, NullKept DEF Saved
<1> QED BY <1>1, <1>2, <1>3, <1>7, <1>8, <1>9, Gone

LEMMA LetVarStep == Coherent /\ Alive /\ RewritesAreWhole /\ let_var => AliveNext
<1> SUFFICES ASSUME Coherent, Alive, RewritesAreWhole, let_var PROVE AliveNext
  OBVIOUS
<1> DEFINE w == var
           name == car(car(w.bindings))
           v == [w EXCEPT !.vars = NewAddr]
<1>1. /\ At("transform_let", "var") /\ w.bindings # the_empty_list /\ cons(name, w.vars)
      /\ Goto("init", v) /\ UNCHANGED <<env, environment_stack>>
  BY DEF let_var, others
<1>2. /\ HeapOK(heap) /\ w = LetVar(w.let, w.bindings, w.vars, w.inits)
      /\ Kept(w.bindings, heap) /\ Kept(w.vars, heap) /\ PartOf(heap, RootedBefore, w.bindings)
  BY <1>1, LetTop
<1>3. Pairs(w.bindings, 1) /\ Pairs(car(w.bindings), 1)  BY <1>1 DEF RewritesAreWhole
<1>4. Kept(car(w.bindings), heap)  BY <1>2, <1>3, PairsKept
<1>5. Kept(name, heap)  BY <1>2, <1>3, <1>4, PairsKept
<1>6. v = LetVar(w.let, w.bindings, NewAddr, w.inits)
  <2> HIDE DEF w
  <2> QED BY <1>2, LetVarFacts
<1>7. "var" # "start" /\ "init" # "start"  OBVIOUS
<1> HIDE DEF v, name
<1> QED BY <1>1, <1>2, <1>5, <1>6, <1>7, LetGoes

LEMMA LetInitStep == Coherent /\ Alive /\ RewritesAreWhole /\ let_init => AliveNext
<1> SUFFICES ASSUME Coherent, Alive, RewritesAreWhole, let_init PROVE AliveNext
  OBVIOUS
<1> DEFINE w == var
           value == cadr(car(w.bindings))
           v == [w EXCEPT !.inits = NewAddr, !.bindings = cdr(@)]
           b == cdr(w.bindings)
<1>1. /\ At("transform_let", "init") /\ cons(value, w.inits)
      /\ Goto("var", v) /\ UNCHANGED <<env, environment_stack>>
  BY DEF let_init, others
<1>2. /\ HeapOK(heap) /\ w = LetVar(w.let, w.bindings, w.vars, w.inits)
      /\ Kept(w.bindings, heap) /\ Kept(w.inits, heap) /\ PartOf(heap, RootedBefore, w.bindings)
  BY <1>1, LetTop
<1>3. Pairs(w.bindings, 1) /\ Pairs(car(w.bindings), 2)  BY <1>1 DEF RewritesAreWhole
<1>4. Kept(car(w.bindings), heap) /\ Kept(b, heap) /\ PartOf(heap, RootedBefore, b)
  BY <1>2, <1>3, PairsKept, PartOfPairs
<1>5. Kept(value, heap)  BY <1>2, <1>3, <1>4, PairsKept
<1>6. v = LetVar(w.let, b, w.vars, NewAddr)
  <2> DEFINE u == [w EXCEPT !.inits = NewAddr]
  <2>1. v = [u EXCEPT !.bindings = cdr(u.bindings)]  OBVIOUS
  <2> HIDE DEF v, w
  <2>2. u = LetVar(w.let, w.bindings, w.vars, NewAddr)  BY <1>2, LetVarFacts
  <2> HIDE DEF u
  <2>3. u = LetVar(u.let, u.bindings, u.vars, u.inits) /\ u.let = w.let /\ u.bindings = w.bindings
        /\ u.vars = w.vars /\ u.inits = NewAddr
    BY <2>2, LetVarFacts
  <2>4. [u EXCEPT !.bindings = cdr(u.bindings)] = LetVar(u.let, cdr(u.bindings), u.vars, u.inits)
    BY <2>3, LetVarFacts
  <2> QED BY <2>1, <2>3, <2>4
<1>7. "var" # "start" /\ "init" # "start"  OBVIOUS
<1> HIDE DEF v, value, b
<1> QED BY <1>1, <1>2, <1>4, <1>5, <1>6, <1>7, LetGoes

LEMMA LetLambda == Coherent /\ Alive /\ RewritesAreWhole /\ let_lambda => AliveNext
<1> SUFFICES ASSUME Coherent, Alive, RewritesAreWhole, let_lambda PROVE AliveNext
  OBVIOUS
<1> DEFINE w == var
           v == [w EXCEPT !.let = NULL]
           body == cddr(w.let)
           s == <<lambda_symbol, w.vars, body>>
           e == Conses(s)
           f == Continue("lambda", v)
<1>1. /\ At("transform_let", "var") /\ w.bindings = the_empty_list /\ Call("lambda", v, e) /\ heap' = heap
      /\ UNCHANGED <<env, environment_stack>>
  BY DEF let_lambda, Invoke, OnlyTheStack, others
<1>2. /\ stack # << >> /\ Top.fn = "transform_let" /\ HeapOK(heap)
      /\ w = LetVar(w.let, w.bindings, w.vars, w.inits)
      /\ Kept(w.let, heap) /\ Kept(w.bindings, heap) /\ Kept(w.vars, heap) /\ Kept(w.inits, heap)
      /\ PartOf(heap, RootedBefore, w.bindings)
  BY <1>1, LetTop
<1>3. Pairs(w.let, 2)  BY <1>1 DEF RewritesAreWhole
<1>4. Kept(body, heap)  BY <1>2, <1>3, PairsKept
<1>5. v = LetVar(NULL, w.bindings, w.vars, w.inits)
  <2> HIDE DEF w
  <2> QED BY <1>2, LetVarFacts
<1>6. f.fn = "transform_let" /\ f.at = "lambda" /\ f.var = v  BY <1>2, ContinueIs
<1>7. IsSeq(s) /\ Len(s) = 3 /\ s[1] = lambda_symbol /\ s[2] = w.vars /\ s[3] = body  BY Tuples
<1> HIDE DEF v, f, w, body
<1>8. Kept(NULL, heap) /\ PartOf(heap, RootedBefore, NULL)  BY SymbolsAreNoParts, NoPart
<1>9. "lambda" # "start"  OBVIOUS
<1>10. Waits(heap, RootedBefore, OperandsBefore, f)
  BY <1>2, <1>5, <1>6, <1>8, <1>9, LetFrame
<1>11. (\A k \in 1..3 : k = 1 \/ k = 2 \/ k = 3) /\ (\A k \in 1..1 : k = 1)  OBVIOUS
<1>12. \A R : Kept(lambda_symbol, heap) /\ PartOf(heap, R, lambda_symbol)  BY SymbolsAreNoParts, NoPart
<1> HIDE DEF s
<1>13. \A k \in 1..Len(s) : Kept(s[k], heap)  BY <1>2, <1>4, <1>7, <1>11, <1>12
<1>14. \A R : \A k \in 1..(Len(s) - 2) : PartOf(heap, R, s[k])  BY <1>7, <1>11, <1>12
<1>15. \A R, Q : Runs(heap, R, Q, e)  BY <1>7, <1>13, <1>14, ConsesRun
<1>16. e.fn \in Building  BY DEF Conses, Frame, Building
<1> HIDE DEF e
<1> QED BY <1>1, <1>2, <1>10, <1>15, <1>16, Invokes DEF f

LEMMA LetApplication == Coherent /\ Alive /\ let_application => AliveNext
<1> SUFFICES ASSUME Coherent, Alive, let_application PROVE AliveNext
  OBVIOUS
<1>1. /\ At("transform_let", "lambda") /\ cons(ret, var.inits) /\ Return(NewAddr)
      /\ UNCHANGED <<env, environment_stack>>
  BY DEF let_application, others
<1>2. stack # << >> /\ Kept(ret, heap) /\ Kept(var.inits, heap)  BY <1>1, LetTop
<1>3. PICK T : Saved(T) /\ Kept(NewAddr, heap')  BY <1>1, <1>2, ConsSteps
<1> QED BY <1>1, <1>2, <1>3, Returned

-----------------------------------------------------------------------------
(* The steps of the right-nested conses, and the returns of the functions   *)
(* that build expressions.                                                  *)

LEMMA ConsesTop ==
  ASSUME Coherent, Alive, At("conses", "start")
  PROVE  /\ stack # << >> /\ Top.fn = "conses" /\ HeapOK(heap)
         /\ EnvironmentsOK(heap, env, environment_stack) /\ RootedBefore \subseteq RootedNow
         /\ IsSeq(Top.var) /\ Len(Top.var) \in Nat
         /\ \A k \in 1..Len(Top.var) : Kept(Top.var[k], heap)
         /\ \A k \in 1..(Len(Top.var) - 2) : PartOf(heap, RootedBefore, Top.var[k])
<1>1. "conses" \in Building  BY DEF Building
<1> DEFINE f == Top
<1>2. /\ stack # << >> /\ f.fn = "conses" /\ f.at = "start" /\ HeapOK(heap)
      /\ Shape(f) /\ EnvironmentsOK(heap, env, environment_stack) /\ RootedBefore \subseteq RootedNow
      /\ \A x \in DOMAIN f.var :
           /\ Kept(f.var[x], heap)
           /\ \/ x \in Loose(f)
              \/ PartOf(heap, RootedBefore, f.var[x])
              \/ \E k \in 1..Len(RootNames(f)) : x = RootNames(f)[k]
  BY <1>1, BuildingTop
<1> HIDE DEF f
<1>3. IsSeq(f.var)  BY <1>2 DEF Shape
<1>4. DOMAIN f.var = 1..Len(f.var) /\ Len(f.var) \in Nat  BY <1>3, SeqFacts
<1>5. RootNames(f) = << >>  BY <1>2, NamesOfOthers
<1>6. Len(RootNames(f)) = 0  BY <1>5
<1>7. Loose(f) = {Len(f.var) - 1, Len(f.var)}  BY <1>2 DEF Loose
<1>8. \A m \in Nat : \A k \in 1..(m - 2) : k \in 1..m /\ k # m - 1 /\ k # m  OBVIOUS
<1>9. ASSUME NEW k \in 1..(Len(f.var) - 2)  PROVE PartOf(heap, RootedBefore, f.var[k])
  <2>1. k \in DOMAIN f.var /\ k \notin Loose(f)  BY <1>4, <1>7, <1>8
  <2> QED BY <2>1, <1>2, <1>6
<1>10. \A k \in 1..Len(f.var) : Kept(f.var[k], heap)  BY <1>2, <1>4
<1> QED BY <1>2, <1>3, <1>4, <1>9, <1>10 DEF f

LEMMA ConsesStep == Coherent /\ Alive /\ eval_conses => AliveNext
<1> SUFFICES ASSUME Coherent, Alive, eval_conses PROVE AliveNext
  OBVIOUS
<1> DEFINE w == Top.var
           n == Len(w)
           p == w[n - 1]
           q == w[n]
           t == SubSeq(w, 1, n - 2)
           s == t \o <<NewAddr>>
           f == Continue("start", s)
<1>1. /\ At("conses", "start") /\ n > 1 /\ cons(p, q)
      /\ stack' = TopBecomes(f) /\ ret' = NULL /\ UNCHANGED <<env, environment_stack>>
  BY DEF eval_conses, conses, Goto
<1>2. /\ stack # << >> /\ Top.fn = "conses" /\ HeapOK(heap)
      /\ RootedBefore \subseteq RootedNow
      /\ IsSeq(w) /\ n \in Nat
      /\ \A k \in 1..n : Kept(w[k], heap)
      /\ \A k \in 1..(n - 2) : PartOf(heap, RootedBefore, w[k])
  BY <1>1, ConsesTop
<1>3. f.fn = "conses" /\ f.var = s
  <2> HIDE DEF s
  <2>1. f.fn = Top.fn /\ f.var = s  BY <1>2, ContinueIs
  <2> QED BY <1>2, <2>1
<1>4. Kept(ret', heap')  BY <1>1, NullKept
<1> HIDE DEF f, w
<1>5. \A m \in Nat : m > 1 => /\ m \in 1..m /\ m - 1 \in 1..m /\ m - 2 \in 0..m /\ m - 2 \in Nat
                              /\ \A k \in 1..(m - 2) : k \in 1..m
  OBVIOUS
<1>6. n \in 1..n /\ n - 1 \in 1..n /\ n - 2 \in 0..n /\ n - 2 \in Nat /\ \A k \in 1..(n - 2) : k \in 1..n
  BY <1>1, <1>2, <1>5
<1>7. Kept(p, heap) /\ Kept(q, heap)  BY <1>2, <1>6
<1> HIDE DEF p, q
<1>8. PICK T : Saved(T) /\ Moved(heap, heap', stack, T, RootedNow) /\ Kept(NewAddr, heap')
  BY <1>1, <1>2, <1>7, ConsSteps
<1>9. IsSeq(t) /\ Len(t) = n - 2 /\ \A k \in 1..(n - 2) : t[k] = w[k]
  BY <1>2, <1>6, SubSeqFacts
<1>10. \A k \in 1..(n - 2) : Kept(w[k], heap') /\ PartOf(heap', RootedBefore, w[k])
  BY <1>2, <1>6, <1>8, PartStays
<1> HIDE DEF t, n
<1>11. IsSeq(<<NewAddr>>) /\ Len(<<NewAddr>>) = 1 /\ <<NewAddr>>[1] = NewAddr /\ 1 \in 1..1  BY Tuples
<1>12. IsSeq(s) /\ Len(s) = (n - 2) + 1 /\ (\A k \in 1..(n - 2) : s[k] = w[k]) /\ s[(n - 2) + 1] = NewAddr
  BY <1>9, <1>11, ConcatFacts
<1> HIDE DEF s
<1>13. \A m \in Nat : /\ \A k \in 1..(m + 1) : k \in 1..m \/ k = m + 1
                      /\ \A k \in 1..((m + 1) - 2) : k \in 1..m
  OBVIOUS
<1>14. \A k \in 1..Len(s) : Kept(s[k], heap')
  <2> TAKE k \in 1..Len(s)
  <2>1. k \in 1..(n - 2) \/ k = (n - 2) + 1  BY <1>6, <1>12, <1>13
  <2> QED BY <2>1, <1>8, <1>10, <1>12
<1>15. \A k \in 1..(Len(s) - 2) : PartOf(heap', RootedBefore, s[k])
  <2> TAKE k \in 1..(Len(s) - 2)
  <2>1. k \in 1..(n - 2)  BY <1>6, <1>12, <1>13
  <2> QED BY <2>1, <1>10, <1>12
<1>16. Runs(heap', RootedBefore, OperandsBefore, f)
  BY <1>3, <1>12, <1>14, <1>15, ConsesFrame
<1>17. EnvironmentsOK(heap', env', environment_stack')  BY <1>1, <1>8 DEF Saved
<1> QED BY <1>1, <1>2, <1>3, <1>4, <1>8, <1>16, <1>17, Gone

LEMMA ConsesReturns == Coherent /\ Alive /\ eval_conses_return => AliveNext
<1> SUFFICES ASSUME Coherent, Alive, eval_conses_return PROVE AliveNext
  OBVIOUS
<1> DEFINE w == Top.var
<1>1. /\ At("conses", "start") /\ Len(w) = 1 /\ Return(w[1]) /\ heap' = heap
      /\ UNCHANGED <<env, environment_stack>>
  BY DEF eval_conses_return, conses_return
<1>2. stack # << >> /\ \A k \in 1..Len(w) : Kept(w[k], heap)  BY <1>1, ConsesTop
<1> HIDE DEF w
<1>3. Kept(w[1], heap)  BY <1>1, <1>2
<1> QED BY <1>1, <1>2, <1>3, Finishes

LEMMA RewritingReturns ==
  ASSUME Coherent, Alive, complex_define_return \/ cond_end \/ cond_else \/ cond_return
  PROVE  AliveNext
<1>1. CASE complex_define_return
  <2>1. /\ At("transform_complex_define", "define") /\ Return(ret) /\ heap' = heap
        /\ UNCHANGED <<env, environment_stack>>
    BY <1>1 DEF complex_define_return, Finish, OnlyTheStack, others
  <2>2. stack # << >> /\ Kept(ret, heap)  BY <2>1, DefineTop
  <2> QED BY <2>1, <2>2, Finishes
<1>2. CASE cond_end
  <2>1. /\ At("transform_cond_clauses", "start") /\ Return(false) /\ heap' = heap
        /\ UNCHANGED <<env, environment_stack>>
    BY <1>2 DEF cond_end, Finish, OnlyTheStack, others
  <2>2. stack # << >>  BY <2>1, CondTop
  <2>3. Kept(false, heap)  BY SymbolsAreNoParts, NoPart
  <2> QED BY <2>1, <2>2, <2>3, Finishes
<1>3. CASE cond_else
  <2>1. /\ At("transform_cond_clauses", "actions")
        /\ \/ Return(exp) /\ heap' = heap /\ UNCHANGED <<env, environment_stack>>
           \/ Exit
    BY <1>3 DEF cond_else, Finish, OnlyTheStack, others
  <2>2. stack # << >> /\ Kept(exp, heap)  BY <2>1, CondTop
  <2> QED BY <2>1, <2>2, Finishes, Exited
<1>4. CASE cond_return
  <2>1. /\ At("transform_cond_clauses", "if") /\ Return(ret) /\ heap' = heap
        /\ UNCHANGED <<env, environment_stack>>
    BY <1>4 DEF cond_return, others
  <2>2. stack # << >> /\ Kept(ret, heap)  BY <2>1, CondTop
  <2> QED BY <2>1, <2>2, Finishes
<1> QED BY <1>1, <1>2, <1>3, <1>4

LEMMA RewritingKeepsAlive == Coherent /\ Alive /\ WellFormed /\ Rewriting => AliveNext
<1> SUFFICES ASSUME Coherent, Alive, WellFormed, Rewriting PROVE AliveNext
  OBVIOUS
<1>1. RewritesAreWhole  BY DEF WellFormed
<1>2. CASE complex_define_lambda  BY <1>1, <1>2, DefineLambda
<1>3. CASE complex_define_define  BY <1>1, <1>3, DefineDefine
<1>4. CASE complex_define_return \/ cond_end \/ cond_else \/ cond_return
  BY <1>4, RewritingReturns
<1>5. CASE cond_actions  BY <1>1, <1>5, CondActions
<1>6. CASE cond_rest  BY <1>1, <1>6, CondRest
<1>7. CASE cond_if  BY <1>7, CondIf
<1>8. CASE let_start  BY <1>8, LetStart
<1>9. CASE let_var  BY <1>1, <1>9, LetVarStep
<1>10. CASE let_init  BY <1>1, <1>10, LetInitStep
<1>11. CASE let_lambda  BY <1>1, <1>11, LetLambda
<1>12. CASE let_application  BY <1>12, LetApplication
<1>13. CASE eval_conses  BY <1>13, ConsesStep
<1>14. CASE eval_conses_return  BY <1>14, ConsesReturns
<1> QED BY <1>2, <1>3, <1>4, <1>5, <1>6, <1>7, <1>8, <1>9, <1>10, <1>11, <1>12, <1>13, <1>14
        DEF Rewriting

-----------------------------------------------------------------------------
(* The beginning, and every step *)

LEMMA ReadIsKept ==
  ASSUME NEW p, IsSeq(p.objects), NEW h, IsSeq(h), Len(h) = 1 + Len(p.objects),
         \A i \in 1..Len(p.objects) : h[1 + i] # Freed,
         NEW v, ReadBy(p, v)
  PROVE  Kept(v, h)
<1> DEFINE n == Len(p.objects)
<1>1. n \in Nat  BY SeqFacts
<1>2. \A m \in Nat : \A k \in 2..(m + 1) : k - 1 \in 1..m /\ 1 + (k - 1) = k /\ k \in 1..(1 + m)
  OBVIOUS
<1>3. CASE v \notin Nat
  <2>1. v \in Outside  BY <1>3 DEF ReadBy, Constant, Outside
  <2> QED BY <2>1, OutsideFacts
<1>4. CASE v \in Nat
  <2>1. v \in 2..(n + 1)  BY <1>4 DEF ReadBy
  <2>2. v - 1 \in 1..n /\ 1 + (v - 1) = v /\ v \in 1..(1 + n)  BY <1>1, <1>2, <2>1
  <2> QED BY <2>2, <1>4, WildIsNoValue DEF Kept
<1> QED BY <1>3, <1>4

LEMMA InitIsAlive == ProgramsAreRead /\ Init => Alive
<1> SUFFICES ASSUME ProgramsAreRead, Init PROVE Alive
  OBVIOUS
<1>1. PICK p \in Programs :
        /\ heap = <<Bindings(NULL, init_environment)>> \o p.objects
        /\ env = 1 /\ environment_stack = << >> /\ stack = <<EvalFrame(p.exp)>> /\ ret = NULL
  BY DEF Init
<1> DEFINE first == Bindings(NULL, init_environment)
           t == p.objects
<1>2. /\ t \in Seq(Range(t)) /\ ReadBy(p, p.exp)
      /\ \A o \in Range(t) :
           \/ o.kind \in {"number", "character", "string"}
           \/ o = Pair(o.car, o.cdr) /\ ReadBy(p, o.car) /\ ReadBy(p, o.cdr)
  BY DEF ProgramsAreRead
<1>3. IsSeq(t) /\ Len(t) \in Nat /\ \A i \in 1..Len(t) : t[i] \in Range(t)  BY <1>2, AnySeq
<1>4. IsSeq(<<first>>) /\ Len(<<first>>) = 1 /\ <<first>>[1] = first /\ 1 \in 1..1  BY Tuples
<1>5. heap = <<first>> \o t  BY <1>1
<1>6. first.kind = "bindings" /\ first = Bindings(first.parent, first.bindings) /\ first.parent = NULL
      /\ first.bindings = init_environment
  BY DEF Bindings
<1> HIDE DEF first
<1>7. /\ IsSeq(heap) /\ Len(heap) = 1 + Len(t) /\ heap[1] = first
      /\ \A i \in 1..Len(t) : heap[1 + i] = t[i]
  BY <1>3, <1>4, <1>5, ConcatFacts
<1>8. \A i \in 1..Len(t) : heap[1 + i] # Freed
  <2> TAKE i \in 1..Len(t)
  <2>1. \/ t[i].kind \in {"number", "character", "string"}
        \/ t[i] = Pair(t[i].car, t[i].cdr)
    BY <1>2, <1>3
  <2>2. t[i].kind \in {"number", "character", "string", "pair"}  BY <2>1 DEF Pair
  <2> QED BY <2>2, <1>7 DEF Freed
<1>9. \A v : ReadBy(p, v) => Kept(v, heap)  BY <1>3, <1>7, <1>8, ReadIsKept
<1>10. \A n \in Nat : 1 \in 1..(1 + n) /\ \A a \in 1..(1 + n) : a = 1 \/ (a - 1 \in 1..n /\ 1 + (a - 1) = a)
  OBVIOUS
<1>11. IsBindings(1, heap)  BY <1>3, <1>6, <1>7, <1>10 DEF IsBindings
<1>12. ASSUME NEW a \in 1..Len(heap)  PROVE ObjectOK(heap, a, heap[a])
  <2>1. CASE a = 1
    <3>1. \A x \in DOMAIN init_environment : init_environment[x] \in Outside
      BY DEF Range, Outside
    <3>2. \A x \in DOMAIN first.bindings : Kept(first.bindings[x], heap)
      BY <3>1, <1>6, OutsideFacts
    <3>3. ObjectOK(heap, a, first)  BY <3>2, <1>6 DEF ObjectOK
    <3> QED BY <3>3, <2>1, <1>7
  <2>2. CASE a # 1
    <3> DEFINE o == heap[a]
    <3>1. a - 1 \in 1..Len(t) /\ 1 + (a - 1) = a  BY <2>2, <1>3, <1>7, <1>10
    <3>2. o \in Range(t)  BY <3>1, <1>3, <1>7
    <3> HIDE DEF o
    <3>3. CASE o.kind \in {"number", "character", "string"}  BY <3>3 DEF ObjectOK, o
    <3>4. CASE o = Pair(o.car, o.cdr) /\ ReadBy(p, o.car) /\ ReadBy(p, o.cdr)
      <4>1. o.kind = "pair"  BY <3>4 DEF Pair
      <4>2. ObjectOK(heap, a, o)  BY <4>1, <3>4, <1>9 DEF ObjectOK
      <4> QED BY <4>2 DEF o
    <3> QED BY <3>2, <3>3, <3>4, <1>2
  <2> QED BY <2>1, <2>2
<1>13. HeapOK(heap)  BY <1>7, <1>12 DEF HeapOK
<1>14. EnvironmentsOK(heap, env, environment_stack)
  BY <1>1, <1>11, Tuples DEF EnvironmentsOK
<1>15. Kept(ret, heap)  BY <1>1, NullKept
<1> DEFINE f == EvalFrame(p.exp)
<1>16. \A R, Q : Runs(heap, R, Q, f)  BY <1>2, <1>9, EvalFrameRuns
<1>17. stack = <<f>>  BY <1>1
<1> HIDE DEF f
<1>18. Len(stack) = 1 /\ stack[1] = f /\ \A i \in 1..1 : i = 1  BY <1>17, Tuples
<1>19. FramesSafe(heap, stack)  BY <1>16, <1>18 DEF FramesSafe
<1>20. Ordered(stack)  BY <1>18 DEF Ordered
<1> QED BY <1>13, <1>14, <1>15, <1>19, <1>20 DEF Alive

LEMMA NextKeepsAlive == Coherent /\ Alive /\ WellFormed /\ [Next]_vars => AliveNext
<1> SUFFICES ASSUME Coherent, Alive, WellFormed, [Next]_vars PROVE AliveNext
  OBVIOUS
<1>1. CASE Step
  BY <1>1, EvalKeepsAlive, ApplicationKeepsAlive, ProcedureKeepsAlive, RewritingKeepsAlive DEF Step
<1>2. CASE UNCHANGED vars  BY <1>2 DEF Alive, AliveNext, vars
<1> QED BY <1>1, <1>2 DEF Next, Finished

LEMMA EvalKeepsProgram == Eval \/ Application => program' = program
<1>1. Eval => program' = program
  BY DEF Eval, eval_self_evaluating, eval_unexpected, eval_variable, eval_quoted,
         eval_if, eval_if_chosen, eval_lambda,
         eval_assignment, eval_assignment_set, eval_define, eval_define_set,
         eval_complex_define, eval_cond, eval_let, eval_rewritten,
         eval_begin, eval_begin_next, eval_or, eval_or_next, eval_and, eval_and_next,
         Sequence, Rewrite, Invoke, CallEval, TailCall, EvalReturn, Exit, OnlyTheStack, others
<1>2. Application => program' = program
  BY DEF Application, eval_application, eval_operands, eval_apply, eval_eval,
         eval_arguments, eval_applied, Arguments,
         eval_primitive, eval_compound, eval_extend, eval_body,
         list_of_values_end, list_of_values_first, list_of_values_rest, list_of_values_cons,
         Invoke, Finish, OnlyTheStack, others, Exit
<1> QED BY <1>1, <1>2

LEMMA StepKeepsProgram == Step => program' = program
<1>1. Procedure => program' = program
  BY DEF Procedure, call_looking, call_set_car, call_set_cdr, call_cons, call_add,
         call_interaction_environment, call_null_environment, call_null_environment_wrap,
         call_special, EvalReturn, Exit, others
<1>2. Rewriting => program' = program
  BY DEF Rewriting, complex_define_lambda, complex_define_define, complex_define_return,
         cond_end, cond_actions, cond_else, cond_rest, cond_if, cond_return,
         let_start, let_var, let_init, let_lambda, let_application,
         eval_conses, eval_conses_return, Invoke, Finish, Exit, OnlyTheStack, others
<1> QED BY <1>1, <1>2, EvalKeepsProgram DEF Step

LEMMA NextKeepsProgram == [Next]_vars => program' = program
BY StepKeepsProgram DEF Next, Finished, vars

LEMMA AliveIsEnough == Coherent /\ Alive => NoUseAfterFree
<1> SUFFICES ASSUME Coherent, Alive,
                    NEW p \in (UNION {Range(stack[i].var) : i \in DOMAIN stack}) \union {ret} \union VmPointers,
                    p \in Addr
             PROVE  heap[p] # Freed
  BY DEF NoUseAfterFree, Live
<1>1. HeapOK(heap) /\ Kept(ret, heap) /\ FramesSafe(heap, stack)
      /\ EnvironmentsOK(heap, env, environment_stack)
  BY DEF Alive
<1>2. p \in Nat  BY <1>1, HeapFacts DEF Addr
<1>3. SUFFICES Kept(p, heap) \/ IsBindings(p, heap)
  BY <1>2 DEF Kept, IsBindings, Freed
<1>4. CASE p \in UNION {Range(stack[i].var) : i \in DOMAIN stack}
  <2>1. DOMAIN stack = 1..Len(stack)  BY SeqFacts DEF Coherent
  <2>2. PICK i \in 1..Len(stack) : p \in Range(stack[i].var)  BY <2>1, <1>4
  <2>3. PICK x \in DOMAIN stack[i].var : p = stack[i].var[x]  BY <2>2 DEF Range
  <2>4. Safe(heap, stack[i], x)  BY <1>1 DEF FramesSafe, Runs, Waits
  <2> QED BY <2>3, <2>4, <1>2, WildIsNoValue DEF Safe
<1>5. CASE p = ret  BY <1>1, <1>5
<1>6. CASE p \in VmPointers
  <2>1. CASE p = env  BY <2>1, <1>1 DEF EnvironmentsOK
  <2>2. CASE p \in Range(environment_stack)
    <3>1. PICK k \in DOMAIN environment_stack : p = environment_stack[k]  BY <2>2 DEF Range
    <3>2. k \in 1..Len(environment_stack)  BY <1>1, <3>1, SeqFacts DEF EnvironmentsOK
    <3> QED BY <3>1, <3>2, <1>1 DEF EnvironmentsOK
  <2> QED BY <2>1, <2>2, <1>6 DEF VmPointers
<1> QED BY <1>4, <1>5, <1>6

(* Whatever a C function has still to read exists, at whichever allocations *)
(* of its callees the collector runs: for all programs that the reader      *)
(* leaves, of any size, with side effects and any depth of calls, whose     *)
(* evaluation stays well formed, that is, where C takes a pair apart there  *)
(* is one, lists end, each parameter gets a value, and no list of operands  *)
(* is cut off while they are being evaluated (eval.c:61-80, 137-149,        *)
(* 224-265, 289-311, 335-345, 481-530).                                     *)
THEOREM NothingNeededIsFreed == ProgramsAreRead => (Spec /\ []WellFormed => []NoUseAfterFree)
<1> SUFFICES ASSUME ProgramsAreRead PROVE Spec /\ []WellFormed => []NoUseAfterFree
  OBVIOUS
<1>1. Init => Alive  BY InitIsAlive
<1>2. Coherent /\ Alive /\ WellFormed /\ [Next]_vars => Alive'
  BY NextKeepsAlive, NextKeepsProgram, Primed
<1>3. Coherent /\ Alive => NoUseAfterFree  BY AliveIsEnough
<1> QED BY <1>1, <1>2, <1>3, AlwaysCoherent, PTL DEF Spec

-----------------------------------------------------------------------------
(* Reading: the objects of a datum are added to the heap, after a collection *)
(* or without one.                                                         *)

LEMMA TextFacts ==
  ASSUME NEW t, IsText(t)
  PROVE  /\ IsText(Rest(t))
         /\ t # << >> => Head(t) \in Range(t) /\ IsDatum(Head(t)) /\ Rest(t) = Tail(t)
<1>1. IsSeq(t) /\ \A datum \in Range(t) : IsDatum(datum)  BY DEF IsText, IsSeq
<1>2. CASE t = << >>  BY <1>2 DEF Rest
<1>3. CASE t # << >>
  <2> DEFINE S == Range(t)
             u == Tail(t)
  <2>1. t \in Seq(S) /\ Head(t) \in S /\ u \in Seq(S)
    <3>1. t \in Seq(S)  BY <1>1 DEF IsSeq
    <3> HIDE DEF S
    <3> QED BY <3>1, <1>3
  <2>2. Rest(t) = u  BY <1>3 DEF Rest
  <2> HIDE DEF u
  <2>3. IsSeq(u) /\ Range(u) \subseteq S
    <3>1. \A i \in DOMAIN u : u[i] \in S
      <4> HIDE DEF S
      <4> QED BY <2>1
    <3>2. Range(u) \subseteq S  BY <3>1 DEF Range
    <3>3. IsSeq(u)
      <4> HIDE DEF S
      <4> QED BY <2>1, AnySeq
    <3> QED BY <3>2, <3>3
  <2>4. IsText(u)  BY <1>1, <2>3 DEF IsText, IsSeq
  <2> QED BY <1>1, <1>3, <2>1, <2>2, <2>4 DEF Rest
<1> QED BY <1>2, <1>3

(* The objects of the datum d, in a heap of n objects. *)
LEMMA StoredFacts ==
  ASSUME NEW d, IsDatum(d), NEW c, IsSeq(c)
  PROVE  /\ IsSeq(Stored(c, d)) /\ Len(c) \in Nat /\ Len(c) <= Len(Stored(c, d))
         /\ \A a \in 1..Len(c) : Stored(c, d)[a] = c[a]
         /\ \A a \in 1..Len(Stored(c, d)) : a \notin 1..Len(c) =>
              \E o \in Range(d.objects) : Stored(c, d)[a] = Object(c, d, o) /\ Stored(c, d)[a] # Freed
         /\ \A v : ReadIn(d, v) => Kept(Placed(c, d, v), Stored(c, d))
<1> DEFINE g == Stored(c, d)
           made == d.objects
           n == Len(made)
           new == [i \in DOMAIN made |-> Object(c, d, made[i])]
<1>1. /\ IsSeq(made) /\ n \in Nat /\ DOMAIN made = 1..n /\ \A i \in 1..n : made[i] \in Range(made)
      /\ Len(c) \in Nat
  <2>1. IsSeq(made)  BY DEF IsDatum, IsSeq
  <2> HIDE DEF made
  <2> QED BY <2>1, SeqFacts
<1>2. IsSeq(new) /\ Len(new) = n
  <2> DEFINE V == Range(new)
  <2>1. new \in [1..n -> V]  BY <1>1 DEF Range
  <2> HIDE DEF V
  <2>2. n \in Nat  BY <1>1
  <2> HIDE DEF new, n
  <2> QED BY <2>1, <2>2, MadeSeq
<1>3. \A i \in 1..n : new[i] = Object(c, d, made[i])  BY <1>1
<1>4. g = c \o new  BY DEF Stored
<1> HIDE DEF new, g
<1>5. /\ IsSeq(g) /\ Len(g) = Len(c) + n
      /\ \A i \in 1..Len(c) : g[i] = c[i]
      /\ \A i \in 1..n : g[Len(c) + i] = new[i]
  <2>1. ASSUME NEW u, IsSeq(u)
        PROVE  /\ IsSeq(c \o u) /\ Len(c \o u) = Len(c) + Len(u)
               /\ \A i \in 1..Len(c) : (c \o u)[i] = c[i]
               /\ \A i \in 1..Len(u) : (c \o u)[Len(c) + i] = u[i]
    <3>1. IsSeq(c \o u) /\ Len(c \o u) = Len(c) + Len(u)  BY <2>1, ConcatFacts
    <3>2. \A i \in 1..Len(c) : (c \o u)[i] = c[i]  BY <2>1, ConcatFacts
    <3>3. \A i \in 1..Len(u) : (c \o u)[Len(c) + i] = u[i]  BY <2>1, ConcatFacts
    <3> QED BY <3>1, <3>2, <3>3
  <2> QED BY <2>1, <1>2, <1>4
<1>6. ASSUME NEW i \in 1..n
      PROVE  /\ made[i] \in Range(made) /\ g[Len(c) + i] = Object(c, d, made[i]) /\ g[Len(c) + i] # Freed
             /\ Len(c) + i \in 1..Len(g)
  <2> DEFINE o == made[i]
  <2>1. o \in Range(made) /\ g[Len(c) + i] = Object(c, d, o)  BY <1>1, <1>3, <1>5
  <2>2. o.kind \in {"number", "character", "string", "pair"}  BY <2>1 DEF IsDatum
  <2> HIDE DEF o
  <2>3. Object(c, d, o).kind \in {"number", "character", "string", "pair"}
    BY <2>2 DEF Object, Pair
  <2>4. Object(c, d, o) # Freed  BY <2>3 DEF Freed
  <2>5. Len(c) + i \in 1..Len(g)  BY <1>1, <1>5
  <2> QED BY <2>1, <2>4, <2>5 DEF o
<1>7. ASSUME NEW a \in 1..Len(g), a \notin 1..Len(c)
      PROVE  \E o \in Range(made) : g[a] = Object(c, d, o) /\ g[a] # Freed
  <2> DEFINE i == a - Len(c)
  <2>1. i \in 1..n /\ a = Len(c) + i  BY <1>1, <1>5, <1>7
  <2> HIDE DEF i
  <2> QED BY <2>1, <1>6
<1>8. ASSUME NEW v, ReadIn(d, v) PROVE Kept(Placed(c, d, v), g)
  <2>1. CASE v \in DOMAIN made
    <3>1. v \in 1..n /\ Placed(c, d, v) = Len(c) + v  BY <2>1, <1>1 DEF Placed
    <3>2. Len(c) + v \in 1..Len(g) /\ g[Len(c) + v] # Freed  BY <3>1, <1>6
    <3>3. Len(c) + v \in Nat  BY <3>1, <1>1
    <3> QED BY <3>1, <3>2, <3>3, WildIsNoValue DEF Kept
  <2>2. CASE v \notin DOMAIN made
    <3>1. v \in Outside /\ Placed(c, d, v) = v  BY <2>2, <1>8 DEF ReadIn, Constant, Outside, Placed
    <3> QED BY <3>1, OutsideFacts
  <2> QED BY <2>1, <2>2
<1>9. Len(c) <= Len(g)  BY <1>1, <1>5
<1> QED BY <1>1, <1>5, <1>7, <1>8, <1>9 DEF g

LEMMA ReadSteps ==
  ASSUME Coherent, Alive, stack # << >>, NEW t, IsText(t), t # << >>, read(t)
  PROVE  \E T : /\ Saved(T) /\ Lives(T, {}) /\ (\A v : Stays(heap, heap', T, v))
                /\ Kept(ReadValue(t), heap')
<1> DEFINE d == Head(t)
<1>0. HeapOK(heap) /\ Len(heap) \in Nat  BY HeapFacts DEF Alive
<1>1. IsDatum(d)  BY TextFacts
<1>2. PICK c \in {heap, Collected({})} : heap' = Stored(c, d)  BY DEF read
<1>3. ReadValue(t) = Placed(heap, d, d.at) /\ ReadIn(d, d.at)  BY <1>1 DEF ReadValue, IsDatum
<1> HIDE DEF d
<1> DEFINE A == {}
<1>4. PICK T : /\ Grows(heap, c, T) /\ Len(c) = Len(heap)
               /\ \A v \in RootedUpTo(stack, Len(stack)) : Here(T, heap, v)
               /\ \A v \in VmPointers : Here(T, heap, v)
  <2>1. c \in {heap, Collected(A)}  BY <1>2
  <2> HIDE DEF A
  <2> QED BY <1>0, <2>1, CollectFacts
<1>5. IsSeq(c)  BY <1>4 DEF Grows
<1>6. /\ IsSeq(heap') /\ Len(c) <= Len(heap') /\ \A a \in 1..Len(c) : heap'[a] = c[a]
      /\ \A a \in 1..Len(heap') : a \notin 1..Len(c) =>
           \E o \in Range(d.objects) : heap'[a] = Object(c, d, o) /\ heap'[a] # Freed
      /\ \A v : ReadIn(d, v) => Kept(Placed(c, d, v), heap')
  <2> DEFINE g == Stored(c, d)
  <2>1. /\ IsSeq(g) /\ Len(c) <= Len(g) /\ \A a \in 1..Len(c) : g[a] = c[a]
        /\ \A a \in 1..Len(g) : a \notin 1..Len(c) =>
             \E o \in Range(d.objects) : g[a] = Object(c, d, o) /\ g[a] # Freed
        /\ \A v : ReadIn(d, v) => Kept(Placed(c, d, v), g)
    BY <1>1, <1>5, StoredFacts
  <2>2. heap' = g  BY <1>2
  <2> HIDE DEF g
  <2> QED BY <2>1, <2>2
<1>7. Grows(heap, heap', T)  BY <1>0, <1>4, <1>6, GrowsMore
<1>8. ASSUME NEW a \in 1..Len(heap'), a \notin 1..Len(heap)
      PROVE  ObjectOK(heap', a, heap'[a])
  <2>1. PICK o \in Range(d.objects) : heap'[a] = Object(c, d, o)  BY <1>4, <1>6, <1>8
  <2>2. CASE o.kind = "pair"
    <3> DEFINE p == Pair(Placed(c, d, o.car), Placed(c, d, o.cdr))
    <3>1. heap'[a] = p  BY <2>1, <2>2 DEF Object
    <3>2. ReadIn(d, o.car) /\ ReadIn(d, o.cdr)  BY <1>1, <2>2 DEF IsDatum
    <3>3. Kept(Placed(c, d, o.car), heap') /\ Kept(Placed(c, d, o.cdr), heap')  BY <3>2, <1>6
    <3>4. p.kind = "pair" /\ p.car = Placed(c, d, o.car) /\ p.cdr = Placed(c, d, o.cdr)  BY DEF Pair
    <3>5. p = Pair(p.car, p.cdr)  BY <3>4
    <3> HIDE DEF p
    <3>6. ObjectOK(heap', a, p)  BY <3>3, <3>4, <3>5 DEF ObjectOK
    <3> QED BY <3>1, <3>6
  <2>3. CASE o.kind \in {"number", "character", "string"}
    <3>1. heap'[a] = o  BY <2>1, <2>3 DEF Object
    <3> QED BY <3>1, <2>3 DEF ObjectOK
  <2> QED BY <1>1, <2>2, <2>3 DEF IsDatum
<1>9. Lives(T, {})  BY <1>4 DEF Lives, RootedNow
<1>10. Saved(T) /\ \A v : Stays(heap, heap', T, v)  BY <1>7, <1>8, <1>9, GrowSteps
<1>11. Kept(ReadValue(t), heap')
  <2>1. Placed(heap, d, d.at) = Placed(c, d, d.at)  BY <1>4 DEF Placed
  <2> QED BY <2>1, <1>3, <1>6
<1> QED BY <1>9, <1>10, <1>11

-----------------------------------------------------------------------------
(* The frames of main and of load *)

LEMMA MainFrame ==
  ASSUME NEW f, f.fn = "main", f.var = << >>, NEW h, NEW R, NEW Q
  PROVE  Runs(h, R, Q, f) /\ Waits(h, R, Q, f)
<1>1. DOMAIN f.var = {}  OBVIOUS
<1>2. Shape(f) /\ ~ InProcedure(f) /\ ~ Wraps(f)  BY DEF Shape, InProcedure, Wraps
<1> QED BY <1>1, <1>2 DEF Runs, Waits

LEMMA LoadFrame ==
  ASSUME NEW f, f.fn = "load", NEW h, f.var = [result |-> f.var.result],
         Kept(f.var.result, h) \/ f.var.result = Wild, NEW R, NEW Q
  PROVE  Runs(h, R, Q, f) /\ Waits(h, R, Q, f)
<1>1. DOMAIN f.var = {"result"}
  <2>1. \A r : DOMAIN [result |-> r] = {"result"}  OBVIOUS
  <2> QED BY <2>1
<1>2. Shape(f) /\ ~ InProcedure(f) /\ ~ Wraps(f)  BY DEF Shape, InProcedure, Wraps
<1>3. RootNames(f) = <<"result">>  BY NamesOfOthers
<1>4. Len(RootNames(f)) = 1 /\ RootNames(f)[1] = "result" /\ 1 \in 1..1  BY <1>3, Tuples
<1>5. ASSUME NEW x \in DOMAIN f.var PROVE Safe(h, f, x) /\ Held(h, R, Q, f, x)
  <2>1. x = "result"  BY <1>1
  <2> QED BY <2>1, <1>4 DEF Safe, Held
<1> QED BY <1>2, <1>5 DEF Runs, Waits

LEMMA LoadShape ==
  ASSUME NEW f, f.fn = "load", NEW h, NEW R, NEW Q, Runs(h, R, Q, f) \/ Waits(h, R, Q, f)
  PROVE  /\ f.var = [result |-> f.var.result] /\ (Kept(f.var.result, h) \/ f.var.result = Wild)
         /\ f.var.result \in RootedOf(f)
<1>1. f.var = [result |-> f.var.result]  BY DEF Runs, Waits, Shape, Building
<1>2. DOMAIN f.var = {"result"}
  <2>1. \A r : DOMAIN [result |-> r] = {"result"}  OBVIOUS
  <2> QED BY <1>1, <2>1
<1>3. "result" \in DOMAIN f.var  BY <1>2
<1>4. Safe(h, f, "result")  BY <1>3 DEF Runs, Waits
<1>5. RootNames(f) = <<"result">>  BY NamesOfOthers
<1>6. Len(RootNames(f)) = 1 /\ RootNames(f)[1] = "result" /\ 1 \in 1..1  BY <1>5, Tuples
<1>7. f.var.result \in RootedOf(f)  BY <1>6 DEF RootedOf
<1> QED BY <1>1, <1>4, <1>7 DEF Safe

LEMMA LoadTop ==
  ASSUME Coherent, Alive, NEW at, At("load", at)
  PROVE  /\ stack # << >> /\ Top.fn = "load" /\ Top.at = at /\ HeapOK(heap) /\ Kept(ret, heap)
         /\ var = Top.var /\ var = [result |-> var.result]
         /\ Kept(var.result, heap) \/ var.result = Wild
         /\ var.result \in RootedOf(Top)
<1>1. stack # << >> /\ Top.fn = "load" /\ Top.at = at  BY AtFacts
<1>2. Runs(heap, RootedBefore, OperandsBefore, Top)  BY <1>1, AliveFacts
<1> QED BY <1>1, <1>2, LoadShape, AliveFacts DEF var

LEMMA MainTop ==
  ASSUME Coherent, Alive, NEW at, At("main", at)
  PROVE  stack # << >> /\ Top.fn = "main" /\ Top.at = at /\ HeapOK(heap) /\ Kept(ret, heap)
BY AtFacts, AliveFacts

-----------------------------------------------------------------------------
(* The texts that are being read, and the files that are being loaded: there *)
(* is one at least for each load on the stack, one that waits is evaluating  *)
(* an expression, and one that has no value yet has its file before it.     *)

Texts ==
  /\ IsText(stdin)
  /\ IsSeq(arguments) /\ \A t \in Range(arguments) : IsText(t)
  /\ IsSeq(loading) /\ \A t \in Range(loading) : IsText(t)
  /\ \A f \in DOMAIN program.files : IsText(program.files[f])

LoadFrames(s) == {i \in 1..Len(s) : s[i].fn = "load"}
Unset(f) == f.at = "read" /\ f.var.result = Wild
Loads ==
  /\ Cardinality(LoadFrames(stack)) <= Len(loading)
  /\ \A i \in LoadFrames(stack) :
       IF i < Len(stack) THEN stack[i].at = "result"
       ELSE FilesHaveData /\ Unset(stack[i]) => Last(loading) \in Range(program.files)

LEMMA LoadFramesFacts ==
  ASSUME NEW s, IsSeq(s)
  PROVE  /\ LoadFrames(s) \subseteq 1..Len(s) /\ IsFiniteSet(LoadFrames(s))
         /\ Cardinality(LoadFrames(s)) \in Nat
<1>1. Len(s) \in Nat  BY SeqFacts
<1>2. IsFiniteSet(1..Len(s))  BY <1>1, FS_Interval
<1>3. LoadFrames(s) \subseteq 1..Len(s)  BY DEF LoadFrames
<1>4. IsFiniteSet(LoadFrames(s))  BY <1>2, <1>3, FS_Subset
<1> QED BY <1>3, <1>4, FS_CardinalityType

LEMMA FileIsOpen ==
  ASSUME Coherent, Texts, Loads, stack # << >>, Top.fn = "load"
  PROVE  loading # << >> /\ Len(loading) \in Nat \ {0} /\ Last(loading) = loading[Len(loading)]
         /\ Last(loading) \in Range(loading) /\ IsText(Last(loading)) /\ Top = stack[Len(stack)]
<1> DEFINE L == LoadFrames(stack)
           n == Len(stack)
<1>1. n \in Nat \ {0} /\ Top = stack[n] /\ IsSeq(stack)  BY TopFacts DEF Coherent
<1>2. IsFiniteSet(L) /\ Cardinality(L) \in Nat  BY <1>1, LoadFramesFacts
<1>3. n \in L  BY <1>1 DEF LoadFrames
<1> HIDE DEF L, n
<1>4. Cardinality(L) # 0  BY <1>2, <1>3, FS_EmptySet
<1>5. Cardinality(L) <= Len(loading)  BY DEF Loads, L
<1>6. IsSeq(loading)  BY DEF Texts
<1>7. Len(loading) \in Nat  BY <1>6, SeqFacts
<1>8. Len(loading) \in Nat \ {0}  BY <1>2, <1>4, <1>5, <1>7
<1>9. loading # << >>  BY <1>8, Tuples
<1>10. Last(loading) = loading[Len(loading)]  BY DEF Last
<1>11. Len(loading) \in 1..Len(loading)  BY <1>8
<1>12. Last(loading) \in Range(loading)  BY <1>6, <1>10, <1>11, SeqFacts
<1> QED BY <1>1, <1>8, <1>9, <1>10, <1>12 DEF Texts, n

-----------------------------------------------------------------------------
(* main and load keep what is needed alive *)

LEMMA EvalReads ==
  ASSUME Coherent, Alive, stack # << >>, NEW t, IsText(t), t # << >>, NEW at, NEW v, EvalRead(at, v, t),
         Top.fn \notin Building,
         \A T : Lives(T, {}) /\ (\A u : Stays(heap, heap', T, u)) =>
           \A R, Q : Waits(heap', R, Q, Continue(at, v))
  PROVE  AliveNext
<1> DEFINE f == Continue(at, v)
           e == EvalFrame(ReadValue(t))
<1>1. /\ read(t) /\ stack' = Append(TopBecomes(f), e) /\ ret' = NULL
      /\ UNCHANGED <<env, environment_stack>>
  BY DEF EvalRead, Call, others
<1>2. f.fn = Top.fn  BY ContinueIs
<1>3. PICK T : /\ Saved(T) /\ Lives(T, {}) /\ (\A u : Stays(heap, heap', T, u))
               /\ Kept(ReadValue(t), heap')
  BY <1>1, ReadSteps
<1>4. Waits(heap', RootedBefore, OperandsBefore, f)  BY <1>3
<1>5. \A R, Q : Runs(heap', R, Q, e)  BY <1>3, EvalFrameRuns
<1>6. Kept(ret', heap')  BY <1>1, NullKept
<1> HIDE DEF f, e
<1> QED BY <1>1, <1>2, <1>3, <1>4, <1>5, <1>6, Called

LEMMA MainKeepsAlive == Coherent /\ Alive /\ Texts /\ Main => AliveNext
<1> SUFFICES ASSUME Coherent, Alive, Texts, Main PROVE AliveNext
  OBVIOUS
<1>1. CASE main_read
  <2>1. At("main", "read") /\ text # << >> /\ EvalRead("write", << >>, text)  BY <1>1 DEF main_read
  <2>2. stack # << >> /\ Top.fn = "main"  BY <2>1, MainTop
  <2>3. IsText(text)
    <3>1. CASE interactive  BY <3>1 DEF text, Texts
    <3>2. CASE ~ interactive
      <4>1. arguments # << >> /\ text = Head(arguments)  BY <1>1, <3>2 DEF main_read, text
      <4>2. IsSeq(arguments)  BY DEF Texts
      <4> DEFINE S == Range(arguments)
      <4>3. Head(arguments) \in S
        <5>1. arguments \in Seq(S)  BY <4>2 DEF IsSeq
        <5> HIDE DEF S
        <5> QED BY <5>1, <4>1
      <4> QED BY <4>1, <4>3 DEF Texts
    <3> QED BY <3>1, <3>2
  <2> DEFINE v == << >>
             f == Continue("write", v)
  <2>4. f.fn = "main" /\ f.var = << >>  BY <2>2, ContinueIs
  <2> HIDE DEF f
  <2>5. \A R, Q : Waits(heap', R, Q, f)  BY <2>4, MainFrame
  <2>6. Top.fn \notin Building  BY <2>2 DEF Building
  <2> QED BY <2>1, <2>2, <2>3, <2>5, <2>6, EvalReads DEF f
<1>2. CASE main_write
  <2> DEFINE v == << >>
             f == Continue("read", v)
  <2>1. /\ At("main", "write") /\ stack' = TopBecomes(f) /\ ret' = NULL /\ heap' = heap
        /\ UNCHANGED <<env, environment_stack>>
    BY <1>2 DEF main_write, Goto, OnlyTheStack, others
  <2>2. stack # << >> /\ Top.fn = "main"  BY <2>1, MainTop
  <2>3. f.fn = "main" /\ f.var = << >>  BY <2>2, ContinueIs
  <2> HIDE DEF f
  <2>4. Runs(heap', RootedBefore, OperandsBefore, f)  BY <2>3, MainFrame
  <2>5. Saved(DOMAIN heap)  BY <2>1, <2>2, HeapStays
  <2>6. EnvironmentsOK(heap', env', environment_stack')  BY <2>1, <2>5 DEF Saved
  <2> QED BY <2>1, <2>2, <2>3, <2>4, <2>5, <2>6, NullKept, Gone
<1>3. CASE main_return
  <2>1. /\ At("main", "read") /\ Return(NULL) /\ heap' = heap
        /\ UNCHANGED <<env, environment_stack>>
    BY <1>3 DEF main_return, Finish, OnlyTheStack, others
  <2>2. stack # << >>  BY <2>1, MainTop
  <2> QED BY <2>1, <2>2, NullKept, Finishes
<1> QED BY <1>1, <1>2, <1>3 DEF Main

LEMMA LoadBegins == Coherent /\ Alive /\ load_file => AliveNext
<1> SUFFICES ASSUME Coherent, Alive, load_file PROVE AliveNext
  OBVIOUS
<1> DEFINE w == var
           v == [w EXCEPT !.proc = NULL, !.args = NULL]
           f == Continue("loaded", v)
           h == Frame("load", "read", [result |-> Wild])
           g == [h EXCEPT !.pops = 1]
<1>1. /\ At("eval", "primitive") /\ stack' = Append(TopBecomes(f), g) /\ ret' = NULL
      /\ vm_push_environment(TopLevel) /\ heap' = heap
  BY DEF load_file, Calls, Call, called, load_environment
<1>2. /\ stack # << >> /\ Top.fn = "eval" /\ HeapOK(heap) /\ w = EvalVar(exp, w.proc, w.args)
      /\ Kept(exp, heap) /\ EnvironmentsOK(heap, env, environment_stack)
  BY <1>1, EvalAt
<1>3. Saved(DOMAIN heap)  BY <1>1, <1>2, HeapStays
<1>4. v = EvalVar(exp, NULL, NULL)
  <2>1. w = EvalVar(w.exp, w.proc, w.args) /\ w.exp = exp  BY <1>2 DEF exp
  <2> DEFINE u == [w EXCEPT !.proc = NULL]
  <2>2. v = [u EXCEPT !.args = NULL]  OBVIOUS
  <2> HIDE DEF v, w
  <2>3. u = EvalVar(w.exp, NULL, w.args)  BY <2>1, EvalVarFacts
  <2> HIDE DEF u
  <2>4. [u EXCEPT !.args = NULL] = EvalVar(w.exp, NULL, NULL)  BY <2>3 DEF EvalVar
  <2> QED BY <2>1, <2>2, <2>4
<1>5. f.fn = "eval" /\ f.at = "loaded" /\ f.var = v  BY <1>2, ContinueIs
<1> HIDE DEF w, v, f
<1>6. f.var.exp = exp /\ f.var.proc = NULL /\ f.var.args = NULL  BY <1>4, <1>5 DEF EvalVar
<1>7. EvalSound(heap', f) /\ Plain(f)
  BY <1>1, <1>2, <1>4, <1>5, <1>6, NullKept DEF EvalSound, EvalVar, Plain
<1>8. Waits(heap', RootedBefore, OperandsBefore, f)
  <2>1. "loaded" \notin Extending /\ "loaded" # "wrap"  BY DEF Extending
  <2> QED BY <1>5, <1>7, <2>1, EvalWaits
<1>9. g.fn = "load" /\ g.var = [result |-> Wild]
  <2>1. g = [fn |-> "load", at |-> "read", var |-> [result |-> Wild], pops |-> 1,
             entered |-> env, saved |-> Len(environment_stack)]
    BY DEF Frame
  <2> HIDE DEF g
  <2> QED BY <2>1
<1> HIDE DEF g
<1>10. g.var.result = Wild  BY <1>9
<1>11. Runs(heap', RootedBefore \union RootedOf(f), OperandsBefore \union OperandsOf(f), g)
  BY <1>9, <1>10, LoadFrame
<1>12. EnvironmentsOK(heap', env', environment_stack')
  <2>1. IsBindings(TopLevel, heap)  BY <1>2, TopLevelFacts DEF EnvironmentsOK
  <2> QED BY <2>1, <1>1, <1>2, EnvironmentsPush
<1>13. f.fn \notin Building  BY <1>5 DEF Building
<1>14. f.fn = Top.fn /\ Kept(ret', heap')  BY <1>1, <1>2, <1>5, NullKept
<1> QED BY <1>1, <1>2, <1>3, <1>8, <1>11, <1>12, <1>13, <1>14, CalledIn

LEMMA LoadReads == Coherent /\ Alive /\ Texts /\ Loads /\ load_read => AliveNext
<1> SUFFICES ASSUME Coherent, Alive, Texts, Loads, load_read PROVE AliveNext
  OBVIOUS
<1> DEFINE t == Last(loading)
           w == var
           f == Continue("result", w)
<1>1. At("load", "read") /\ t # << >> /\ EvalRead("result", w, t)  BY DEF load_read
<1>2. /\ stack # << >> /\ Top.fn = "load" /\ w = [result |-> w.result]
      /\ Kept(w.result, heap) \/ w.result = Wild
      /\ w.result \in RootedOf(Top)
  BY <1>1, LoadTop
<1>3. IsText(t)  BY <1>2, FileIsOpen
<1>4. f.fn = "load" /\ f.var = w  BY <1>2, ContinueIs
<1> HIDE DEF t, w, f
<1>5. ASSUME NEW T, Lives(T, {}), \A u : Stays(heap, heap', T, u), NEW R, NEW Q
      PROVE  Waits(heap', R, Q, f)
  <2>1. Kept(w.result, heap') \/ w.result = Wild
    <3>1. Here(T, heap, w.result)  BY <1>2, <1>5, RootedTop
    <3> QED BY <3>1, <1>2, <1>5 DEF Stays
  <2> QED BY <2>1, <1>2, <1>4, LoadFrame
<1>6. Top.fn \notin Building  BY <1>2 DEF Building
<1> QED BY <1>1, <1>2, <1>3, <1>5, <1>6, EvalReads DEF f

LEMMA LoadResult == Coherent /\ Alive /\ load_result => AliveNext
<1> SUFFICES ASSUME Coherent, Alive, load_result PROVE AliveNext
  OBVIOUS
<1> DEFINE v == [result |-> ret]
           f == Continue("read", v)
<1>1. /\ At("load", "result") /\ stack' = TopBecomes(f) /\ ret' = NULL /\ heap' = heap
      /\ UNCHANGED <<env, environment_stack>>
  BY DEF load_result, Goto, OnlyTheStack, others
<1>2. stack # << >> /\ Top.fn = "load" /\ Kept(ret, heap)  BY <1>1, LoadTop
<1>3. f.fn = "load" /\ f.var = [result |-> ret]  BY <1>2, ContinueIs
<1> HIDE DEF f
<1>4. f.var.result = ret  BY <1>3
<1>5. Runs(heap', RootedBefore, OperandsBefore, f)  BY <1>1, <1>2, <1>3, <1>4, LoadFrame
<1>6. Saved(DOMAIN heap)  BY <1>1, <1>2, HeapStays
<1>7. EnvironmentsOK(heap', env', environment_stack')  BY <1>1, <1>6 DEF Saved
<1> QED BY <1>1, <1>2, <1>3, <1>5, <1>6, <1>7, NullKept, Gone

(* What a load returns has been set, unless its file was empty. *)
LEMMA LoadReturns == Coherent /\ Alive /\ Texts /\ Loads /\ load_return => AliveNext
<1> SUFFICES ASSUME Coherent, Alive, Texts, Loads, load_return PROVE AliveNext
  OBVIOUS
<1>1. /\ At("load", "read") /\ Last(loading) = << >> /\ Return(var.result)
      /\ PopEnvironments(Top.pops) /\ heap' = heap
  BY DEF load_return
<1>2. /\ stack # << >> /\ Top.fn = "load" /\ Top.at = "read" /\ var = Top.var
      /\ Kept(var.result, heap) \/ var.result = Wild
  BY <1>1, LoadTop
<1>3. Kept(var.result, heap)
  <2> SUFFICES ASSUME var.result = Wild, FilesHaveData PROVE FALSE
    BY <1>2, WildIsNoValue DEF Kept
  <2>1. Len(stack) \in Nat \ {0} /\ Top = stack[Len(stack)]  BY <1>2, TopFacts
  <2>2. Len(stack) \in LoadFrames(stack) /\ ~ (Len(stack) < Len(stack))
    BY <1>2, <2>1 DEF LoadFrames
  <2>3. Unset(stack[Len(stack)])  BY <1>2, <2>1 DEF Unset
  <2>4. Last(loading) \in Range(program.files)  BY <2>2, <2>3 DEF Loads
  <2> QED BY <2>4, <1>1 DEF FilesHaveData, Range
<1>4. Saved(DOMAIN heap)  BY <1>1, <1>2, HeapStays
<1> QED BY <1>1, <1>2, <1>3, <1>4, Returned

LEMMA LoadKeepsAlive == Coherent /\ Alive /\ Texts /\ Loads /\ Load => AliveNext
<1> SUFFICES ASSUME Coherent, Alive, Texts, Loads, Load PROVE AliveNext
  OBVIOUS
<1>1. CASE load_no_file  BY <1>1, AtFacts, Exited DEF load_no_file, Calls
<1>2. CASE load_loaded
  <2>1. At("eval", "loaded") /\ EvalReturn(ret) /\ UNCHANGED heap  BY <1>2 DEF load_loaded
  <2>2. Kept(ret, heap)  BY <2>1, EvalAt
  <2> QED BY <2>1, <2>2, EvalReturns
<1> QED BY <1>1, <1>2, LoadBegins, LoadReads, LoadResult, LoadReturns DEF Load

LEMMA OtherKeepsAlive == Coherent /\ Alive /\ Texts /\ Other => AliveNext
<1> SUFFICES ASSUME Coherent, Alive, Texts, Other PROVE AliveNext
  OBVIOUS
<1>1. CASE call_read
  <2>1. /\ At("eval", "primitive") /\ read(stdin)
        /\ EvalReturn(IF stdin = << >> THEN eof ELSE ReadValue(stdin))
    BY <1>1 DEF call_read, Calls
  <2>2. stack # << >>  BY <2>1, EvalAt
  <2>3. CASE stdin = << >>
    <3>1. heap' = heap /\ EvalReturn(eof)  BY <2>1, <2>3 DEF read
    <3>2. Kept(eof, heap)  BY ValuesKept
    <3> QED BY <2>1, <3>1, <3>2, EvalReturns
  <2>4. CASE stdin # << >>
    <3>1. EvalReturn(ReadValue(stdin)) /\ IsText(stdin)  BY <2>1, <2>4 DEF Texts
    <3>2. PICK T : Saved(T) /\ Kept(ReadValue(stdin), heap')  BY <2>1, <2>2, <2>4, <3>1, ReadSteps
    <3> QED BY <2>2, <3>1, <3>2, EvalReturned
  <2> QED BY <2>3, <2>4
<1>2. CASE call_write \/ call_gc_info
  <2>1. At("eval", "primitive") /\ EvalReturn(ok_symbol) /\ UNCHANGED heap
    BY <1>2 DEF call_write, call_gc_info, Calls
  <2>2. Kept(ok_symbol, heap)  BY NamedSymbols, ValuesKept
  <2> QED BY <2>1, <2>2, EvalReturns
<1>3. CASE call_error  BY <1>3, AtFacts, Exited DEF call_error, Calls
<1>4. CASE call_start_environment
  <2> DEFINE b == init_environment
  <2>1. /\ At("eval", "primitive") /\ environment_create(NULL, b)
        /\ Goto("wrap", [var EXCEPT !.proc = NULL, !.args = NewAddr])
        /\ UNCHANGED <<env, environment_stack>>
    BY <1>4 DEF call_start_environment, Calls, others
  <2>2. \A x \in DOMAIN b : b[x] \in Outside  BY DEF Outside, Range
  <2> HIDE DEF b
  <2> QED BY <2>1, <2>2, EnvironmentCreated
<1>5. CASE call_predicate
  <2> DEFINE b == Truth(Holds(var.proc, car(args)))
  <2>1. At("eval", "primitive") /\ EvalReturn(b) /\ UNCHANGED heap  BY <1>5 DEF call_predicate
  <2>2. b \in {true, false}  BY DEF Truth
  <2> HIDE DEF b
  <2>3. Kept(b, heap)  BY <2>2, ValuesKept
  <2> QED BY <2>1, <2>3, EvalReturns
<1> QED BY <1>1, <1>2, <1>3, <1>4, <1>5 DEF Other

LEMMA SessionKeepsAlive ==
  Coherent /\ Alive /\ Texts /\ Loads /\ WellFormed /\ [SessionNext]_sessionVars => AliveNext
<1> SUFFICES ASSUME Coherent, Alive, Texts, Loads, WellFormed, [SessionNext]_sessionVars PROVE AliveNext
  OBVIOUS
<1>1. CASE Step  BY <1>1, NextKeepsAlive DEF Next
<1>2. CASE UNCHANGED vars  BY <1>2, NextKeepsAlive
<1> QED BY <1>1, <1>2, MainKeepsAlive, LoadKeepsAlive, OtherKeepsAlive
        DEF SessionNext, SessionStep, main_end, sessionVars

-----------------------------------------------------------------------------
(* The texts stay texts *)

LEMMA SessionKeepsProgram == [SessionNext]_sessionVars => program' = program
<1>1. Main => program' = program
  BY DEF Main, main_read, main_write, main_return, EvalRead, Finish, OnlyTheStack, others
<1>2. Load => program' = program
  BY DEF Load, load_file, load_no_file, load_read, load_result, load_return, load_loaded,
         EvalRead, EvalReturn, Exit, OnlyTheStack, others
<1>3. Other => program' = program
  BY DEF Other, call_read, call_write, call_error, call_start_environment, call_gc_info,
         call_predicate, EvalReturn, Exit, others
<1> QED BY <1>1, <1>2, <1>3, StepKeepsProgram
        DEF SessionNext, SessionStep, main_end, sessionVars, vars

LEMMA SessionReads ==
  [SessionNext]_sessionVars =>
    /\ stdin' \in {stdin, Rest(stdin)} /\ arguments' \in {arguments, Rest(arguments)}
    /\ load_file \/ load_read \/ load_return \/ loading' = loading
<1>1. Main => /\ stdin' \in {stdin, Rest(stdin)} /\ arguments' \in {arguments, Rest(arguments)}
              /\ loading' = loading
  BY DEF Main, main_read, main_write, main_return, streams
<1>2. Load => /\ stdin' = stdin /\ arguments' = arguments
              /\ load_file \/ load_read \/ load_return \/ loading' = loading
  BY DEF Load, load_file, load_no_file, load_read, load_result, load_return, load_loaded, streams
<1>3. Other => /\ stdin' \in {stdin, Rest(stdin)} /\ arguments' = arguments /\ loading' = loading
  BY DEF Other, call_read, call_write, call_error, call_start_environment, call_gc_info,
         call_predicate, streams
<1> QED BY <1>1, <1>2, <1>3
        DEF SessionNext, SessionStep, main_end, sessionVars, streams

(* The three steps that read a file, by what they do to the frames. *)
LEMMA FileSteps ==
  ASSUME Coherent, Alive, Texts, Loads
  PROVE  /\ load_file => \E f, g : \E n \in DOMAIN program.files :
              /\ stack # << >> /\ stack' = Append(TopBecomes(f), g) /\ f.fn = Top.fn /\ f.fn # "load"
              /\ g.fn = "load" /\ loading' = Append(loading, program.files[n])
         /\ load_read => \E f, g :
              /\ stack # << >> /\ Top.fn = "load" /\ stack' = Append(TopBecomes(f), g)
              /\ f.fn = Top.fn /\ f.at = "result" /\ g.fn # "load"
              /\ loading' = Front(loading) \o <<Rest(Last(loading))>>
         /\ load_return =>
              /\ stack # << >> /\ Top.fn = "load" /\ stack' = Front(stack) /\ loading' = Front(loading)
<1>1. ASSUME load_file
      PROVE  \E f, g : \E n \in DOMAIN program.files :
              /\ stack # << >> /\ stack' = Append(TopBecomes(f), g) /\ f.fn = Top.fn /\ f.fn # "load"
              /\ g.fn = "load" /\ loading' = Append(loading, program.files[n])
  <2> DEFINE f == Continue("loaded", called)
             h == Frame("load", "read", [result |-> Wild])
             g == [h EXCEPT !.pops = 1]
             n == heap[car(args)].value
  <2>1. /\ At("eval", "primitive") /\ stack' = Append(TopBecomes(f), g)
        /\ n \in DOMAIN program.files /\ loading' = Append(loading, program.files[n])
    BY <1>1 DEF load_file, Calls, Call
  <2>2. stack # << >> /\ Top.fn = "eval"  BY <2>1, AtFacts
  <2>3. f.fn = Top.fn  BY <2>2, ContinueIs
  <2>4. g.fn = "load"
    <3>1. h = [fn |-> "load", at |-> "read", var |-> [result |-> Wild], pops |-> 0,
               entered |-> env, saved |-> Len(environment_stack)]
      BY DEF Frame
    <3> HIDE DEF h
    <3> QED BY <3>1
  <2> HIDE DEF f, g, n
  <2> QED BY <2>1, <2>2, <2>3, <2>4
<1>2. ASSUME load_read
      PROVE  \E f, g :
              /\ stack # << >> /\ Top.fn = "load" /\ stack' = Append(TopBecomes(f), g)
              /\ f.fn = Top.fn /\ f.at = "result" /\ g.fn # "load"
              /\ loading' = Front(loading) \o <<Rest(Last(loading))>>
  <2> DEFINE f == Continue("result", var)
             g == EvalFrame(ReadValue(Last(loading)))
  <2>1. /\ At("load", "read") /\ stack' = Append(TopBecomes(f), g)
        /\ loading' = Front(loading) \o <<Rest(Last(loading))>>
    BY <1>2 DEF load_read, EvalRead, Call
  <2>2. stack # << >> /\ Top.fn = "load"  BY <2>1, AtFacts
  <2>3. f.fn = Top.fn /\ f.at = "result"  BY <2>2, ContinueIs
  <2>4. g.fn # "load"  BY DEF EvalFrame, Frame
  <2> HIDE DEF f, g
  <2> QED BY <2>1, <2>2, <2>3, <2>4
<1>3. ASSUME load_return
      PROVE  /\ stack # << >> /\ Top.fn = "load" /\ stack' = Front(stack)
             /\ loading' = Front(loading)
  BY <1>3, AtFacts DEF load_return, Return
<1> QED BY <1>1, <1>2, <1>3

(* The files being loaded, after such a step. *)
LEMMA FrontFacts ==
  ASSUME NEW s, IsSeq(s), s # << >>
  PROVE  /\ IsSeq(Front(s)) /\ Len(s) \in Nat \ {0} /\ Len(Front(s)) = Len(s) - 1
         /\ Range(Front(s)) \subseteq Range(s)
         /\ \A i \in 1..(Len(s) - 1) : Front(s)[i] = s[i]
<1> DEFINE n == Len(s)
           t == Front(s)
<1>1. n \in Nat \ {0}  BY SeqFacts
<1> DEFINE m == n - 1
<1>2. m \in 0..n /\ t = SubSeq(s, 1, m)  BY <1>1 DEF Front
<1> HIDE DEF t, m
<1>3. IsSeq(t)  BY <1>2, SubSeqFacts
<1>4. Len(t) = m  BY <1>2, SubSeqFacts
<1>5. \A i \in 1..m : t[i] = s[i]  BY <1>2, SubSeqFacts
<1>6. Range(t) \subseteq Range(s)
  <2> SUFFICES ASSUME NEW v \in Range(t) PROVE v \in Range(s)
    OBVIOUS
  <2>1. PICK i \in DOMAIN t : v = t[i]  BY DEF Range
  <2>2. i \in 1..m  BY <2>1, <1>3, <1>4, SeqFacts
  <2>3. i \in 1..n /\ v = s[i]  BY <2>1, <2>2, <1>1, <1>2, <1>5
  <2> QED BY <2>3, SeqFacts
<1> QED BY <1>1, <1>3, <1>4, <1>5, <1>6 DEF m, t

LEMMA AppendRange ==
  ASSUME NEW s, IsSeq(s), NEW e
  PROVE  \A v \in Range(Append(s, e)) : v \in Range(s) \/ v = e
<1> DEFINE t == Append(s, e)
           n == Len(s)
<1>1. n \in Nat /\ \A i \in 1..n : s[i] \in Range(s)  BY SeqFacts
<1>2. IsSeq(t) /\ Len(t) = n + 1 /\ t[n + 1] = e /\ \A i \in 1..n : t[i] = s[i]
  BY AppendFacts
<1> HIDE DEF t, n
<1> SUFFICES ASSUME NEW v \in Range(t) PROVE v \in Range(s) \/ v = e
  BY DEF t
<1>3. PICK i \in DOMAIN t : v = t[i]  BY DEF Range
<1>4. i \in 1..n \/ i = n + 1  BY <1>1, <1>2, <1>3, SeqFacts
<1> QED BY <1>1, <1>2, <1>3, <1>4

LEMMA NextFile ==
  ASSUME NEW s, IsSeq(s), s # << >>, NEW e
  PROVE  LET t == Front(s) \o <<e>> IN
           /\ IsSeq(t) /\ Len(t) = Len(s)
           /\ \A v \in Range(t) : v \in Range(s) \/ v = e
<1> DEFINE u == Front(s)
<1>1. IsSeq(u) /\ Len(u) = Len(s) - 1 /\ Range(u) \subseteq Range(s) /\ Len(s) \in Nat \ {0}
  BY FrontFacts
<1> HIDE DEF u
<1>2. u \o <<e>> = Append(u, e)
  <2> DEFINE S == Range(u) \union {e}
  <2>1. u \in Seq(S) /\ e \in S  BY <1>1, WidenSeq
  <2> HIDE DEF S
  <2> QED BY <2>1, AppendIsConcat
<1> DEFINE t == Append(u, e)
<1>3. IsSeq(t) /\ Len(t) = Len(u) + 1 /\ \A v \in Range(t) : v \in Range(u) \/ v = e
  <2>1. IsSeq(t)  BY <1>1, AppendFacts
  <2>2. Len(t) = Len(u) + 1  BY <1>1, AppendFacts
  <2>3. \A v \in Range(t) : v \in Range(u) \/ v = e  BY <1>1, AppendRange
  <2> QED BY <2>1, <2>2, <2>3
<1> HIDE DEF t
<1>4. Len(t) = Len(s)  BY <1>1, <1>3
<1>5. \A v \in Range(t) : v \in Range(s) \/ v = e  BY <1>1, <1>3
<1> QED BY <1>2, <1>3, <1>4, <1>5 DEF t, u

LEMMA TextsStay ==
  ASSUME Coherent, Alive, Texts, Loads, [SessionNext]_sessionVars
  PROVE  Texts'
<1>1. program' = program  BY SessionKeepsProgram
<1>2. /\ stdin' \in {stdin, Rest(stdin)} /\ arguments' \in {arguments, Rest(arguments)}
      /\ load_file \/ load_read \/ load_return \/ loading' = loading
  BY SessionReads
<1>3. IsText(stdin')  BY <1>2, TextFacts DEF Texts
<1>4. IsSeq(arguments') /\ \A t \in Range(arguments') : IsText(t)
  <2>1. IsSeq(arguments) /\ \A t \in Range(arguments) : IsText(t)  BY DEF Texts
  <2>2. CASE arguments' = Rest(arguments) /\ arguments # << >>
    <3> DEFINE S == Range(arguments)
               u == Tail(arguments)
    <3>1. arguments \in Seq(S)  BY <2>1 DEF IsSeq
    <3>2. u \in Seq(S)
      <4> HIDE DEF S
      <4> QED BY <3>1, <2>2
    <3>3. arguments' = u  BY <2>2 DEF Rest
    <3> HIDE DEF u
    <3>4. IsSeq(u) /\ \A i \in DOMAIN u : u[i] \in S
      <4> HIDE DEF S
      <4> QED BY <3>2, AnySeq
    <3>5. \A t \in Range(u) : t \in S  BY <3>4 DEF Range
    <3> QED BY <2>1, <3>3, <3>4, <3>5
  <2>3. arguments = << >> => Rest(arguments) = arguments  BY DEF Rest
  <2> QED BY <2>1, <2>2, <2>3, <1>2
<1>5. IsSeq(loading') /\ \A t \in Range(loading') : IsText(t)
  <2>1. IsSeq(loading) /\ \A t \in Range(loading) : IsText(t)  BY DEF Texts
  <2>2. CASE load_file
    <3>1. PICK n \in DOMAIN program.files : loading' = Append(loading, program.files[n])
      BY <2>2, FileSteps
    <3>2. IsText(program.files[n])  BY DEF Texts
    <3>3. IsSeq(loading')  BY <2>1, <3>1, AppendFacts
    <3> QED BY <2>1, <3>1, <3>2, <3>3, AppendRange
  <2>3. CASE load_read
    <3> DEFINE e == Rest(Last(loading))
    <3>1. stack # << >> /\ Top.fn = "load" /\ loading' = Front(loading) \o <<e>>
      BY <2>3, FileSteps
    <3>2. loading # << >> /\ IsText(Last(loading))  BY <3>1, FileIsOpen
    <3>3. IsText(e)  BY <3>2, TextFacts
    <3> HIDE DEF e
    <3> QED BY <2>1, <3>1, <3>2, <3>3, NextFile
  <2>4. CASE load_return
    <3>1. stack # << >> /\ Top.fn = "load" /\ loading' = Front(loading)
      BY <2>4, FileSteps
    <3>2. loading # << >>  BY <3>1, FileIsOpen
    <3> QED BY <2>1, <3>1, <3>2, FrontFacts
  <2>5. CASE loading' = loading  BY <2>1, <2>5
  <2> QED BY <1>2, <2>2, <2>3, <2>4, <2>5
<1>6. \A f \in DOMAIN program'.files : IsText(program'.files[f])  BY <1>1 DEF Texts
<1> QED BY <1>3, <1>4, <1>5, <1>6 DEF Texts

-----------------------------------------------------------------------------
(* There is a file for each load *)

LEMMA TopBecomesFacts ==
  ASSUME Coherent, stack # << >>, NEW f, f.fn = Top.fn
  PROVE  LET t == TopBecomes(f)  n == Len(stack) IN
           /\ n \in Nat \ {0} /\ IsSeq(stack) /\ IsSeq(t) /\ Len(t) = n /\ t[n] = f
           /\ \A i \in 1..n : t[i].fn = stack[i].fn /\ (i # n => t[i] = stack[i])
<1> DEFINE n == Len(stack)
           t == [stack EXCEPT ![n] = f]
<1>1. n \in Nat \ {0} /\ Top = stack[n] /\ IsSeq(stack) /\ n \in 1..n  BY TopFacts DEF Coherent
<1>2. IsSeq(t)  BY <1>1, ExceptFacts
<1>3. Len(t) = n  BY <1>1, ExceptFacts
<1>4. t[n] = f  BY <1>1, ExceptFacts
<1>5. \A i \in 1..n : i # n => t[i] = stack[i]  BY <1>1, ExceptFacts
<1>6. TopBecomes(f) = t  BY DEF TopBecomes
<1> HIDE DEF t
<1>7. \A i \in 1..n : t[i].fn = stack[i].fn  BY <1>1, <1>4, <1>5
<1> QED BY <1>1, <1>2, <1>3, <1>4, <1>5, <1>6, <1>7

LEMMA GoLoads ==
  ASSUME Coherent, Loads, stack # << >>, NEW f, f.fn = Top.fn, stack' = TopBecomes(f),
         f.fn = "load" /\ FilesHaveData => f.var.result # Wild,
         loading' = loading, program' = program
  PROVE  Loads'
<1> DEFINE n == Len(stack)
<1>1. /\ n \in Nat \ {0} /\ Len(stack') = n /\ stack'[n] = f
      /\ \A i \in 1..n : stack'[i].fn = stack[i].fn /\ (i # n => stack'[i] = stack[i])
  BY TopBecomesFacts
<1>2. LoadFrames(stack') = LoadFrames(stack)  BY <1>1 DEF LoadFrames
<1>3. FilesHaveData' <=> FilesHaveData  BY DEF FilesHaveData
<1>4. ASSUME NEW i \in LoadFrames(stack')
      PROVE  IF i < Len(stack') THEN stack'[i].at = "result"
             ELSE FilesHaveData' /\ Unset(stack'[i]) => Last(loading') \in Range(program'.files)
  <2>1. i \in 1..n /\ i \in LoadFrames(stack) /\ stack'[i].fn = "load"  BY <1>1, <1>2 DEF LoadFrames
  <2>2. CASE i # n  BY <2>1, <2>2, <1>1 DEF Loads
  <2>3. CASE i = n  BY <2>1, <2>3, <1>1, <1>3 DEF Unset
  <2> QED BY <2>2, <2>3
<1> QED BY <1>2, <1>4 DEF Loads

LEMMA CallLoads ==
  ASSUME Coherent, Loads, IsSeq(loading), stack # << >>, NEW f, NEW g, f.fn = Top.fn,
         stack' = Append(TopBecomes(f), g), f.fn = "load" => f.at = "result",
         \/ g.fn # "load" /\ Len(loading') = Len(loading)
         \/ g.fn = "load" /\ \E n \in DOMAIN program.files : loading' = Append(loading, program.files[n]),
         program' = program
  PROVE  Loads'
<1> DEFINE n == Len(stack)
           t == TopBecomes(f)
           L == LoadFrames(stack)
<1>1. /\ n \in Nat \ {0} /\ IsSeq(stack) /\ IsSeq(t) /\ Len(t) = n /\ t[n] = f
      /\ \A i \in 1..n : t[i].fn = stack[i].fn /\ (i # n => t[i] = stack[i])
  BY TopBecomesFacts
<1>2. Len(stack') = n + 1 /\ stack'[n + 1] = g /\ \A i \in 1..n : stack'[i] = t[i]
  <2> HIDE DEF t
  <2>1. Len(stack') = n + 1  BY <1>1, AppendFacts DEF t
  <2>2. stack'[n + 1] = g  BY <1>1, AppendFacts DEF t
  <2>3. \A i \in 1..n : stack'[i] = t[i]  BY <1>1, AppendFacts DEF t
  <2> QED BY <2>1, <2>2, <2>3
<1> HIDE DEF t
<1>3. L \subseteq 1..n /\ IsFiniteSet(L) /\ Cardinality(L) \in Nat /\ n + 1 \notin L
  BY <1>1, LoadFramesFacts
<1>4. \A i \in 1..(n + 1) : i \in 1..n \/ i = n + 1  BY <1>1
<1>5. LoadFrames(stack') = IF g.fn = "load" THEN L \union {n + 1} ELSE L
  <2>1. ASSUME NEW i PROVE i \in LoadFrames(stack') <=> i \in L \/ (i = n + 1 /\ g.fn = "load")
    <3>1. i \in LoadFrames(stack') <=> i \in 1..(n + 1) /\ stack'[i].fn = "load"
      BY <1>2 DEF LoadFrames
    <3>2. i \in L <=> i \in 1..n /\ stack[i].fn = "load"  BY DEF LoadFrames
    <3>3. i \in 1..n => i \in 1..(n + 1) /\ stack'[i].fn = stack[i].fn  BY <1>1, <1>2
    <3>4. n + 1 \in 1..(n + 1) /\ n + 1 \notin 1..n  BY <1>1
    <3> QED BY <1>2, <1>4, <3>1, <3>2, <3>3, <3>4
  <2> HIDE DEF L
  <2> QED BY <2>1
<1>6. Cardinality(L) <= Len(loading) /\ Len(loading) \in Nat  BY SeqFacts DEF Loads
<1>7. /\ Cardinality(LoadFrames(stack')) <= Len(loading')
      /\ g.fn = "load" => Last(loading') \in Range(program.files)
  <2> HIDE DEF L
  <2>1. CASE g.fn # "load"  BY <2>1, <1>5, <1>6
  <2>2. CASE g.fn = "load"
    <3>1. PICK k \in DOMAIN program.files : loading' = Append(loading, program.files[k])
      BY <2>2
    <3> DEFINE e == program.files[k]
    <3>2. e \in Range(program.files)  BY DEF Range
    <3>3. loading' = Append(loading, e)  BY <3>1
    <3> HIDE DEF e
    <3>4. Len(loading') = Len(loading) + 1  BY <3>3, AppendFacts
    <3>5. loading'[Len(loading) + 1] = e  BY <3>3, AppendFacts
    <3>6. Last(loading') = e  BY <3>4, <3>5 DEF Last
    <3>7. Cardinality(L \union {n + 1}) = Cardinality(L) + 1  BY <1>3, FS_AddElement
    <3> QED BY <2>2, <1>3, <1>5, <1>6, <3>2, <3>4, <3>6, <3>7
  <2> QED BY <2>1, <2>2
<1>8. ASSUME NEW i \in LoadFrames(stack')
      PROVE  IF i < Len(stack') THEN stack'[i].at = "result"
             ELSE FilesHaveData' /\ Unset(stack'[i]) => Last(loading') \in Range(program'.files)
  <2>1. i \in L \/ (i = n + 1 /\ g.fn = "load")
    <3> HIDE DEF L
    <3> QED BY <1>5
  <2>2. CASE i \in L
    <3>1. i \in 1..n /\ i < n + 1 /\ stack[i].fn = "load"  BY <2>2, <1>1 DEF LoadFrames
    <3>2. CASE i # n
      <4>1. i < n /\ stack'[i] = stack[i]  BY <3>1, <3>2, <1>1, <1>2
      <4> QED BY <4>1, <2>2, <3>1, <1>2 DEF Loads
    <3>3. CASE i = n
      <4>1. stack'[i] = f /\ f.fn = "load"  BY <3>1, <3>3, <1>1, <1>2
      <4> QED BY <4>1, <3>1, <1>2
    <3> QED BY <3>2, <3>3
  <2>3. CASE i = n + 1 /\ g.fn = "load"  BY <2>3, <1>1, <1>2, <1>7
  <2> QED BY <2>1, <2>2, <2>3
<1> QED BY <1>7, <1>8 DEF Loads

LEMMA ReturnLoads ==
  ASSUME Coherent, Loads, IsSeq(loading), stack # << >>, stack' = Front(stack),
         IF Top.fn = "load" THEN loading' = Front(loading) /\ loading # << >> ELSE loading' = loading
  PROVE  Loads'
<1> DEFINE n == Len(stack)
           L == LoadFrames(stack)
<1>1. n \in Nat \ {0} /\ IsSeq(stack) /\ Top = stack[n]  BY TopFacts DEF Coherent
<1>2. Len(stack') = n - 1 /\ \A i \in 1..(n - 1) : stack'[i] = stack[i]
  BY <1>1, FrontFacts
<1>3. L \subseteq 1..n /\ IsFiniteSet(L) /\ Cardinality(L) \in Nat  BY <1>1, LoadFramesFacts
<1>4. \A i \in 1..n : i \in 1..(n - 1) \/ i = n  BY <1>1
<1>5. LoadFrames(stack') = L \ {n}
  <2>1. ASSUME NEW i PROVE i \in LoadFrames(stack') <=> i \in L /\ i # n
    <3>1. i \in LoadFrames(stack') <=> i \in 1..(n - 1) /\ stack'[i].fn = "load"
      BY <1>2 DEF LoadFrames
    <3>2. i \in L <=> i \in 1..n /\ stack[i].fn = "load"  BY DEF LoadFrames
    <3>3. i \in 1..(n - 1) => i \in 1..n /\ i # n /\ stack'[i] = stack[i]  BY <1>1, <1>2
    <3> QED BY <1>4, <3>1, <3>2, <3>3
  <2> HIDE DEF L
  <2> QED BY <2>1
<1>6. Cardinality(L) <= Len(loading) /\ Len(loading) \in Nat  BY SeqFacts DEF Loads
<1>7. Cardinality(LoadFrames(stack')) <= Len(loading')
  <2>1. n \in L <=> Top.fn = "load"  BY <1>1 DEF LoadFrames
  <2> HIDE DEF L
  <2>2. CASE Top.fn = "load"
    <3>1. Len(loading') = Len(loading) - 1  BY <2>2, FrontFacts
    <3>2. Cardinality(L \ {n}) = Cardinality(L) - 1  BY <1>3, <2>1, <2>2, FS_RemoveElement
    <3> QED BY <3>1, <3>2, <1>3, <1>5, <1>6
  <2>3. CASE Top.fn # "load"
    <3>1. L \ {n} = L  BY <2>1, <2>3
    <3> QED BY <3>1, <2>3, <1>5, <1>6
  <2> QED BY <2>2, <2>3
<1>8. ASSUME NEW i \in LoadFrames(stack') PROVE stack'[i].at = "result"
  <2>1. i \in L /\ i \in 1..(n - 1)  BY <1>2, <1>5 DEF LoadFrames
  <2>2. i < n /\ stack'[i] = stack[i]  BY <2>1, <1>1, <1>2
  <2> QED BY <2>1, <2>2 DEF Loads
<1>9. ASSUME NEW i \in LoadFrames(stack')
      PROVE  IF i < Len(stack') THEN stack'[i].at = "result"
             ELSE FilesHaveData' /\ Unset(stack'[i]) => Last(loading') \in Range(program'.files)
  BY <1>8, <1>9 DEF Unset
<1> QED BY <1>7, <1>9 DEF Loads

LEMMA ActsKeepLoads ==
  ASSUME Coherent, Alive, Texts, Loads, Acts, loading' = loading, program' = program
  PROVE  Loads'
<1>0. IsSeq(loading) /\ Len(loading) \in Nat  BY SeqFacts DEF Texts
<1>1. stack # << >>  BY DEF Acts
<1>2. Kept(ret, heap)  BY DEF Alive
<1>3. ASSUME NEW f, Goes(f) PROVE Loads'
  <2>1. f.fn = Top.fn /\ stack' = TopBecomes(f) /\ (f.fn = "load" => f.var.result = ret)
    BY <1>3 DEF Goes, SameCall
  <2>2. f.fn = "load" /\ FilesHaveData => f.var.result # Wild  BY <2>1, <1>2 DEF Kept
  <2> QED BY <1>1, <2>1, <2>2, GoLoads
<1>4. ASSUME NEW f, NEW g, Enters(f, g) PROVE Loads'
  <2>1. /\ f.fn = Top.fn /\ stack' = Append(TopBecomes(f), g) /\ (f.fn = "load" => f.at = "result")
        /\ g.fn = "load" => \E file : loading' = Append(loading, file)
    BY <1>4 DEF Enters, SameCall
  <2>2. g.fn # "load"
    <3> SUFFICES ASSUME NEW file, loading' = Append(loading, file) PROVE FALSE
      BY <2>1
    <3>1. Len(loading') = Len(loading) + 1  BY <1>0, AppendFacts
    <3> QED BY <3>1, <1>0
  <2> QED BY <1>0, <1>1, <2>1, <2>2, CallLoads
<1>5. CASE Leaves
  <2>1. stack' = Front(stack) /\ (Top.fn = "load" => loading' = Front(loading))  BY <1>5 DEF Leaves
  <2>2. Top.fn # "load"
    <3> SUFFICES ASSUME Top.fn = "load" PROVE FALSE
      OBVIOUS
    <3>1. loading # << >>  BY <1>1, FileIsOpen
    <3>2. Len(Front(loading)) = Len(loading) - 1  BY <1>0, <3>1, FrontFacts
    <3> QED BY <2>1, <3>2, <1>0
  <2> QED BY <1>0, <1>1, <2>1, <2>2, ReturnLoads
<1>6. CASE Exits
  <2>1. stack' = << >> /\ Len(stack') = 0  BY <1>6, Tuples DEF Exits
  <2>2. LoadFrames(stack') = {}  BY <2>1 DEF LoadFrames
  <2>3. Cardinality(LoadFrames(stack')) = 0  BY <2>2, FS_EmptySet
  <2> QED BY <1>0, <2>2, <2>3 DEF Loads
<1> QED BY <1>3, <1>4, <1>5, <1>6 DEF Acts

LEMMA LoadsStay ==
  ASSUME Coherent, Alive, Texts, Loads, [SessionNext]_sessionVars
  PROVE  Loads'
<1>0. program' = program /\ IsSeq(loading)  BY SessionKeepsProgram DEF Texts
<1>1. CASE load_file
  <2>1. PICK f, g : \E n \in DOMAIN program.files :
          /\ stack # << >> /\ stack' = Append(TopBecomes(f), g) /\ f.fn = Top.fn /\ f.fn # "load"
          /\ g.fn = "load" /\ loading' = Append(loading, program.files[n])
    BY <1>1, FileSteps
  <2> QED BY <1>0, <2>1, CallLoads
<1>2. CASE load_read
  <2>1. PICK f, g :
          /\ stack # << >> /\ Top.fn = "load" /\ stack' = Append(TopBecomes(f), g)
          /\ f.fn = Top.fn /\ f.at = "result" /\ g.fn # "load"
          /\ loading' = Front(loading) \o <<Rest(Last(loading))>>
    BY <1>2, FileSteps
  <2>2. loading # << >>  BY <2>1, FileIsOpen
  <2>3. Len(loading') = Len(loading)  BY <1>0, <2>1, <2>2, NextFile
  <2> QED BY <1>0, <2>1, <2>3, CallLoads
<1>3. CASE load_return
  <2>1. /\ stack # << >> /\ Top.fn = "load" /\ stack' = Front(stack) /\ loading' = Front(loading)
    BY <1>3, FileSteps
  <2>2. loading # << >>  BY <2>1, FileIsOpen
  <2> QED BY <1>0, <2>1, <2>2, ReturnLoads
<1>4. CASE loading' = loading
  <2>1. Acts \/ UNCHANGED vars  BY SessionActs DEF sessionVars
  <2>2. CASE UNCHANGED vars
    <3>1. FilesHaveData' <=> FilesHaveData  BY <1>0 DEF FilesHaveData
    <3>2. stack' = stack  BY <2>2 DEF vars
    <3> QED BY <1>0, <1>4, <3>1, <3>2 DEF Loads
  <2> QED BY <1>0, <1>4, <2>1, <2>2, ActsKeepLoads
<1> QED BY <1>1, <1>2, <1>3, <1>4, SessionReads

-----------------------------------------------------------------------------
(* The beginning of a session *)

LEMMA SessionBegins == TextsAreRead /\ SessionInit => Alive /\ Texts /\ Loads
<1> SUFFICES ASSUME TextsAreRead, SessionInit PROVE Alive /\ Texts /\ Loads
  OBVIOUS
<1>1. PICK p \in Programs :
        /\ program = p /\ stdin = p.stdin /\ arguments = p.arguments /\ loading = << >>
        /\ heap = <<Bindings(NULL, init_environment)>> /\ env = 1 /\ environment_stack = << >>
        /\ stack = <<Frame("main", "read", << >>)>> /\ ret = NULL
  BY DEF SessionInit
<1>2. Texts
  <2>1. /\ IsText(p.stdin) /\ \A f \in DOMAIN p.files : IsText(p.files[f])
        /\ p.arguments \in Seq(Range(p.arguments)) /\ \A t \in Range(p.arguments) : IsText(t)
    BY DEF TextsAreRead
  <2>2. IsSeq(loading) /\ Range(loading) = {}  BY <1>1, Tuples DEF Range
  <2>3. IsSeq(arguments)  BY <1>1, <2>1 DEF IsSeq
  <2> QED BY <1>1, <2>1, <2>2, <2>3 DEF Texts
<1> DEFINE first == Bindings(NULL, init_environment)
           f == Frame("main", "read", << >>)
<1>3. stack = <<f>> /\ heap = <<first>>  BY <1>1
<1>4. f.fn = "main" /\ f.var = << >>  BY DEF Frame
<1>5. first.kind = "bindings" /\ first = Bindings(first.parent, first.bindings) /\ first.parent = NULL
      /\ first.bindings = init_environment
  BY DEF Bindings
<1> HIDE DEF first, f
<1>6. /\ IsSeq(heap) /\ Len(heap) = 1 /\ heap[1] = first /\ 1 \in 1..1 /\ \A i \in 1..1 : i = 1
      /\ Len(stack) = 1 /\ stack[1] = f
  BY <1>3, Tuples
<1>7. ObjectOK(heap, 1, first)
  <2>1. \A x \in DOMAIN init_environment : init_environment[x] \in Outside  BY DEF Range, Outside
  <2>2. \A x \in DOMAIN first.bindings : Kept(first.bindings[x], heap)
    BY <2>1, <1>5, OutsideFacts
  <2> QED BY <2>2, <1>5 DEF ObjectOK
<1>8. HeapOK(heap)  BY <1>6, <1>7 DEF HeapOK
<1>9. EnvironmentsOK(heap, env, environment_stack)
  <2>1. IsBindings(1, heap)  BY <1>5, <1>6 DEF IsBindings
  <2>2. IsSeq(environment_stack) /\ Len(environment_stack) = 0  BY <1>1, Tuples
  <2> QED BY <1>1, <2>1, <2>2 DEF EnvironmentsOK
<1>10. FramesSafe(heap, stack)  BY <1>4, <1>6, MainFrame DEF FramesSafe
<1>11. Ordered(stack)  BY <1>6 DEF Ordered
<1>12. Alive  BY <1>1, <1>8, <1>9, <1>10, <1>11, NullKept DEF Alive
<1>13. Loads
  <2>1. LoadFrames(stack) = {}  BY <1>4, <1>6 DEF LoadFrames
  <2>2. Cardinality(LoadFrames(stack)) = 0  BY <2>1, FS_EmptySet
  <2>3. Len(loading) = 0  BY <1>1, Tuples
  <2> QED BY <2>1, <2>2, <2>3 DEF Loads
<1> QED BY <1>2, <1>12, <1>13

LEMMA NothingIsWild == Coherent /\ Alive /\ Loads => NothingWildEscapes
<1> SUFFICES ASSUME Coherent, Alive, Loads, FilesHaveData
             PROVE  /\ ret # Wild /\ \A a \in Live : Wild \notin Pointers(heap[a])
                    /\ At("load", "read") /\ var.result = Wild =>
                         Last(loading) \in Range(program.files)
  BY DEF NothingWildEscapes
<1>1. ret # Wild  BY DEF Alive, Kept
<1>2. HeapOK(heap)  BY DEF Alive
<1>3. \A a : IsBindings(a, heap) => a # Wild
  <2>1. \A a : IsBindings(a, heap) => a \in Nat  BY <1>2, HeapFacts DEF IsBindings
  <2> QED BY <2>1, WildIsNoValue
<1>4. ASSUME NEW a \in Live PROVE Wild \notin Pointers(heap[a])
  <2> DEFINE o == heap[a]
  <2>1. ObjectOK(heap, a, o) /\ o # Freed  BY <1>2, HeapFacts DEF Live, Addr
  <2> SUFFICES Wild \notin Pointers(o)  BY DEF o
  <2> HIDE DEF o
  <2>2. CASE o.kind \in {"number", "character", "string"}  BY <2>2 DEF Pointers
  <2>3. CASE o.kind = "pair"
    <3>1. Kept(o.car, heap) /\ Kept(o.cdr, heap)  BY <2>1, <2>3 DEF ObjectOK
    <3>2. Pointers(o) = {o.car, o.cdr}  BY <2>1, <2>3, ObjectPointers
    <3> QED BY <3>1, <3>2 DEF Kept
  <2>4. CASE o.kind = "procedure"
    <3>1. Kept(o.arguments, heap) /\ Kept(o.body, heap) /\ IsBindings(o.env, heap)
      BY <2>1, <2>4 DEF ObjectOK
    <3>2. Pointers(o) = {o.arguments, o.body, o.env}  BY <2>1, <2>4, ObjectPointers
    <3> QED BY <3>1, <3>2, <1>3 DEF Kept
  <2>5. CASE o.kind = "environment"
    <3>1. IsBindings(o.value, heap)  BY <2>1, <2>5 DEF ObjectOK
    <3>2. Pointers(o) = {o.value}  BY <2>1, <2>5, ObjectPointers
    <3> QED BY <3>1, <3>2, <1>3
  <2>6. CASE o.kind = "bindings"
    <3>1. /\ o.parent = NULL \/ IsBindings(o.parent, heap)
          /\ \A x \in DOMAIN o.bindings : Kept(o.bindings[x], heap)
      BY <2>1, <2>6 DEF ObjectOK
    <3>2. Pointers(o) = {o.parent} \union Range(o.bindings)  BY <2>1, <2>6, ObjectPointers
    <3>3. o.parent # Wild  BY <3>1, <1>3, WildIsNoValue
    <3>4. Wild \notin Range(o.bindings)  BY <3>1 DEF Range, Kept
    <3> QED BY <3>2, <3>3, <3>4
  <2> QED BY <2>1, <2>2, <2>3, <2>4, <2>5, <2>6 DEF ObjectOK
<1>5. ASSUME At("load", "read"), var.result = Wild PROVE Last(loading) \in Range(program.files)
  <2>1. stack # << >> /\ Top.fn = "load" /\ Top.at = "read" /\ var = Top.var  BY <1>5, LoadTop
  <2>2. Len(stack) \in Nat \ {0} /\ Top = stack[Len(stack)]  BY <2>1, TopFacts
  <2>3. Len(stack) \in LoadFrames(stack) /\ ~ (Len(stack) < Len(stack))
    BY <2>1, <2>2 DEF LoadFrames
  <2>4. Unset(stack[Len(stack)])  BY <1>5, <2>1, <2>2 DEF Unset
  <2> QED BY <2>3, <2>4 DEF Loads
<1> QED BY <1>1, <1>4, <1>5

LEMMA AlwaysAliveSession ==
  TextsAreRead => (SessionSpec /\ []WellFormed => [](Coherent /\ Alive /\ Loads))
<1> SUFFICES ASSUME TextsAreRead PROVE SessionSpec /\ []WellFormed => [](Coherent /\ Alive /\ Loads)
  OBVIOUS
<1>1. SessionInit => Alive /\ Texts /\ Loads  BY SessionBegins
<1>2. Coherent /\ Alive /\ Texts /\ Loads /\ WellFormed /\ [SessionNext]_sessionVars
        => Alive' /\ Texts' /\ Loads'
  BY SessionKeepsAlive, SessionKeepsProgram, Primed, TextsStay, LoadsStay
<1> QED BY <1>1, <1>2, AlwaysCoherentSession, PTL DEF SessionSpec

(* In a session too, whatever files are loaded from wherever, nothing that a *)
(* C function has still to read is ever freed: not the value that load has  *)
(* so far, not what reading a datum, or an environment made for Scheme,     *)
(* finds on the stack, and not the environment of an outer call (repl.c:    *)
(* 17-36, procedures.c:321-340, 361-372, and all of eval.c).                *)
THEOREM NothingNeededIsFreedInSessions ==
  TextsAreRead => (SessionSpec /\ []WellFormed => []NoUseAfterFree)
<1> SUFFICES ASSUME TextsAreRead PROVE SessionSpec /\ []WellFormed => []NoUseAfterFree
  OBVIOUS
<1>1. SessionSpec /\ []WellFormed => [](Coherent /\ Alive /\ Loads)  BY AlwaysAliveSession
<1>2. Coherent /\ Alive => NoUseAfterFree  BY AliveIsEnough
<1> QED BY <1>1, <1>2, PTL

(* As long as no file is empty, what load's result held before it was set is *)
(* not returned, not stored, and gone when the first expression of the file *)
(* has been evaluated (procedures.c:321-340).                              *)
THEOREM NothingWildEverEscapes ==
  TextsAreRead => (SessionSpec /\ []WellFormed => []NothingWildEscapes)
<1> SUFFICES ASSUME TextsAreRead PROVE SessionSpec /\ []WellFormed => []NothingWildEscapes
  OBVIOUS
<1>1. SessionSpec /\ []WellFormed => [](Coherent /\ Alive /\ Loads)  BY AlwaysAliveSession
<1>2. Coherent /\ Alive /\ Loads => NothingWildEscapes  BY NothingIsWild
<1> QED BY <1>1, <1>2, PTL

=============================================================================
