------------------------------ MODULE Machine ------------------------------
(***************************************************************************)
(* What the evaluator runs on: the heap of Scheme objects, the C stack,    *)
(* the collector's root list, and the vm's environments.                   *)
(*                                                                         *)
(* Allocations number the objects they make: an address is never used      *)
(* twice, so that a pointer to a freed object can be told from any other.  *)
(* The collector is the one that Heap.tla promises: it may run at every    *)
(* allocation, and it frees what the roots do not reach.                   *)
(*                                                                         *)
(* Symbols, true, false, the empty list and the primitive procedures are   *)
(* values outside of the heap: the vm object, which is always a root,      *)
(* keeps them alive (the primitives as long as the top level binds them).  *)
(***************************************************************************)
EXTENDS Integers, Sequences, SequencesExt, Functions, Marking

CONSTANTS NULL, true, false, the_empty_list

(* Addresses are numbers, and these are none. *)
ASSUME ValuesAreNoAddresses == \A v \in {NULL, true, false, the_empty_list} : v \notin Nat

VARIABLES
  heap,               (* the objects by address, Freed where one was freed *)
  stack,              (* the active C functions, the running one last      *)
  ret,                (* what the function that just returned returned     *)
  roots,              (* the rooted C variables, the newest last           *)
  env,                (* the vm's current environment                      *)
  environment_stack   (* the vm's saved environments, the newest last      *)

Addr == DOMAIN heap
Freed == [kind |-> "freed"]
Live == {a \in Addr : heap[a] # Freed}

-----------------------------------------------------------------------------
(* Objects *)

Pair(f, s)              == [kind |-> "pair", car |-> f, cdr |-> s]
Number(n)               == [kind |-> "number", value |-> n]
Character(c)            == [kind |-> "character", value |-> c]
String(s)               == [kind |-> "string", value |-> s]
CompoundProcedure(p, b) == [kind |-> "procedure", arguments |-> p, body |-> b, env |-> env]
SchemeEnvironment(e)    == [kind |-> "environment", value |-> e]
Bindings(parent, b)     == [kind |-> "bindings", parent |-> parent, bindings |-> b]

Is(p, kind) == p \in Live /\ heap[p].kind = kind
is_pair(p) == Is(p, "pair")
is_number(p) == Is(p, "number")
car(p) == heap[p].car
cdr(p) == heap[p].cdr
cadr(p) == car(cdr(p))
cddr(p) == cdr(cdr(p))
caddr(p) == car(cddr(p))

(* What the IteratePointers callbacks of the object types report. *)
pair_pointers(o) == {o.car, o.cdr}
compound_procedure_pointers(o) == {o.arguments, o.body, o.env}
scheme_environment_pointers(o) == {o.value}
environment_find_pointers(o) == {o.parent} \union Range(o.bindings)
Pointers(o) ==
  CASE o.kind = "pair" -> pair_pointers(o)
    [] o.kind \in {"number", "character", "string", "freed"} -> {}
    [] o.kind = "procedure" -> compound_procedure_pointers(o)
    [] o.kind = "environment" -> scheme_environment_pointers(o)
    [] o.kind = "bindings" -> environment_find_pointers(o)

-----------------------------------------------------------------------------
(* The C stack.  A frame is a C function that has been called: how far it  *)
(* has got, the variables it has still to read (by name, or numbered), how *)
(* many environments it has to pop, and, for the properties only, the      *)
(* environment it was entered with and how many were saved then.           *)

Frame(fn, at, var) ==
  [fn |-> fn, at |-> at, var |-> var, pops |-> 0,
   entered |-> env, saved |-> Len(environment_stack)]

Top == Last(stack)
At(fn, at) == stack # << >> /\ Top.fn = fn /\ Top.at = at

(* The running function goes on, at the place at, with these variables. *)
Continue(at, var) == [Top EXCEPT !.at = at, !.var = var]
TopBecomes(f) == [stack EXCEPT ![Len(stack)] = f]
Goto(at, var) == stack' = TopBecomes(Continue(at, var)) /\ ret' = NULL
Call(at, var, callee) == stack' = Append(TopBecomes(Continue(at, var)), callee) /\ ret' = NULL
Return(v) == stack' = Front(stack) /\ ret' = v

(* gc_push_root(&name), of the running function; gc_pop_root n times. *)
Root(name) == [frame |-> Len(stack), name |-> name]
Push(names) == roots \o [i \in DOMAIN names |-> Root(names[i])]
Pop(n) == SubSeq(roots, 1, Len(roots) - n)

RootedPointers == {stack[r.frame].var[r.name] : r \in Range(roots)}

(* What the collector starts from: the roots, and what vm_pointers reports. *)
VmPointers == {env} \union Range(environment_stack)
Swept(start) ==
  LET marked == Marked([a \in Addr |-> Pointers(heap[a])], start)
  IN  [a \in Addr |-> IF a \in marked THEN heap[a] ELSE Freed]

(* gc_alloc of an object by a constructor that has rooted its arguments:    *)
(* with a collection before, or without.                                   *)
NewAddr == Len(heap) + 1
Collected(arguments) == Swept(RootedPointers \union VmPointers \union arguments)
gc_alloc(object, arguments) ==
  \/ heap' = Append(heap, object)
  \/ heap' = Append(Collected(arguments), object)

cons(f, s) == gc_alloc(Pair(f, s), {f, s})
make_number(n) == gc_alloc(Number(n), {})
make_character(c) == gc_alloc(Character(c), {})
make_string(s) == gc_alloc(String(s), {})
make_compound_procedure(p, b) == gc_alloc(CompoundProcedure(p, b), {p, b})
(* cons(e1, cons(e2, ... cons(ei, ej))): the function that evaluates it,    *)
(* whose operands wait in no rooted variable until cons gets them.          *)
Conses(elements) == Frame("conses", "start", elements)
conses ==
  /\ At("conses", "start") /\ Len(Top.var) > 1
  /\ LET n == Len(Top.var) IN
       /\ cons(Top.var[n - 1], Top.var[n])
       /\ Goto("start", SubSeq(Top.var, 1, n - 2) \o <<NewAddr>>)
  /\ UNCHANGED <<roots, env, environment_stack>>
conses_return ==
  /\ At("conses", "start") /\ Len(Top.var) = 1
  /\ Return(Top.var[1])
  /\ UNCHANGED <<heap, roots, env, environment_stack>>

make_environment(e) == gc_alloc(SchemeEnvironment(e), {e})
environment_create(parent, b) == gc_alloc(Bindings(parent, b), {})

-----------------------------------------------------------------------------
(* Environments *)

Environments == {a \in Live : heap[a].kind = "bindings"}

(* The nearest environment that binds var, NULL if there is none. *)
Binder(var) ==
  LET find[e \in Environments \union {NULL}] ==
        IF e = NULL \/ var \in DOMAIN heap[e].bindings THEN e ELSE find[heap[e].parent]
  IN  find[env]

TopLevel ==
  LET up[e \in Environments] == IF heap[e].parent = NULL THEN e ELSE up[heap[e].parent]
  IN  up[env]

Bound(e, var, val) ==
  [heap EXCEPT ![e].bindings = [x \in DOMAIN @ \union {var} |-> IF x = var THEN val ELSE @[x]]]

(* A list of the heap without its first n elements; and its elements.       *)
Rests(list) ==
  LET rest[n \in 0..Len(heap)] ==
        IF n = 0 THEN list
        ELSE IF rest[n - 1] \in Addr THEN cdr(rest[n - 1]) ELSE the_empty_list
  IN  rest
Elements(list) ==
  LET rest == Rests(list)
      length == CHOOSE n \in 0..Len(heap) :
                  rest[n] = the_empty_list /\ \A m \in 0..(n - 1) : rest[m] # the_empty_list
  IN  [n \in 1..length |-> car(rest[n - 1])]

(* vars bound to vals, as environment_extend does it: from the first on. *)
Parameters(vars, vals) ==
  LET names == Elements(vars)
      last(x) == CHOOSE i \in DOMAIN names :
                   names[i] = x /\ \A j \in DOMAIN names : names[j] = x => j <= i
  IN  [x \in Range(names) |-> Elements(vals)[last(x)]]

vm_push_environment(e) ==
  /\ environment_stack' = Append(environment_stack, env)
  /\ env' = e

(* Mutant: once, however many there are. *)
PopEnvironments_Once(n) ==
  IF n = 0
    THEN UNCHANGED <<env, environment_stack>>
    ELSE /\ env' = Last(environment_stack)
         /\ environment_stack' = Front(environment_stack)
(* vm_pop_environment, n times. *)
PopEnvironments(n) ==
  IF n = 0
    THEN UNCHANGED <<env, environment_stack>>
    ELSE /\ env' = environment_stack[Len(environment_stack) - n + 1]
         /\ environment_stack' = SubSeq(environment_stack, 1, Len(environment_stack) - n)
=============================================================================
