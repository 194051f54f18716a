----------------------------- MODULE Bootstrap -----------------------------
(***************************************************************************)
(* How the interpreter is started (vm_get of src/model/model.c), and how   *)
(* an initial environment is filled (init_environment of procedures.c),    *)
(* then and whenever the procedure environment is called.                  *)
(*                                                                         *)
(* Each object is allocated while the structures that will keep it alive   *)
(* are only half there, and each allocation may collect: the vm is a root  *)
(* before it has an environment, the constants are reported to the         *)
(* collector while they are NULL, and the arguments of a declaration wait  *)
(* for each other in an order that C leaves open.                          *)
(***************************************************************************)
EXTENDS Integers, Sequences, Functions, Marking

CONSTANTS
  NULL,
  declarations,   (* names with their procedures, as init_environment      *)
                  (* declares them                                         *)
  syntax,         (* the names that vm_get makes symbols of, in order      *)
  MaxCalls        (* bound: how often the program calls environment        *)

Declaration == DOMAIN declarations
constants == <<"false", "true", "the_empty_list", "eof">>

ASSUME NullIsNoAddress == NULL \notin Nat
ASSUME NamesAreDeclaredOnce ==
  /\ declarations \in Seq([name : STRING, fn : STRING]) /\ declarations # << >>
  /\ \A d, e \in Declaration : declarations[d].name = declarations[e].name => d = e
ASSUME SyntaxIsApart ==
  syntax \in Seq(STRING) /\ syntax # << >> /\ Range(syntax) \intersect Range(constants) = {}

VARIABLES
  heap,           (* the objects by address, Freed where one was freed     *)
  roots,          (* the C variables on the collector's root list          *)
  local,          (* the C variables themselves, v, env and tmp, and       *)
                  (* symbol, an argument that waits for the other one      *)
  vm,             (* the fields of the vm: environment, symbol table       *)
  static,         (* the global variables of the constants and symbols     *)
  at,             (* how far vm_get or init_environment has got            *)
  n,              (* and at which constant, name or declaration            *)
  argument,       (* the arguments of that declaration evaluated so far    *)
  kept,           (* the environment object that the program holds         *)
  calls           (* how often the program has called environment          *)

vars == <<heap, roots, local, vm, static, at, n, argument, kept, calls>>

Addr == DOMAIN heap
Object(kind) == [kind |-> kind]
Freed == Object("freed")
Live == {a \in Addr : heap[a] # Freed}
Symbol(name) == [kind |-> "symbol", name |-> name]
Primitive(fn) == [kind |-> "primitive", fn |-> fn]
Environment(bindings) == [kind |-> "environment", bindings |-> bindings]
SchemeEnvironment(e) == [kind |-> "scheme_environment", value |-> e]

-----------------------------------------------------------------------------
(* The collector *)

(* The global variables of symbols are not reported: the table has them.    *)
vm_pointers == Range(vm.symbol_table) \union {vm.env} \union {static[c] : c \in Range(constants)}
Pointers(a) ==
  LET o == heap[a] IN
    CASE o.kind = "vm" -> vm_pointers
      [] o.kind = "environment" -> DOMAIN o.bindings \union Range(o.bindings)
      [] o.kind = "scheme_environment" -> {o.value}
      [] OTHER -> {}
Rooted(names) == {local[r] : r \in Range(names)}
(* The program's environment object is kept by the top level.               *)
Swept(start) ==
  LET marked == Marked([a \in Addr |-> Pointers(a)], start \union {kept})
  IN  [a \in Addr |-> IF a \in marked THEN heap[a] ELSE Freed]
NewAddr == Len(heap) + 1
gc_alloc(object, start) == \E h \in {heap, Swept(start)} : heap' = Append(h, object)

-----------------------------------------------------------------------------

Init ==
  /\ heap = << >> /\ roots = << >>
  /\ local = [v |-> NULL, env |-> NULL, tmp |-> NULL, symbol |-> NULL]
  /\ vm = [env |-> NULL, symbol_table |-> << >>]
  /\ static = [c \in Range(constants) \union Range(syntax) |-> NULL]
  /\ at = "vm_get" /\ n = 1 /\ argument = {} /\ kept = NULL /\ calls = 0

Goto(place) == at' = place /\ n' = 1

make_vm ==
  /\ at = "vm_get"
  /\ gc_alloc(Object("vm"), Rooted(roots))
  /\ local' = [local EXCEPT !.v = NewAddr] /\ roots' = <<"v">>
  /\ Goto("init_environment")
  /\ UNCHANGED <<vm, static, argument, kept, calls>>

(* Mutant: one of the variables is rooted twice, the other one not. *)
environment_create_RootsEnvTwice ==
  /\ at = "init_environment"
  /\ gc_alloc(Environment(<< >>), Rooted(roots))
  /\ local' = [local EXCEPT !.env = NewAddr, !.tmp = NULL]
  /\ roots' = roots \o <<"env", "env">>
  /\ Goto("declare")
  /\ UNCHANGED <<vm, static, argument, kept, calls>>
environment_create ==
  /\ at = "init_environment"
  /\ gc_alloc(Environment(<< >>), Rooted(roots))
  /\ local' = [local EXCEPT !.env = NewAddr, !.tmp = NULL]
  /\ roots' = roots \o <<"env", "tmp">>
  /\ Goto("declare")
  /\ UNCHANGED <<vm, static, argument, kept, calls>>

(* make_symbol(name): what it returns, and what it does.                    *)
(* Mutant: the name is not looked up. *)
Found_Never(name) == FALSE
Found(name) == name \in DOMAIN vm.symbol_table
SymbolFor(name) == IF Found(name) THEN vm.symbol_table[name] ELSE NewAddr
make_symbol(name) ==
  IF Found(name)
    THEN UNCHANGED <<heap, vm>>
    ELSE /\ gc_alloc(Symbol(name), Rooted(roots))
         /\ vm' = [vm EXCEPT !.symbol_table =
                     [m \in DOMAIN @ \union {name} |-> IF m = name THEN NewAddr ELSE @[m]]]

(* declare_procedure: the two arguments, in either order, then the call.    *)
Evaluate(name) == at = "declare" /\ name \notin argument /\ argument' = argument \union {name}
declare_symbol ==
  /\ Evaluate("symbol")
  /\ make_symbol(declarations[n].name)
  /\ local' = [local EXCEPT !.symbol = SymbolFor(declarations[n].name)]
  /\ UNCHANGED <<roots, static, at, n, kept, calls>>
declare_primitive ==
  /\ Evaluate("primitive")
  /\ gc_alloc(Primitive(declarations[n].fn), Rooted(roots))
  /\ local' = [local EXCEPT !.tmp = NewAddr]
  /\ UNCHANGED <<roots, vm, static, at, n, kept, calls>>
declare_procedure ==
  /\ at = "declare" /\ argument = {"symbol", "primitive"}
  /\ heap' = [heap EXCEPT ![local.env].bindings =
                [s \in DOMAIN @ \union {local.symbol} |->
                   IF s = local.symbol THEN local.tmp ELSE @[s]]]
  /\ local' = [local EXCEPT !.symbol = NULL]
  /\ argument' = {}
  /\ IF n < Len(declarations) THEN n' = n + 1 /\ UNCHANGED at ELSE Goto("declared")
  /\ UNCHANGED <<roots, vm, static, kept, calls>>

(* init_environment returns to vm_get ...                                   *)
Popped == SubSeq(roots, 1, Len(roots) - 2)
set_environment ==
  /\ at = "declared" /\ vm.env = NULL
  /\ vm' = [vm EXCEPT !.env = local.env]
  /\ local' = [local EXCEPT !.env = NULL, !.tmp = NULL] /\ roots' = Popped
  /\ Goto("constants")
  /\ UNCHANGED <<heap, static, argument, kept, calls>>
(* ... or to start_environment_procedure.                                   *)
make_environment ==
  /\ at = "declared" /\ vm.env # NULL
  /\ gc_alloc(SchemeEnvironment(local.env), Rooted(Popped) \union {local.env})
  /\ local' = [local EXCEPT !.env = NULL, !.tmp = NULL] /\ roots' = Popped
  /\ kept' = NewAddr
  /\ Goto("ready")
  /\ UNCHANGED <<vm, static, argument, calls>>

make_constant ==
  /\ at = "constants"
  /\ gc_alloc(Object(constants[n]), Rooted(roots))
  /\ static' = [static EXCEPT ![constants[n]] = NewAddr]
  /\ IF n < Len(constants) THEN n' = n + 1 /\ UNCHANGED at ELSE Goto("symbols")
  /\ UNCHANGED <<roots, local, vm, argument, kept, calls>>
make_syntax ==
  /\ at = "symbols"
  /\ make_symbol(syntax[n])
  /\ static' = [static EXCEPT ![syntax[n]] = SymbolFor(syntax[n])]
  /\ IF n < Len(syntax) THEN n' = n + 1 /\ UNCHANGED at ELSE Goto("ready")
  /\ UNCHANGED <<roots, local, argument, kept, calls>>

(* The program calls environment, or forgets the one it got.                *)
start_environment ==
  /\ at = "ready" /\ calls < MaxCalls
  /\ calls' = calls + 1 /\ Goto("init_environment")
  /\ UNCHANGED <<heap, roots, local, vm, static, argument, kept>>
forget ==
  /\ at = "ready" /\ kept # NULL /\ kept' = NULL
  /\ UNCHANGED <<heap, roots, local, vm, static, at, n, argument, calls>>

Next ==
  \/ make_vm \/ environment_create
  \/ declare_symbol \/ declare_primitive \/ declare_procedure
  \/ set_environment \/ make_environment
  \/ make_constant \/ make_syntax
  \/ start_environment \/ forget
  \/ at = "ready" /\ UNCHANGED vars

Spec == Init /\ [][Next]_vars

-----------------------------------------------------------------------------

(* Nothing that has been made for the interpreter is freed under it: the    *)
(* vm, which the code calls always a root (model.c:100), what the vm and    *)
(* the global variables point to, the environment being filled, and the     *)
(* argument that waits for the other (model.c:103-138, procedures.c:478-546).*)
Holds(e) == {e} \union DOMAIN heap[e].bindings \union Range(heap[e].bindings)
NoUseAfterFree ==
  /\ vm_pointers \union Range(static) \union Range(local) \union {kept} \subseteq Live \union {NULL}
  /\ \A e \in {vm.env, local.env} \ {NULL} : Holds(e) \subseteq Live

(* Each initial environment, the top level or one the program asked for,    *)
(* binds exactly the declared names, each to its own procedure, though a    *)
(* name finds the symbol that an earlier call, or another part, made        *)
(* (procedures.c:476-551, model.c:108-138).                                 *)
Complete(e) ==
  /\ DOMAIN heap[e].bindings = {vm.symbol_table[declarations[d].name] : d \in Declaration}
  /\ \A d \in Declaration :
       heap[heap[e].bindings[vm.symbol_table[declarations[d].name]]] = Primitive(declarations[d].fn)
EnvironmentsAreComplete ==
  at = "ready" =>
    /\ Complete(vm.env)
    /\ kept # NULL => heap[kept].value # vm.env /\ Complete(heap[kept].value)
    /\ \A name \in Range(syntax) : static[name] = vm.symbol_table[name]
    /\ \A c \in Range(constants) : heap[static[c]] = Object(c)
=============================================================================
