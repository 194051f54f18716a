# Bootstrap Scheme: a verification project

TLA+ models of the Scheme interpreter in `src/src/`, the TLC runs that check
them on small instances, and TLAPS proofs of what matters most for instances of
any size. `PROJECT.json` lists components, runs, mutants, the map from
definitions to source lines, hazards, findings and theorems.

The interpreter is one thread and talks to the outside through `FILE*` streams
only. What makes it hard to get right is its memory: a mark-and-sweep collector
that may run at every allocation, an evaluator and a reader written in C whose
local variables point into the collected heap, and a root list that the C
functions have to keep in step with their own stack frames by hand. A mistake
shows only if a collection happens to run at one particular allocation; with
`MAX_SKIPS` = 1000 that is once in a thousand. The models let it run at any.

## 1. Inventory

| Component | State | Operations | What makes it correct |
|---|---|---|---|
| Collector, `gc/gc.c` | marks and types in the object headers, `current_mark`, the object list, the root list, counters, registered types | `gc_alloc` (with `collect`, `mark`, `sweep`), `gc_push_root`, `gc_pop_root`, `gc_register_type`, `gc_info` | nothing reachable is freed, all else is in time; each object is on the list once; marks mean the right thing in the next collection; the counters are exact; a type's number leads to its type |
| Hash table, `util/hashtable.c` | buckets of chains, size index, key count | create, put, get, contains, remove, foreach, destroy | it is a map; its size follows the number of keys, whatever the calls, and growing loses nothing; it gives up only at its capacity |
| Array list, stack, string, `util/` | blocks and linked entries | append, get, trim; push, pop, reverse; append characters | capacity and length; order; the terminator |
| Objects, `model/object.c` | header, type tag and fields of 13 types | constructors, predicates, `car`, `cdr`, `set_car`, `set_cdr` | arguments survive the allocation they are for; the pointers reported to the collector are all there are |
| Symbols, `make_symbol` | the vm's symbol table | intern | one symbol per name, never freed |
| Environments, `model/environment.c` | a hash table of bindings and a parent | define, set, get, extend, top level | innermost binding, nothing else changed |
| VM, `model/model.c` | current environment, environment stack, symbol table, singletons | bootstrap, push and pop environments | the vm's pointers are roots, from the first allocation on; pushes and pops balance |
| Evaluator, `eval.c` | C frames, rooted variables, `env_pop_count` | `eval`, `list_of_values`, the rewriting of define, cond and let | the value is Scheme's; nothing is used after it was freed; roots and environments are released as they were taken |
| Primitive procedures, `model/procedures.c` | none of their own, FILE pointers in ports | some fifty procedures | the values, within the widths of C's types; files load into the right environment; ports are streams of their own |
| Reader `read.c`, writer `write.c`, loop `repl.c` | the stream's position and the characters pushed back | read, write, display; the loop | reading what was written gives it back; the end of input is handled; one input leaves nothing behind for the next |

How they interact. The evaluator, the reader and the primitives call
constructors, which call `gc_alloc`, which calls back the `IteratePointers`
function of each marked object's type and the finalizer of each object freed.
Environments and the symbol table are hash tables; the environment callback
walks one while marking. The vm object is a permanent root and reports the
current environment, the environment stack, the symbols and the singletons; the
environment stack is a `stack.c` stack, the collector's types are an
`arraylist.c` list, and the reader's tokens are `string.c` strings. `load`,
`read` and the loop call reader and evaluator in turn, and may share one stream.
There is no concurrency. The interleavings that matter are those of an
allocation anywhere down the C stack with the variables of the functions above
it; and those of C's unspecified order of evaluation.

The hazards, each at its line and with the properties that cover it, are in
`PROJECT.json`.

## 2. Modules

| Module | Models | Proofs |
|---|---|---|
| `HeapGraph` | objects as nodes, pointers as edges, `Reachable`; no state | `GCProofs` |
| `Heap` | what the collector promises: allocate, write, push, pop, and a `Collect` in which everything unreachable disappears at once | |
| `GC` | `gc.c`, one action per step of its loops | `GCProofs` |
| `Dict`, `HashTable` | a map; `hashtable.c`, one action per operation | `HashTableProofs` |
| `Text`, `StringBuffer` | a text; `string.c` | `UtilProofs` |
| `List`, `ArrayList` | a sequence; `arraylist.c` | `UtilProofs` |
| `TypeRegistry` | lazy registration of types with the collector, over the list | `UtilProofs` |
| `Stacks`, `LinkedStack` | sequences; `stack.c`, entries in memory that is used again | `UtilProofs` |
| `Interner`, `SymbolTable` | names and symbols one to one; `make_symbol`, `string->symbol` | `UtilProofs` |
| `Marking`, `Null` | what a collection marks, in one step; the null pointer; no state | `Facts` |
| `Machine` | what C functions run on: heap, C stack, roots, environments | `EvalProofs` |
| `Eval` | `eval.c`, and the primitives on pairs and environments | `EvalProofs` |
| `Data` | Scheme data as trees, and data made of them in the heap | |
| `Session` | `repl.c`, and `load`, `read`, `write`, `display`, `error`, `environment`, predicates | `EvalProofs` |
| `Reader` | `read.c` | `ReaderProofs` |
| `Writer` | `write.c` | |
| `Bootstrap` | `vm_get` and `init_environment`, allocation by allocation | `BootstrapProofs` |
| `Streams`, `Ports` | independent streams; ports over the C library's FILEs | `PortsProofs` |
| `Numbers` | the procedures on numbers and the conversions, with C's widths | |
| `Expressions` | programs with side effects and their values (used by `MCEval`, `MCSession`) | |

`Eval` and `Reader` extend `Machine`; `Session` extends `Eval` and `Data`;
`MCReader` puts `Reader` and `Writer` together; `TypeRegistry` has an
`ArrayList` in it. `Session` uses `Reader` and `Bootstrap` as single steps, and
`Machine` uses `GC`, `HashTable` and `LinkedStack` as what they implement.

### The collector

`mark`, `kind` and `ptrs` are the header and the pointer fields at each address.
`mark` is `mem_mix` where there is no object, because `checked_free` overwrites
the first word of what it frees, which is the mark. `todo` stands for the
recursion of `mark()`: the pointers it has still to be called on, in its order.
`le` and `new_list` are `sweep`'s variables. `AllocDirect` and `AllocCollect` are
the two ways through the test at `gc.c:126`; `NewObject` is the rest of
`gc_alloc`. The client, the rest of the interpreter, is the most general one: it
pushes, pops and assigns roots and writes fields with any pointer to an allocated
object. `TypeRegistry` has what comes before: the flag in each constructor and
the index under which the type is found again when an object is marked.

### The utilities

Operations are atomic, as nothing runs during one. In `HashTable`, a chain is the
set of its entries; `hash_func` and `sizes` are constants; `Spec` has the
operations the interpreter uses; `SpecWithRemove` adds `hashtable_remove`, which
the header offers and nobody calls. `StringBuffer` and `ArrayList` keep the block
as a function of its indices, so that what is behind the text, or the elements,
is part of the state. `LinkedStack` keeps entries at addresses that are handed
out again, and trashes the first word of a freed one.

### Symbols

A symbol owns the copy of its name, and the table's key is that copy: a table
entry is the owner of its key and a symbol. `answer` is the latest call's name
and symbol. `string->symbol` may have the characters freed before they are
copied: the name copied is then any member of `Freed`. With `Freed = {}` the
table implements `Interner`.

### The machine and the evaluator

A frame of `stack` is an active C function: its name, where it is (`at`), its
variables, `env_pop_count`, and, for the properties only, the environment it was
entered with and how many were saved then. A variable that the C function will not read again is NULL in the
model, so what frames hold is what will be read. `roots` is a list of references
to variables of frames, as in C, where it is a list of their addresses. `ret` is
the returned value, held by no variable yet. Allocation (`gc_alloc`) chooses
whether to collect first; addresses are not used again, so every use of a freed
object shows. The collector is atomic here, which `GC` implementing `Heap`
justifies, and an environment's bindings are a map, which `HashTable`
implementing `Dict` justifies.

An action is what a C function does between two points at which another function
can allocate. `eval_assignment` and `eval_define` are folded into the frame of
`eval` that calls them. The nested `cons` calls of `make_lambda`, `make_define`,
`make_if` and `prepare_apply_operands` are one kind of frame, `conses`, whose
operands wait in unrooted temporaries.

Symbols, booleans, the empty list and the primitive procedures are values outside
the heap, kept alive by the vm; `Program` puts an expression into the heap as the
reader leaves it. Programs are well formed: the C code reads past the end of
lists that are too short, and the model has nothing to say about that. `WellFormed`
names what is asked of them, place by place; `ResultIsRight` includes it, so that
TLC shows the programs of the run to be such, and the proof's hypotheses to be met.

### Sessions

`Session` adds the frames of the loop, of `load` and of `read` to those of the
evaluator. `stdin` is the sequence of the data typed, `arguments` those of the
command line, `loading` the rest of each file being loaded, `printed` what was
written and by which function. Two undefined things are choices: a collection
that follows the variable which `load` has rooted and not yet set (`Wild`), and
writing that value, may crash or not. A NULL from the reader goes to `eval` and
crashes, as in the code.

The texts of a session are sequences of what the reader makes of them;
`TextsAreRead` says so, an assumption of `MCSession` and a hypothesis of the proofs.
`PrintsWhatItShould` includes `WellFormed`, as `ResultIsRight` does.

### Reader and writer

`Reader` is the recursive descent of `read.c`: frames of `read` and `read_pair`
on the machine's stack, one action from one allocation to the next, with the
characters of a token read in one step (the token operators say what is read and
where it ends). `MaxDepth` is the size of the C stack, which an unfinished list
fills. `Writer` gives the characters of a datum with the stream each goes to,
because some go to the standard output whatever port was named.

### Start

`Bootstrap` has one action per allocation of `vm_get` and `init_environment`, on
a heap of its own with the vm, the symbol table and the constants in it. The two
arguments of a declaration are evaluated in either order.

### Ports

A port is a pointer to a FILE with a buffer, at a place that `fclose` gives back
and `fopen` hands out again. The process may crash or exit at any point. `Streams`
promises each port a stream of its own, and that what was displayed, or written
to a port that is closed, is durable. Both have a careful program, which does not
use what it has closed: the code does not check, and what happens then is
undefined.

### Numbers

One behaviour is one call, argument by argument, with `Wrap` where a C type
narrows. `back` behaviours convert the result of one procedure with its converse.

## 3. Runs

| Run | Question | Instance | States |
|---|---|---|---|
| `gc_pairs` | is anything reachable ever freed? is the proof's invariant one? | 3 addresses, two-pointer objects, 1 root, up to symmetry | 702,370 |
| `gc_links` | lists, counters, limit and refinement across collections; does `gc_alloc` come back? | 3 addresses, one-pointer objects, 2 roots, fairness | 477,129 |
| `hash_map` | is the table a map, with exact counts, a load bounded on both sides, and an exact capacity? | 5 keys, 2 values, sizes 2, 5, 6, 7 | 1,299 |
| `hash_remove` | does removing a key leave the others alone? (it does not) | 5 keys | |
| `eval_programs` | right values and no use after free, for all small expressions and with side effects? | some 1,400 expressions of depth two, 16 programs | 217,604 |
| `eval_special` | is the procedure that should never be called ever called? (it is) | 16 programs | |
| `session` | are whole runs right, and does each input leave the machine clean? | 39 runs | 66,976 |
| `reader` | does the reader follow the grammar, and read back what the writer wrote? | some 23,000 texts, 8,300 data | 324,799 |
| `symbols` | is interning right, and what do dead strings break? | 4 names, 5 symbols, 2 names that freed memory spells | 237,662 |
| `bootstrap` | is anything freed before it is reported? are environments complete? | 4 declarations, 3 names, 2 calls of `environment` | 1,453 |
| `ports` | are ports independent, and durable as they should be? | 3 ports and the console, 3 FILEs, 2 files, buffers of 1 | 124,671 |
| `library` | strings, array lists, types, stacks, numbers | see below | 204,830 |

Why the bounds are enough. Three objects with two pointers make every shape on
which marking can go wrong: cycles, sharing, garbage that points to live objects
and the other way round. `MAX_SKIPS` = 1 and `MAX_MEM_USE` = 4 make both tests of
`gc.c:126` the reason of collections, and runs go through any number of them, so
both meanings of the marks come up. Types differ in size, so the memory count is
told from the object count. `MaxRoots` is the only bound in a guard there. Table
sizes 2, 5, 6, 7 pass through two growths and the overflow exit with five keys,
some of which collide. Machine runs need no bound: the programs end, and a
collection may come before any allocation.

`eval_programs` builds its expressions from `if`, `cond` with `else`, `or`,
`and`, `begin`, `let` with two bindings, `lambda` applied at once and `cons`, with
a list, `#f` and a number at the leaves. `Meaning` in `MCEval` gives each its
value without heap, rewriting or environments. The programs of `Expressions`
have the values written beside them, or NULL if the process must exit;
`session` types each of them before itself and before the next one. Its other
runs have closures that outlive their input, files that load files from inside
procedures and from other environments, programs that read what follows them,
empty files, command lines, predicates and errors.

`reader` has all texts up to a length over five alphabets, chosen so that tokens
meet (delimiters, signs, dots, escapes, comments), and `Spelled` in `MCReader`
is a grammar by splitting, with no position and no pushback; the written data
have every string of two characters that needs an escape, and pairs of pairs. In
`symbols`, two names may come out of freed memory and two may not, and five
symbols let a name be made again after its symbol was collected.
`bootstrap` has a procedure under two names, and two more environments after the
first. In `ports` three ports for two free FILEs make places used again and let
the FILEs run out; `MaxLength` bounds what is written, and a buffer of one
character makes it full.

`library` puts parts side by side that never call each other there; a behaviour
is one of a single part. Strings have an increment of 3 and texts of up to 7, so
that an append crosses two increments; array lists a capacity of 1 and steps of
2, so that they grow twice and shrink; 5 types are registered with a capacity of
2; two stacks share four entries; longs have 8 bits, ints 5, characters 4, and
the buffer of `number->string` 4 places, which keeps the order of the real widths
(64, 32, 8, and 20 places, in which the longest negative numbers lose a digit).

Deadlock is checked wherever the system goes on or says that it has ended. Only
in the runs of the collector and of the hash table may the process stop anywhere
(out of memory, table too big, table destroyed), and there it is not.

Fairness. `FairSpec` of `GC` is weak fairness of the collector's steps only: one
thread runs and does not stop inside `gc_alloc`, while the program may stop
calling it. `SessionSpec` has weak fairness of the thread's next step; input is
there when it is read. Nothing else needs any.

Each property of a passing run has a mutant in `PROJECT.json`: a definition
changed as a bug would change it, under which the property fails.

### Findings

`hash_remove`: `hashtable_remove` (`hashtable.c:178-215`) empties the bucket of
the key it removes, so colliding keys are lost. `prev` is declared inside the
loop and is NULL whenever it is tested. The comment at line 192 says that the
entry "is the only thing in the list".

`eval_special`: `(apply apply ...)` and `(apply eval ...)` reach the stubs of
`procedures.c:451` and 457, which say that they are never called, and the process
exits: `eval.c:497` looks once whether the operator is `apply` or `eval`, before
`apply` has put another one in its place.

Other things the models made plain, for which no line of the repository says
anything else: an empty file gives `load` a value that was never set; the end of
the input is a crash; `string->symbol` may make a symbol under a name nobody
asked for, which then shadows that name; `number->string` drops the last digit of
the longest negative numbers; a string is written partly to the standard output
when it is written to another port.

## 4. Proofs

TLAPS checks every theorem for all values of the constants, from the assumptions
named in the modules, which TLC evaluates on the instances. Each module of proofs
has an inductive invariant, which the theorems follow from; `Facts` has the lemmas
that several of them need: on sequences and records, on the collector's marking
(it is the least set closed under pointers, so what the roots hold survives with
all it points to; more pointers elsewhere do not change it), and on numbers (a least
one, what follows a chain of steps, and the value of a search up a chain).

- `GCProofs` (any finite or infinite set of addresses and types, any limits). That
  reachable objects are allocated is not inductive: it says nothing of the marker's
  work in progress or of garbage. `CollectionInvariant` adds that outside the sweep
  even garbage holds no dangling pointer; that while marking, what is marked or
  waiting covers the roots and all that marked objects point to, and contains
  reachable objects only; so that the sweep starts with exactly the reachable
  objects marked. The lists and the counters of objects and roots are part of it,
  because the sweep reads its objects off the list. From it: `ReachableNeverFreed`,
  `MarksAreCleared`, `ListsAreRight`, `TypeCorrect`, `LimitHolds` (memory passes the
  limit only right after a collection that left nothing but reachable objects), and
  `CollectorImplementsHeap`, under which all the garbage disappears when the sweep
  starts. `CountersAreAlwaysExact` adds that the memory count is the sum of the
  sizes of what is allocated, one object more or less at a time.
- `EvalProofs` (any programs, well formed or not, and any sessions). `Coherent` says
  frame by frame what each C function has on the root list at each place it can be
  at, that these blocks follow each other in the order of the frames, that the
  environments saved above what a frame found are those it has to pop, and that the
  first of them is the one it was entered with; a function that has saved none is
  still in it, or will be when its callees return. From it: `RootsAlwaysMatchFrames`,
  `EnvironmentsAlwaysMatchFrames`, `EnvironmentIsAlwaysRestored` (over any number of
  tail calls), `AlwaysCleanBetweenInputs`, and the same for whole sessions,
  `SessionRootsMatchFrames` and `SessionEnvironmentIsRestored`.
  `NothingNeededIsFreed` needs a second invariant. That what a frame reads is not
  freed is not inductive: many variables are rooted by nobody. `Alive` says what
  keeps each alive: its own root; for the operands still to be evaluated, the
  rooted application that a caller took them from; for what rewrites a form, the
  form; for a value waiting in a temporary of C, the constructor that roots it; and
  that no object points to a freed one, so that what a collection leaves is good to
  read. A step changes the heap, in which `Saved` keeps what the waiting frames
  read, and then the frames. The hypotheses are what the C code trusts:
  `ProgramsAreRead`, the heap that the reader leaves holds pairs and constants whose
  pointers lead somewhere, and `[]WellFormed`, the program is whole where it is taken
  apart, and changes no list of operands that is being evaluated. `WellFormed` asks
  for a pair or for what was one, so that it grants nothing of what is to be shown.
  For sessions, `Alive` covers the frames of the loop and of `load` as well, and is
  inductive only together with two more: `Texts`, what is still to be typed or loaded
  is what the reader makes of texts; and `Loads`, there is a file for each `load` on
  the stack, one that waits has called `eval` for its result, and one that has no
  value yet has its whole file before it. Reading adds objects at the end of the
  heap, after a collection or without one, which point to each other only and are
  whole; so nothing older points to them, and they take nobody's place. From these:
  `NothingNeededIsFreedInSessions`, under `TextsAreRead` instead of
  `ProgramsAreRead`, and `NothingWildEverEscapes`: where no file is empty, what
  `load`'s result held before it was set (`procedures.c:323`) reaches no object and
  no caller. TLC checked `Alive`, `Texts` and `Loads` on all states of the run `session`.
- `ReaderProofs` (any texts, lists of any depth, a collection at any allocation).
  `ReaderIsInvariant`: each `read_pair` past its early return has its own `car` and
  `cdr` on the root list, in the order of the frames; what any frame holds is outside
  the heap or not freed; and no object that is there points to a freed one, which is
  what lets a survivor's pointers survive; and the place stays in the text or just
  behind it, whatever the tokens. From it: `NothingReadIsFreed`.
- `BootstrapProofs` (any declarations and syntax, either order of the arguments):
  `BootstrapIsInvariant` says what each object held by the start is and how far the
  environment under construction has got. What survives a collection is shown by a
  set that is closed under pointers and reached from the roots: `NothingIsFreedUnderIt`
  and `EnvironmentsAreAlwaysComplete`.
- `PortsProofs` (any ports, places, paths and sizes): `FilesAreAlwaysTheirOwn`, though
  places are used again, and `PortsAreStreams`, the refinement.
- `HashTableProofs` (any keys, values, hash function and table of sizes):
  `TypeCorrect`, `EntriesAlwaysFound`, `KeysAreCounted` (NULL values included, which
  the run leaves out), and `TableImplementsDict`. Inductive together: entries are in
  the bucket of the current size, keys are unique, and the index never reaches the
  last size. `LoadIsAlwaysBounded` rests on `OneStepIsEnough` too: each size is large
  enough for one entry more than its predecessor holds. `SizeIsAlwaysNeeded` adds
  that the count of keys has outgrown every smaller size; and
  `CapacityIsAlwaysExact`, on the same and on sizes that grow, that a table holds what
  fits in the last size but one, and that the process ends for a key more only.
- `UtilProofs` (any increments, capacities, types, names and addresses). `AlwaysTerminated` is
  what `string_cstring` asserts. It needs that nothing but zeros follows the text,
  which needs what growing and trimming do with the block; `BufferImplementsText` is
  the refinement. `ElementsAlwaysFit` and `ArrayListImplementsList` for array lists;
  on the list's lemma about what an append leaves alone rest `IdsAlwaysLeadHome` and
  `AlwaysRegisteredOnce` for types. For symbols: `SymbolsInUseLive`;
  `NamesAlwaysKeepTheirSymbols`, for a name that freed memory does not spell; and
  `TableImplementsInterner`, under the hypothesis `Freed = {}`. The invariant that
  carries them is that an entry's key is the copy which its symbol owns, or a dead
  symbol's, or one whose name freed memory spells. For stacks:
  `LinkedStacksAreStacks`, the refinement, on `EntriesAlwaysLinked`: chains that share
  no entry, none of it free, with every other entry free and leading nowhere. From
  the chains follows that the recursive walk along the links has a value, and
  which; one lemma, about giving a stack another chain, serves every operation.

The library's induction theorems take an operator as a parameter, which the provers
cannot be given. Where a proof needs induction over a finite set or a number, it
takes a least counterexample, from the well-foundedness of the subset ordering or
of the numbers.

Only model-checked:

- liveness (`AllocReturns`, `SessionEnds`), which is out of the prover's reach;
- what recursive operators compute (`ResultIsRight`, `PrintsWhatItShould`,
  `ReadsTheGrammar`, `WrittenReadsBack`, `ArithmeticIsRight`,
  `ConversionsReadBack`): their modules, and the reference definitions in the MC
  modules, recur over data;
- `CarefulProgramsIntern`, whose general form is `TableImplementsInterner`.

## 5. Not modelled, and the plan

Not modelled, with the reasons:

- what the C code leaves undefined: the number of arguments of a call, forms that
  are too short, car of what is no pair, the use of a closed port, a number
  literal that does not fit, an operand that changes the expression being
  evaluated;
- `object_to_string` and `type_to_string`, which format messages, the text that
  `gc_info` prints, and `debug`: they change no state;
- a disk that is full, and line buffering of the standard output;
- the depth of the C stack, but for the reader's (`MaxDepth`): a long list also
  overflows it in `mark()` and in `write`;
- `string_hash`, a constant function of the models, and the hash table's use by an
  environment while it is marked, which reads only;
- the Scheme files in `build/`, which are programs for the interpreter.

What is left to prove is what the provers cannot be given (see above), and that
`TextsAreRead` holds of what `Reader` leaves: `Session` reads a datum in a single
step, and no refinement relates it to `Reader`, which builds the datum in many; the
run `reader` checks what comes of those against the grammar.
