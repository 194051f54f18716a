--------------------------------- MODULE GC ---------------------------------
(***************************************************************************)
(* The mark-and-sweep collector of src/gc/gc.c, one action per step of its *)
(* loops: gc_alloc decides whether to collect, the marker's recursion      *)
(* visits one pointer at a time, the sweeper one list entry at a time.     *)
(*                                                                         *)
(* The interpreter's part is the actions at the end: it pushes and pops    *)
(* roots, assigns to rooted C variables and writes object fields, in any   *)
(* order, with any pointer to an allocated object.                         *)
(*                                                                         *)
(* Abstractions: an object is its header and the pointers its type's       *)
(* IteratePointers reports; types are constants here (their registration   *)
(* is not), ip is NULL for the types that have no pointer fields; memory   *)
(* of mem_list and root_list nodes and finalizers' effects are left out.   *)
(***************************************************************************)
EXTENDS HeapGraph, Integers, FiniteSets

CONSTANTS
  Types,          (* the registered type_definitions                       *)
  Size,           (* Size[t]: sizeof the struct of type t                  *)
  Fields,         (* Fields[t]: pointers its IteratePointers reports       *)
  MAX_MEM_USE,
  MAX_SKIPS,
  MaxRoots        (* bound: roots pushed at the same time                  *)

ASSUME TypesAssumption ==
  /\ NULL \notin Types
  /\ Fields \in [Types -> Nat]
  /\ Size \in [Types -> Nat \ {0}]
ASSUME LimitsAssumption ==
  MAX_MEM_USE \in Nat /\ MAX_SKIPS \in Nat /\ MaxRoots \in Nat

(* checked_free overwrites the first word of what it frees, which is _mark. *)
mem_mix == -559038737

VARIABLES
  mark,           (* _mark of the header at an address; mem_mix when the   *)
                  (* address holds no object                               *)
  kind,           (* _type of the header, NULL when there is no object     *)
  ptrs,           (* the pointers of the object, none when there is none   *)
  current_mark,
  active_list,    (* the addresses on the list, head first                 *)
  roots,          (* the values of the rooted variables, newest root first *)
  num_roots,
  total_alloced_mem,
  allocs_since_last_collect,
  num_active_objs,
  pc,             (* where the thread is: in the client, or in gc_alloc    *)
  request,        (* the type gc_alloc was asked for, NULL outside of it   *)
  todo,           (* the pointers mark() has still to be called on, in the *)
                  (* order of its recursion                                *)
  le,             (* sweep: the list entries not yet looked at             *)
  new_list        (* sweep: the entries kept so far                        *)

objects  == <<mark, kind, ptrs>>
counters == <<total_alloced_mem, num_active_objs>>
scratch  == <<todo, le, new_list>>
vars == <<mark, kind, ptrs, current_mark, active_list, roots, num_roots,
          total_alloced_mem, allocs_since_last_collect, num_active_objs,
          pc, request, todo, le, new_list>>

Allocated == {a \in Addr : mark[a] # mem_mix}
Marked    == {a \in Addr : mark[a] = current_mark}

TypeOK ==
  /\ mark \in [Addr -> {0, 1, mem_mix}]
  /\ kind \in [Addr -> Types \union {NULL}]
  /\ ptrs \in [Addr -> Seq(Ptr)]
  /\ current_mark \in {0, 1}
  /\ active_list \in Seq(Addr)
  /\ roots \in Seq(Ptr)
  /\ num_roots \in Nat
  /\ total_alloced_mem \in Int
  /\ allocs_since_last_collect \in Nat
  /\ num_active_objs \in Int
  /\ pc \in {"client", "mark", "sweep", "alloc", "exit"}
  /\ request \in Types \union {NULL}
  /\ todo \in Seq(Ptr)
  /\ le \in Seq(Addr)
  /\ new_list \in Seq(Addr)

(* gc_get: the collector as it is created on first use, no object yet. *)
Init ==
  /\ mark = [a \in Addr |-> mem_mix]
  /\ kind = [a \in Addr |-> NULL]
  /\ ptrs = [a \in Addr |-> << >>]
  /\ current_mark = 0
  /\ active_list = << >>
  /\ roots = << >>
  /\ num_roots = 0
  /\ total_alloced_mem = 0
  /\ allocs_since_last_collect = 0
  /\ num_active_objs = 0
  /\ pc = "client"
  /\ request = NULL
  /\ todo = << >> /\ le = << >> /\ new_list = << >>

-----------------------------------------------------------------------------
(* gc_alloc *)

(* Mutant: the size of the allocation is not considered. *)
NeedsCollect_SkipsOnly(t) == allocs_since_last_collect > MAX_SKIPS

NeedsCollect(t) ==
  \/ total_alloced_mem + Size[t] > MAX_MEM_USE
  \/ allocs_since_last_collect > MAX_SKIPS

(* Called with room to spare: straight to the allocation. *)
AllocDirect(t) ==
  /\ pc = "client"
  /\ ~ NeedsCollect(t)
  /\ request' = t
  /\ pc' = "alloc"
  /\ UNCHANGED <<objects, current_mark, active_list, roots, num_roots, counters,
                 allocs_since_last_collect, scratch>>

(* Mutant: the newest root is passed over. *)
AllocCollect_SkipsNewestRoot(t) ==
  /\ pc = "client"
  /\ NeedsCollect(t)
  /\ request' = t
  /\ allocs_since_last_collect' = 0
  /\ todo' = SubSeq(roots, 2, Len(roots))
  /\ pc' = "mark"
  /\ UNCHANGED <<objects, current_mark, active_list, roots, num_roots, counters,
                 le, new_list>>

(* Called at a limit: collect() starts with the newest root. *)
AllocCollect(t) ==
  /\ pc = "client"
  /\ NeedsCollect(t)
  /\ request' = t
  /\ allocs_since_last_collect' = 0
  /\ todo' = roots
  /\ pc' = "mark"
  /\ UNCHANGED <<objects, current_mark, active_list, roots, num_roots, counters,
                 le, new_list>>

(* mark() returns at once on NULL and on an object already marked. *)
MarkReturn ==
  /\ pc = "mark" /\ todo # << >>
  /\ Head(todo) \in Marked \union {NULL}
  /\ todo' = Tail(todo)
  /\ UNCHANGED <<objects, current_mark, active_list, roots, num_roots, counters,
                 allocs_since_last_collect, pc, request, le, new_list>>

(* Mutants: the pointers of the object are not followed; an object that is *)
(* already marked is visited again.                                        *)
MarkEntry_NoRecursion ==
  /\ pc = "mark" /\ todo # << >>
  /\ LET entry == Head(todo) IN
       /\ entry # NULL /\ mark[entry] # current_mark
       /\ mark' = [mark EXCEPT ![entry] = current_mark]
       /\ todo' = Tail(todo)
  /\ UNCHANGED <<kind, ptrs, current_mark, active_list, roots, num_roots, counters,
                 allocs_since_last_collect, pc, request, le, new_list>>
MarkEntry_Again ==
  /\ pc = "mark" /\ todo # << >>
  /\ LET entry == Head(todo) IN
       /\ entry # NULL
       /\ mark' = [mark EXCEPT ![entry] = current_mark]
       /\ todo' = ptrs[entry] \o Tail(todo)
  /\ UNCHANGED <<kind, ptrs, current_mark, active_list, roots, num_roots, counters,
                 allocs_since_last_collect, pc, request, le, new_list>>

(* mark() marks the object, then recurs on its pointers before it goes on. *)
MarkEntry ==
  /\ pc = "mark" /\ todo # << >>
  /\ LET entry == Head(todo) IN
       /\ entry # NULL /\ mark[entry] # current_mark
       /\ mark' = [mark EXCEPT ![entry] = current_mark]
       /\ todo' = ptrs[entry] \o Tail(todo)
  /\ UNCHANGED <<kind, ptrs, current_mark, active_list, roots, num_roots, counters,
                 allocs_since_last_collect, pc, request, le, new_list>>

(* collect() has marked from every root and calls sweep(). *)
SweepStart ==
  /\ pc = "mark" /\ todo = << >>
  /\ pc' = "sweep"
  /\ le' = active_list
  /\ new_list' = << >>
  /\ UNCHANGED <<objects, current_mark, active_list, roots, num_roots, counters,
                 allocs_since_last_collect, request, todo>>

(* Mutant: the object is not counted off. *)
SweepFree_CountsNothing ==
  /\ pc = "sweep" /\ le # << >>
  /\ mark[Head(le)] # current_mark
  /\ mark' = [mark EXCEPT ![Head(le)] = mem_mix]
  /\ kind' = [kind EXCEPT ![Head(le)] = NULL]
  /\ ptrs' = [ptrs EXCEPT ![Head(le)] = << >>]
  /\ le' = Tail(le)
  /\ UNCHANGED <<current_mark, active_list, roots, num_roots, counters,
                 allocs_since_last_collect, pc, request, todo, new_list>>

(* An unmarked object is freed, which trashes its mark. *)
SweepFree ==
  /\ pc = "sweep" /\ le # << >>
  /\ mark[Head(le)] # current_mark
  /\ mark' = [mark EXCEPT ![Head(le)] = mem_mix]
  /\ total_alloced_mem' = total_alloced_mem - Size[kind[Head(le)]]
  /\ num_active_objs' = num_active_objs - 1
  /\ kind' = [kind EXCEPT ![Head(le)] = NULL]
  /\ ptrs' = [ptrs EXCEPT ![Head(le)] = << >>]
  /\ le' = Tail(le)
  /\ UNCHANGED <<current_mark, active_list, roots, num_roots,
                 allocs_since_last_collect, pc, request, todo, new_list>>

(* Mutant: the entry forgets the ones kept before it. *)
SweepKeep_LosesTheRest ==
  /\ pc = "sweep" /\ le # << >>
  /\ mark[Head(le)] = current_mark
  /\ new_list' = <<Head(le)>>
  /\ le' = Tail(le)
  /\ UNCHANGED <<objects, current_mark, active_list, roots, num_roots, counters,
                 allocs_since_last_collect, pc, request, todo>>

(* A marked object moves to the head of the new list. *)
SweepKeep ==
  /\ pc = "sweep" /\ le # << >>
  /\ mark[Head(le)] = current_mark
  /\ new_list' = <<Head(le)>> \o new_list
  /\ le' = Tail(le)
  /\ UNCHANGED <<objects, current_mark, active_list, roots, num_roots, counters,
                 allocs_since_last_collect, pc, request, todo>>

unmarked(current) == IF current = 0 THEN 1 ELSE 0

(* Mutant: the marks keep their meaning. *)
swap_marks_Never == UNCHANGED current_mark
swap_marks == current_mark' = unmarked(current_mark)

(* The new list becomes the list; every survivor is now an unmarked object. *)
SweepDone ==
  /\ pc = "sweep" /\ le = << >>
  /\ active_list' = new_list
  /\ new_list' = << >>
  /\ swap_marks
  /\ pc' = "alloc"
  /\ UNCHANGED <<objects, roots, num_roots, counters, allocs_since_last_collect,
                 request, todo, le>>

(* The rest of gc_alloc: a block of zeroes, its header, a list entry. *)
NewObject(a) ==
  /\ pc = "alloc"
  /\ a \notin Allocated
  /\ allocs_since_last_collect' = allocs_since_last_collect + 1
  /\ total_alloced_mem' = total_alloced_mem + Size[request]
  /\ mark' = [mark EXCEPT ![a] = unmarked(current_mark)]
  /\ kind' = [kind EXCEPT ![a] = request]
  /\ ptrs' = [ptrs EXCEPT ![a] = [i \in 1..Fields[request] |-> NULL]]
  /\ active_list' = <<a>> \o active_list
  /\ num_active_objs' = num_active_objs + 1
  /\ request' = NULL
  /\ pc' = "client"
  /\ UNCHANGED <<current_mark, roots, num_roots, scratch>>

(* malloc returned NULL: checked_malloc exits the process. *)
OutOfMemory ==
  /\ pc = "alloc"
  /\ Allocated = Addr
  /\ pc' = "exit"
  /\ UNCHANGED <<objects, current_mark, active_list, roots, num_roots, counters,
                 allocs_since_last_collect, request, scratch>>

-----------------------------------------------------------------------------
(* The client *)

gc_push_root(p) ==
  /\ pc = "client"
  /\ p \in Allocated \union {NULL}
  /\ Len(roots) < MaxRoots
  /\ roots' = <<p>> \o roots
  /\ num_roots' = num_roots + 1
  /\ UNCHANGED <<objects, current_mark, active_list, counters,
                 allocs_since_last_collect, pc, request, scratch>>

gc_pop_root ==
  /\ pc = "client"
  /\ roots # << >>
  /\ roots' = Tail(roots)
  /\ num_roots' = num_roots - 1
  /\ UNCHANGED <<objects, current_mark, active_list, counters,
                 allocs_since_last_collect, pc, request, scratch>>

(* A root is the address of a C variable: the program assigns to it freely. *)
AssignRoot(i, p) ==
  /\ pc = "client"
  /\ i \in DOMAIN roots
  /\ p \in Allocated \union {NULL}
  /\ roots' = [roots EXCEPT ![i] = p]
  /\ UNCHANGED <<objects, current_mark, active_list, num_roots, counters,
                 allocs_since_last_collect, pc, request, scratch>>

(* set_car, set_cdr and the assignments of the constructors. *)
WriteField(a, i, p) ==
  /\ pc = "client"
  /\ a \in Allocated
  /\ i \in DOMAIN ptrs[a]
  /\ p \in Allocated \union {NULL}
  /\ ptrs' = [ptrs EXCEPT ![a] = [@ EXCEPT ![i] = p]]
  /\ UNCHANGED <<mark, kind, current_mark, active_list, roots, num_roots, counters,
                 allocs_since_last_collect, pc, request, scratch>>

Collector ==
  \/ MarkReturn \/ MarkEntry
  \/ SweepStart \/ SweepFree \/ SweepKeep \/ SweepDone
  \/ \E a \in Addr : NewObject(a)
  \/ OutOfMemory

Client ==
  \/ \E t \in Types : AllocDirect(t)
  \/ \E t \in Types : AllocCollect(t)
  \/ \E p \in Ptr : gc_push_root(p)
  \/ gc_pop_root
  \/ \E p \in Ptr : \E i \in DOMAIN roots : AssignRoot(i, p)
  \/ \E a \in Addr, p \in Ptr : \E i \in DOMAIN ptrs[a] : WriteField(a, i, p)

Next == Collector \/ Client

Spec == Init /\ [][Next]_vars

(* The thread does not stop inside gc_alloc; the client may stop calling it. *)
FairSpec == Spec /\ WF_vars(Collector)

-----------------------------------------------------------------------------
(* Properties *)

(* No pointer the program can follow from its roots leads to freed memory,  *)
(* at any point of a collection: gc.c:199-212 frees only what mark() missed. *)
ReachableIsAllocated == Reachable(ptrs, roots) \subseteq Allocated

(* Between two collections no object carries the current mark, whichever of *)
(* the two values that is: the sweep never visits the survivors to clear    *)
(* them, it swaps the meaning of the marks (gc.c:51-58, 222) and gives new  *)
(* objects the other one (gc.c:134).  Were it not so, mark() would return   *)
(* early on an object and never see what it points to.                      *)
NoneMarkedBetweenCollections ==
  pc \in {"client", "alloc", "exit"} => Marked = {}

(* The list holds every object, once: none is leaked and none freed twice.  *)
(* While gc.c:194-220 runs, the two lists share them out.                   *)
ListsHoldTheObjects ==
  LET list == IF pc = "sweep" THEN le \o new_list ELSE active_list
  IN  Range(list) = Allocated /\ IsInjective(list)

(* The counters agree with the heap and the root list, in mid-sweep too:    *)
(* total_alloced_mem is what gc.c:126 compares with the limit, and it is    *)
(* unsigned, so that one subtraction too many would make every allocation   *)
(* collect.                                                                 *)
CountsAreExact ==
  /\ num_roots = Len(roots)
  /\ num_active_objs = Cardinality(Allocated)
Space == [a \in Allocated |-> Size[kind[a]]]
MemoryIsExact == total_alloced_mem = SumFunction(Space)
CountersAreExact == CountsAreExact /\ MemoryIsExact

(* Memory use passes MAX_MEM_USE only when a collection has just run and    *)
(* left nothing but reachable objects: the limit at gc.c:126 is soft, but   *)
(* garbage alone never breaks it.                                           *)
OverLimitOnlyWithLiveData ==
  [][total_alloced_mem' > MAX_MEM_USE /\ total_alloced_mem' > total_alloced_mem
       => Allocated = Reachable(ptrs, roots)]_vars

(* gc_alloc returns or exits: mark() terminates on cyclic data, and the     *)
(* sweep gets to the end of its list.                                       *)
AllocReturns == pc # "client" ~> pc \in {"client", "exit"}

(***************************************************************************)
(* Why it works: what holds at every step of a collection, strong enough   *)
(* to be inductive.  Outside the sweep no pointer of an allocated object   *)
(* and no root leads out of the allocated objects, garbage included.  The  *)
(* marker keeps the marked objects and its remaining work between what     *)
(* they must cover (the roots, and all that the marked objects point to)   *)
(* and what they may (the reachable objects); so the sweep starts with     *)
(* exactly the reachable objects marked, and frees none of them.           *)
(***************************************************************************)
HeadersAreValid == \A a \in Allocated : kind[a] \in Types
CallIsValid == pc \in {"mark", "sweep", "alloc", "exit"} => request \in Types
NoPointerDangles ==
  pc # "sweep" =>
    Closed(ptrs, Allocated) /\ Targets(roots) \subseteq Allocated
MarkingIsOnTrack ==
  pc = "mark" =>
    LET covered == Marked \union Targets(todo) IN
      /\ Targets(todo) \subseteq Allocated
      /\ Targets(roots) \subseteq covered
      /\ \A a \in Marked : Targets(ptrs[a]) \subseteq covered
      /\ covered \subseteq Reachable(ptrs, roots)
SweepingIsSafe ==
  pc = "sweep" =>
    /\ Marked = Reachable(ptrs, roots)
    /\ Range(new_list) \subseteq Marked

CollectionInvariant ==
  /\ TypeOK
  /\ HeadersAreValid /\ CallIsValid
  /\ ListsHoldTheObjects /\ CountsAreExact
  /\ NoneMarkedBetweenCollections /\ NoPointerDangles
  /\ MarkingIsOnTrack /\ SweepingIsSafe

(***************************************************************************)
(* The collector implements the abstract heap.  Seen from outside, all the *)
(* garbage disappears when the sweep starts; the objects that are still on *)
(* the sweeper's list but unmarked are gone already.                       *)
(***************************************************************************)
LiveObjects == IF pc = "sweep" THEN Marked ELSE Allocated
LivePtrs == [a \in Addr |-> IF a \in LiveObjects THEN ptrs[a] ELSE << >>]
H == INSTANCE Heap WITH live <- LiveObjects, ptrs <- LivePtrs
HeapSpec == H!Spec

=============================================================================
