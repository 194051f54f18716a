--------------------------- MODULE BootstrapProofs --------------------------
(***************************************************************************)
(* The interpreter starts, and makes its environments, with nothing freed  *)
(* under it, for every list of declarations and of syntax names, in        *)
(* whatever order the arguments of a declaration are evaluated and at      *)
(* whichever allocation the collector runs.                                *)
(*                                                                         *)
(* The invariant says what each object that is held is, and how far the    *)
(* environment under construction has got.  An allocation spares a set of  *)
(* objects that is closed under pointers and has the vm in it: from this   *)
(* follows that it spares all that the invariant is about.                 *)
(***************************************************************************)
EXTENDS Bootstrap, Facts

N == Len(declarations)
Name(d) == declarations[d].name
Fn(d) == declarations[d].fn

(* The symbols of the table are where it says, in a heap h.                 *)
TableIsRight(h, table) ==
  \A x \in DOMAIN table : table[x] \in DOMAIN h /\ h[table[x]] = Symbol(x)

(* The first k declarations have been carried out in the environment e.     *)
Filled(h, table, e, k) ==
  /\ e \in DOMAIN h /\ h[e] = Environment(h[e].bindings)
  /\ \A d \in 1..k : Name(d) \in DOMAIN table
  /\ DOMAIN h[e].bindings = {table[Name(d)] : d \in 1..k}
  /\ \A d \in 1..k :
       /\ h[e].bindings[table[Name(d)]] \in DOMAIN h
       /\ h[h[e].bindings[table[Name(d)]]] = Primitive(Fn(d))

Shape ==
  /\ IsSeq(heap)
  /\ vm = [env |-> vm.env, symbol_table |-> vm.symbol_table]
  /\ local = [v |-> local.v, env |-> local.env, tmp |-> local.tmp, symbol |-> local.symbol]
  /\ static = [c \in Range(constants) \union Range(syntax) |-> static[c]]

(* What the vm points to are the objects that it should.                    *)
VmIsRight ==
  /\ at # "vm_get" => local.v \in Addr /\ heap[local.v] = Object("vm")
  /\ TableIsRight(heap, vm.symbol_table)
  /\ \A c \in Range(constants) :
       static[c] # NULL => static[c] \in Addr /\ heap[static[c]] = Object(c)
  /\ \A s \in Range(syntax) :
       static[s] # NULL => s \in DOMAIN vm.symbol_table /\ static[s] = vm.symbol_table[s]

EnvironmentsAreRight ==
  /\ vm.env # NULL => Filled(heap, vm.symbol_table, vm.env, N)
  /\ kept # NULL =>
       /\ kept \in Addr /\ heap[kept] = SchemeEnvironment(heap[kept].value)
       /\ heap[kept].value # vm.env /\ heap[kept].value # local.env
       /\ Filled(heap, vm.symbol_table, heap[kept].value, N)

(* Where the program is, the roots and the variables are as they should be. *)
Between == {"init_environment", "constants", "symbols", "ready"}
AtStart ==
  /\ heap = << >> /\ roots = << >> /\ argument = {} /\ vm.env = NULL /\ kept = NULL
  /\ local.v = NULL /\ local.env = NULL /\ local.tmp = NULL /\ local.symbol = NULL
  /\ vm.symbol_table = << >> /\ \A c \in DOMAIN static : static[c] = NULL
Resting ==
  roots = <<"v">> /\ argument = {} /\ local.env = NULL /\ local.tmp = NULL /\ local.symbol = NULL
Filling ==
  /\ roots = <<"v", "env", "tmp">>
  /\ local.env # vm.env
  /\ local.tmp # NULL => local.tmp \in Addr /\ heap[local.tmp] # Freed
Declaring ==
  /\ n \in 1..N /\ Filled(heap, vm.symbol_table, local.env, n - 1)
  /\ argument \subseteq {"symbol", "primitive"}
  /\ IF "symbol" \in argument
       THEN Name(n) \in DOMAIN vm.symbol_table /\ local.symbol = vm.symbol_table[Name(n)]
       ELSE local.symbol = NULL
  /\ "primitive" \in argument => local.tmp \in Addr /\ heap[local.tmp] = Primitive(Fn(n))
Declared ==
  Filled(heap, vm.symbol_table, local.env, N) /\ argument = {} /\ local.symbol = NULL
PlaceIsRight ==
  /\ at \in Between \union {"vm_get", "declare", "declared"}
  /\ at = "vm_get" => AtStart
  /\ at \in Between => Resting
  /\ at \in {"declare", "declared"} => Filling
  /\ at = "init_environment" => n = 1
  /\ at = "declare" => Declaring
  /\ at = "declared" => Declared

(* How far vm_get has got.                                                  *)
ConstantsMade == \A c \in Range(constants) : static[c] # NULL
AllMade == ConstantsMade /\ \A s \in Range(syntax) : static[s] # NULL
ProgressIsRight ==
  /\ at \in {"constants", "symbols", "ready"} => vm.env # NULL
  /\ at = "constants" => n \in 1..4 /\ \A i \in 1..(n - 1) : static[constants[i]] # NULL
  /\ at = "symbols" =>
       /\ n \in 1..Len(syntax) /\ \A i \in 1..(n - 1) : static[syntax[i]] # NULL
       /\ ConstantsMade
  /\ vm.env # NULL /\ at \notin {"constants", "symbols"} => AllMade

IInv == Shape /\ VmIsRight /\ EnvironmentsAreRight /\ PlaceIsRight /\ ProgressIsRight

-----------------------------------------------------------------------------
(* Objects of different kinds, and the lists of names *)

LEMMA Kinds ==
  /\ \A b : Environment(b).kind = "environment" /\ Environment(b).bindings = b
  /\ \A e : SchemeEnvironment(e).kind = "scheme_environment" /\ SchemeEnvironment(e).value = e
  /\ \A x : Symbol(x).kind = "symbol" /\ Symbol(x).name = x
  /\ \A f : Primitive(f).kind = "primitive" /\ Primitive(f).fn = f
  /\ \A k : Object(k).kind = k
  /\ Freed.kind = "freed"
BY DEF Environment, SchemeEnvironment, Symbol, Primitive, Object, Freed

LEMMA ConstantsFacts ==
  /\ Len(constants) = 4 /\ DOMAIN constants = 1..4
  /\ \A i \in 1..4 : constants[i] \in Range(constants)
  /\ \A c \in Range(constants) : \E i \in 1..4 : c = constants[i]
  /\ \A c \in Range(constants) :
       c \notin {"vm", "freed", "environment", "scheme_environment", "symbol", "primitive"}
<1>1. Len(constants) = 4 /\ DOMAIN constants = 1..4  BY DEF constants
<1>2. \A c \in Range(constants) : \E i \in 1..4 : c = constants[i]  BY <1>1 DEF Range
<1>3. \A i \in 1..4 : constants[i] \in {"false", "true", "the_empty_list", "eof"}
  BY DEF constants
<1>4. \A i \in 1..4 : constants[i] \in Range(constants)  BY <1>1 DEF Range
<1> QED BY <1>1, <1>2, <1>3, <1>4

LEMMA ListFacts ==
  /\ N \in Nat /\ N > 0 /\ Declaration = 1..N
  /\ \A d \in 1..N : \A e \in 1..N : Name(d) = Name(e) => d = e
  /\ Len(syntax) \in Nat /\ Len(syntax) > 0 /\ DOMAIN syntax = 1..Len(syntax)
  /\ \A i \in 1..Len(syntax) : syntax[i] \in Range(syntax)
  /\ \A s \in Range(syntax) : \E i \in 1..Len(syntax) : s = syntax[i]
  /\ \A s \in Range(syntax) : s \notin Range(constants)
<1>1. IsSeq(declarations) /\ IsSeq(syntax)  BY NamesAreDeclaredOnce, SyntaxIsApart, AnySeq
<1>2. N \in Nat /\ N > 0 /\ Declaration = 1..N
  BY <1>1, SeqFacts, NamesAreDeclaredOnce DEF N, Declaration
<1>3. /\ Len(syntax) \in Nat /\ Len(syntax) > 0 /\ DOMAIN syntax = 1..Len(syntax)
      /\ \A i \in 1..Len(syntax) : syntax[i] \in Range(syntax)
  BY <1>1, SeqFacts, SyntaxIsApart
<1>4. \A s \in Range(syntax) : \E i \in 1..Len(syntax) : s = syntax[i]  BY <1>3 DEF Range
<1>5. \A d \in 1..N : \A e \in 1..N : Name(d) = Name(e) => d = e
  BY <1>2, NamesAreDeclaredOnce DEF Name
<1>6. \A s \in Range(syntax) : s \notin Range(constants)  BY SyntaxIsApart
<1> QED BY <1>2, <1>3, <1>4, <1>5, <1>6

(* The variables on the root list, in each of its two states.               *)
LEMMA RootFacts ==
  /\ Rooted(<<"v">>) = {local.v}
  /\ Rooted(<<"v", "env", "tmp">>) = {local.v, local.env, local.tmp}
  /\ <<"v">> \o <<"env", "tmp">> = <<"v", "env", "tmp">>
  /\ SubSeq(<<"v", "env", "tmp">>, 1, Len(<<"v", "env", "tmp">>) - 2) = <<"v">>
<1>1. Range(<<"v">>) = {"v"} /\ Range(<<"v", "env", "tmp">>) = {"v", "env", "tmp"}
  BY DEF Range
<1>2. <<"v">> \o <<"env", "tmp">> = <<"v", "env", "tmp">>  BY Tuples
<1>3. SubSeq(<<"v", "env", "tmp">>, 1, Len(<<"v", "env", "tmp">>) - 2) = <<"v">>
  <2> DEFINE s == <<"v", "env", "tmp">>
  <2>1. IsSeq(s) /\ Len(s) = 3 /\ s[1] = "v"  BY Tuples
  <2>2. IsSeq(<<"v">>) /\ Len(<<"v">>) = 1 /\ <<"v">>[1] = "v"  BY Tuples
  <2> HIDE DEF s
  <2>3. IsSeq(SubSeq(s, 1, 1)) /\ Len(SubSeq(s, 1, 1)) = 1 /\ SubSeq(s, 1, 1)[1] = s[1]
    <3>1. 1 \in 0..Len(s) /\ 1 \in 1..1  BY <2>1
    <3> QED BY <2>1, <3>1, SubSeqFacts
  <2>4. SubSeq(s, 1, 1) = <<"v">>
    <3>1. \A i \in 1..1 : i = 1  OBVIOUS
    <3> QED BY <2>1, <2>2, <2>3, <3>1, SameSeq
  <2> QED BY <2>1, <2>4 DEF s
<1> QED BY <1>1, <1>2, <1>3 DEF Rooted

-----------------------------------------------------------------------------
(* What an allocation spares *)

Spares(M) ==
  /\ M \subseteq Addr /\ \A a \in M : Pointers(a) \intersect Addr \subseteq M
  /\ kept \in Addr => kept \in M
  /\ IsSeq(heap') /\ Addr \subseteq Addr' /\ \A a \in M : heap'[a] = heap[a]

LEMMA HeapFacts ==
  ASSUME IsSeq(heap)
  PROVE  /\ Addr = 1..Len(heap) /\ Len(heap) \in Nat /\ IsFiniteSet(Addr)
         /\ NewAddr \in Nat /\ NewAddr \notin Addr /\ NULL \notin Addr /\ NewAddr # NULL
<1>1. Addr = 1..Len(heap) /\ Len(heap) \in Nat  BY SeqFacts DEF Addr
<1>2. IsFiniteSet(Addr)
  <2>1. \A k \in Nat : IsFiniteSet(1..k)  BY FS_Interval
  <2> QED BY <1>1, <2>1
<1> QED BY <1>1, <1>2, NullIsNoAddress DEF NewAddr

LEMMA SweptFacts ==
  ASSUME IsSeq(heap), NEW start
  PROVE  /\ IsSeq(Swept(start)) /\ Len(Swept(start)) = Len(heap)
         /\ \E M \in SUBSET Addr :
              /\ (start \union {kept}) \intersect Addr \subseteq M
              /\ \A a \in M : Pointers(a) \intersect Addr \subseteq M
              /\ \A a \in M : Swept(start)[a] = heap[a]
<1> DEFINE pointers == [a \in Addr |-> Pointers(a)]
           from == start \union {kept}
           M == Marked(pointers, from)
           h == [a \in Addr |-> IF a \in M THEN heap[a] ELSE Freed]
<1>0. Swept(start) = h  BY DEF Swept
<1>1. DOMAIN pointers = Addr  OBVIOUS
<1>2. /\ from \intersect Addr \subseteq M /\ M \subseteq Addr /\ ClosedUnder(pointers, M)
  <2>1. IsFiniteSet(DOMAIN pointers)  BY HeapFacts
  <2>2. /\ from \intersect DOMAIN pointers \subseteq M /\ M \subseteq DOMAIN pointers
        /\ ClosedUnder(pointers, M)
    <3> HIDE DEF pointers, from
    <3> QED BY <2>1, MarkedFacts
  <2> HIDE DEF M
  <2> QED BY <1>1, <2>2
<1>3. \A a \in M : Pointers(a) \intersect Addr \subseteq M
  <2> HIDE DEF M
  <2> QED BY <1>2 DEF ClosedUnder
<1>4. IsSeq(h) /\ Len(h) = Len(heap)
  <2>1. Addr = 1..Len(heap) /\ Len(heap) \in Nat  BY HeapFacts
  <2> DEFINE S == Range(heap) \union {Freed}
  <2>2. \A a \in Addr : heap[a] \in Range(heap)  BY DEF Range, Addr
  <2> HIDE DEF M
  <2>3. h \in [1..Len(heap) -> S]  BY <2>1, <2>2
  <2> HIDE DEF h, S
  <2> QED BY <2>1, <2>3, MadeSeq
<1>5. \A a \in M : h[a] = heap[a]
  <2> HIDE DEF M
  <2> QED BY <1>2
<1> HIDE DEF M, h
<1> QED BY <1>0, <1>2, <1>3, <1>4, <1>5

LEMMA AllocSpares ==
  ASSUME IsSeq(heap), NEW object, NEW start, gc_alloc(object, start)
  PROVE  /\ NewAddr \in Addr' /\ heap'[NewAddr] = object
         /\ \E M : Spares(M) /\ start \intersect Addr \subseteq M
<1>1. PICK h \in {heap, Swept(start)} : heap' = Append(h, object)  BY DEF gc_alloc
<1>2. IsSeq(h) /\ Len(h) = Len(heap)  BY <1>1, SweptFacts
<1>3. /\ IsSeq(heap') /\ Len(heap') = Len(heap) + 1
      /\ \A a \in 1..Len(heap) : heap'[a] = h[a]
      /\ heap'[NewAddr] = object
  <2>1. /\ IsSeq(Append(h, object)) /\ Len(Append(h, object)) = Len(h) + 1
        /\ \A a \in 1..Len(h) : Append(h, object)[a] = h[a]
        /\ Append(h, object)[Len(h) + 1] = object
    BY <1>2, AppendFacts
  <2> QED BY <1>1, <1>2, <2>1 DEF NewAddr
<1>4. Addr = 1..Len(heap) /\ Len(heap) \in Nat  BY HeapFacts
<1>5. DOMAIN (heap') = 1..Len(heap')  BY <1>3, SeqFacts
<1>6. Addr' = 1..(Len(heap) + 1)  BY <1>3, <1>5 DEF Addr
<1>7. Addr \subseteq Addr' /\ NewAddr \in Addr'  BY <1>4, <1>6 DEF NewAddr
<1>8. \E M \in SUBSET Addr :
        /\ (start \union {kept}) \intersect Addr \subseteq M
        /\ \A a \in M : Pointers(a) \intersect Addr \subseteq M
        /\ \A a \in M : h[a] = heap[a]
  <2>1. CASE h = heap
    <3>1. \A a \in Addr : Pointers(a) \intersect Addr \subseteq Addr  OBVIOUS
    <3> QED BY <2>1, <3>1
  <2>2. CASE h = Swept(start)  BY <2>2, SweptFacts
  <2> QED BY <1>1, <2>1, <2>2
<1>9. PICK M \in SUBSET Addr :
        /\ (start \union {kept}) \intersect Addr \subseteq M
        /\ \A a \in M : Pointers(a) \intersect Addr \subseteq M
        /\ \A a \in M : h[a] = heap[a]
  BY <1>8
<1>10. Spares(M)  BY <1>3, <1>4, <1>7, <1>9 DEF Spares
<1> QED BY <1>3, <1>7, <1>9, <1>10

LEMMA NothingIsFreed ==
  ASSUME IsSeq(heap), UNCHANGED heap
  PROVE  Spares(Addr)
<1>1. \A a \in Addr : Pointers(a) \intersect Addr \subseteq Addr  OBVIOUS
<1>2. Addr' = Addr  BY DEF Addr
<1> QED BY <1>1, <1>2 DEF Spares

-----------------------------------------------------------------------------
(* What the invariant is about is spared *)

Grown(table, grown) == \A x \in DOMAIN table : x \in DOMAIN grown /\ grown[x] = table[x]
InUse(h, table, e, k) ==
  {e} \union {table[Name(d)] : d \in 1..k} \union {h[e].bindings[table[Name(d)]] : d \in 1..k}

LEMMA FilledStays ==
  ASSUME NEW h, NEW h2, NEW table, NEW grown, Grown(table, grown), NEW e, NEW k,
         Filled(h, table, e, k), DOMAIN h \subseteq DOMAIN h2,
         \A a \in InUse(h, table, e, k) : h2[a] = h[a]
  PROVE  Filled(h2, grown, e, k)
<1>1. h2[e] = h[e]  BY DEF InUse
<1>2. \A d \in 1..k : Name(d) \in DOMAIN grown /\ grown[Name(d)] = table[Name(d)]
  BY DEF Filled, Grown
<1>3. {grown[Name(d)] : d \in 1..k} = {table[Name(d)] : d \in 1..k}  BY <1>2
<1>4. ASSUME NEW d \in 1..k
      PROVE  /\ h2[e].bindings[grown[Name(d)]] \in DOMAIN h2
             /\ h2[h2[e].bindings[grown[Name(d)]]] = Primitive(Fn(d))
  <2> DEFINE p == h[e].bindings[table[Name(d)]]
  <2>1. p \in DOMAIN h /\ h[p] = Primitive(Fn(d))  BY DEF Filled
  <2>2. p \in InUse(h, table, e, k)  BY DEF InUse
  <2>3. h2[e].bindings[grown[Name(d)]] = p  BY <1>1, <1>2
  <2> HIDE DEF p
  <2> QED BY <2>1, <2>2, <2>3
<1> QED BY <1>1, <1>2, <1>3, <1>4 DEF Filled

(* A closed set with an environment in it has what the environment binds.   *)
LEMMA EnvironmentIsClosed ==
  ASSUME NEW M, M \subseteq Addr, \A a \in M : Pointers(a) \intersect Addr \subseteq M,
         NEW table, TableIsRight(heap, table), NEW e, NEW k, Filled(heap, table, e, k), e \in M
  PROVE  InUse(heap, table, e, k) \subseteq M
<1> DEFINE b == heap[e].bindings
<1>1. heap[e].kind = "environment"  BY Kinds DEF Filled
<1>2. Pointers(e) = DOMAIN b \union Range(b)  BY <1>1 DEF Pointers
<1>3. ASSUME NEW d \in 1..k  PROVE table[Name(d)] \in M /\ b[table[Name(d)]] \in M
  <2>1. table[Name(d)] \in DOMAIN b /\ table[Name(d)] \in Addr
    BY DEF Filled, TableIsRight, Addr
  <2>2. b[table[Name(d)]] \in Range(b)  BY <2>1 DEF Range
  <2>3. b[table[Name(d)]] \in Addr  BY DEF Filled, Addr
  <2> HIDE DEF b
  <2> QED BY <1>2, <2>1, <2>2, <2>3
<1> QED BY <1>3 DEF InUse

(* From the vm on.                                                          *)
LEMMA VmIsClosed ==
  ASSUME IInv, at # "vm_get", NEW M, Spares(M), local.v \in M
  PROVE  /\ \A x \in DOMAIN vm.symbol_table : vm.symbol_table[x] \in M
         /\ \A c \in Range(constants) : static[c] # NULL => static[c] \in M
         /\ vm.env # NULL => InUse(heap, vm.symbol_table, vm.env, N) \subseteq M
         /\ kept # NULL =>
              kept \in M /\ InUse(heap, vm.symbol_table, heap[kept].value, N) \subseteq M
<1>1. M \subseteq Addr /\ \A a \in M : Pointers(a) \intersect Addr \subseteq M  BY DEF Spares
<1>2. TableIsRight(heap, vm.symbol_table)  BY DEF IInv, VmIsRight
<1>3. Pointers(local.v) = vm_pointers
  <2>1. heap[local.v] = Object("vm")  BY DEF IInv, VmIsRight
  <2>2. heap[local.v].kind = "vm"  BY <2>1, Kinds
  <2> QED BY <2>2 DEF Pointers
<1>4. vm_pointers \intersect Addr \subseteq M  BY <1>1, <1>3
<1>5. \A x \in DOMAIN vm.symbol_table : vm.symbol_table[x] \in M
  BY <1>2, <1>4 DEF vm_pointers, TableIsRight, Range, Addr
<1>6. \A c \in Range(constants) : static[c] # NULL => static[c] \in M
  BY <1>4 DEF vm_pointers, IInv, VmIsRight
<1>7. ASSUME vm.env # NULL  PROVE InUse(heap, vm.symbol_table, vm.env, N) \subseteq M
  <2>1. Filled(heap, vm.symbol_table, vm.env, N)  BY <1>7 DEF IInv, EnvironmentsAreRight
  <2>2. vm.env \in M  BY <2>1, <1>4 DEF vm_pointers, Filled, Addr
  <2> QED BY <1>1, <1>2, <2>1, <2>2, EnvironmentIsClosed
<1>8. ASSUME kept # NULL
      PROVE  kept \in M /\ InUse(heap, vm.symbol_table, heap[kept].value, N) \subseteq M
  <2>1. /\ kept \in Addr /\ heap[kept] = SchemeEnvironment(heap[kept].value)
        /\ Filled(heap, vm.symbol_table, heap[kept].value, N)
    BY <1>8 DEF IInv, EnvironmentsAreRight
  <2>2. kept \in M  BY <2>1 DEF Spares
  <2>3. Pointers(kept) = {heap[kept].value}
    <3>1. heap[kept].kind = "scheme_environment"  BY <2>1, Kinds
    <3> QED BY <3>1 DEF Pointers
  <2>4. heap[kept].value \in M  BY <1>1, <2>1, <2>2, <2>3 DEF Filled, Addr
  <2> QED BY <1>1, <1>2, <2>1, <2>2, <2>4, EnvironmentIsClosed
<1> QED BY <1>5, <1>6, <1>7, <1>8

LEMMA Stays ==
  ASSUME IInv, at # "vm_get", NEW M, Spares(M), local.v \in M,
         NEW grown, Grown(vm.symbol_table, grown)
  PROVE  /\ local.v \in Addr' /\ heap'[local.v] = Object("vm")
         /\ TableIsRight(heap', vm.symbol_table)
         /\ \A c \in Range(constants) :
              static[c] # NULL => static[c] \in Addr' /\ heap'[static[c]] = Object(c)
         /\ \A s \in Range(syntax) :
              static[s] # NULL => s \in DOMAIN grown /\ static[s] = grown[s]
         /\ vm.env # NULL => Filled(heap', grown, vm.env, N)
         /\ kept # NULL =>
              /\ kept \in Addr' /\ heap'[kept] = heap[kept]
              /\ heap'[kept] = SchemeEnvironment(heap'[kept].value)
              /\ Filled(heap', grown, heap[kept].value, N)
<1>1. M \subseteq Addr /\ Addr \subseteq Addr' /\ \A a \in M : heap'[a] = heap[a]
  BY DEF Spares
<1>2. DOMAIN heap = Addr /\ DOMAIN heap' = Addr'  BY DEF Addr
<1>3. /\ \A x \in DOMAIN vm.symbol_table : vm.symbol_table[x] \in M
      /\ \A c \in Range(constants) : static[c] # NULL => static[c] \in M
      /\ vm.env # NULL => InUse(heap, vm.symbol_table, vm.env, N) \subseteq M
      /\ kept # NULL =>
           kept \in M /\ InUse(heap, vm.symbol_table, heap[kept].value, N) \subseteq M
  BY VmIsClosed
<1>4. local.v \in Addr' /\ heap'[local.v] = Object("vm")  BY <1>1 DEF IInv, VmIsRight
<1>5. TableIsRight(heap', vm.symbol_table)
  BY <1>1, <1>2, <1>3 DEF IInv, VmIsRight, TableIsRight
<1>6. \A c \in Range(constants) :
        static[c] # NULL => static[c] \in Addr' /\ heap'[static[c]] = Object(c)
  BY <1>1, <1>3 DEF IInv, VmIsRight
<1>7. \A s \in Range(syntax) :
        static[s] # NULL => s \in DOMAIN grown /\ static[s] = grown[s]
  BY DEF IInv, VmIsRight, Grown
<1>8. ASSUME vm.env # NULL  PROVE Filled(heap', grown, vm.env, N)
  <2>1. Filled(heap, vm.symbol_table, vm.env, N)  BY <1>8 DEF IInv, EnvironmentsAreRight
  <2>2. \A a \in InUse(heap, vm.symbol_table, vm.env, N) : heap'[a] = heap[a]
    BY <1>1, <1>3, <1>8
  <2> QED BY <1>1, <1>2, <2>1, <2>2, FilledStays
<1>9. ASSUME kept # NULL
      PROVE  /\ kept \in Addr' /\ heap'[kept] = heap[kept]
             /\ heap'[kept] = SchemeEnvironment(heap'[kept].value)
             /\ Filled(heap', grown, heap[kept].value, N)
  <2>1. /\ kept \in Addr /\ heap[kept] = SchemeEnvironment(heap[kept].value)
        /\ Filled(heap, vm.symbol_table, heap[kept].value, N)
    BY <1>9 DEF IInv, EnvironmentsAreRight
  <2>2. \A a \in InUse(heap, vm.symbol_table, heap[kept].value, N) : heap'[a] = heap[a]
    BY <1>1, <1>3, <1>9
  <2>3. Filled(heap', grown, heap[kept].value, N)  BY <1>1, <1>2, <2>1, <2>2, FilledStays
  <2>4. heap'[kept] = heap[kept]  BY <1>1, <1>3, <1>9
  <2> QED BY <1>1, <2>1, <2>3, <2>4
<1> QED BY <1>4, <1>5, <1>6, <1>7, <1>8, <1>9

LEMMA LocalStays ==
  ASSUME IInv, NEW M, Spares(M), local.env \in M, NEW grown, Grown(vm.symbol_table, grown),
         NEW k, Filled(heap, vm.symbol_table, local.env, k)
  PROVE  Filled(heap', grown, local.env, k)
<1>1. /\ M \subseteq Addr /\ Addr \subseteq Addr' /\ \A a \in M : heap'[a] = heap[a]
      /\ \A a \in M : Pointers(a) \intersect Addr \subseteq M
  BY DEF Spares
<1>2. TableIsRight(heap, vm.symbol_table)  BY DEF IInv, VmIsRight
<1>3. InUse(heap, vm.symbol_table, local.env, k) \subseteq M
  BY <1>1, <1>2, EnvironmentIsClosed
<1>4. \A a \in InUse(heap, vm.symbol_table, local.env, k) : heap'[a] = heap[a]  BY <1>1, <1>3
<1>5. DOMAIN heap \subseteq DOMAIN heap'  BY <1>1 DEF Addr
<1> QED BY <1>4, <1>5, FilledStays

-----------------------------------------------------------------------------
(* Every step keeps the invariant *)

LEMMA InitIsRight == Init => IInv
<1> SUFFICES ASSUME Init PROVE IInv
  OBVIOUS
<1>1. IsSeq(heap)  BY Tuples DEF Init
<1>2. /\ vm = [env |-> vm.env, symbol_table |-> vm.symbol_table]
      /\ vm.env = NULL /\ vm.symbol_table = << >>
  BY DEF Init
<1>3. /\ local = [v |-> local.v, env |-> local.env, tmp |-> local.tmp, symbol |-> local.symbol]
      /\ local.v = NULL /\ local.env = NULL /\ local.tmp = NULL /\ local.symbol = NULL
  BY DEF Init
<1>4. /\ static = [c \in Range(constants) \union Range(syntax) |-> static[c]]
      /\ \A c \in DOMAIN static : static[c] = NULL
      /\ \A c \in Range(constants) \union Range(syntax) : static[c] = NULL
  BY DEF Init
<1>5. Shape  BY <1>1, <1>2, <1>3, <1>4 DEF Shape
<1>6. VmIsRight  BY <1>2, <1>4 DEF VmIsRight, TableIsRight, Init
<1>7. EnvironmentsAreRight  BY <1>2 DEF EnvironmentsAreRight, Init
<1>8. PlaceIsRight  BY <1>2, <1>3, <1>4 DEF PlaceIsRight, AtStart, Between, Init
<1>9. ProgressIsRight  BY <1>2 DEF ProgressIsRight, Init
<1> QED BY <1>5, <1>6, <1>7, <1>8, <1>9 DEF IInv

LEMMA MakeVm == IInv /\ make_vm => IInv'
<1> SUFFICES ASSUME IInv, make_vm PROVE IInv'
  OBVIOUS
<1>1. at = "vm_get" /\ at' = "init_environment" /\ n' = 1  BY DEF make_vm, Goto
<1>2. AtStart  BY <1>1 DEF IInv, PlaceIsRight
<1>3. UNCHANGED <<vm, static, argument, kept, calls>>  BY DEF make_vm
<1>4. IsSeq(heap)  BY DEF IInv, Shape
<1>5. /\ NewAddr \in Addr' /\ heap'[NewAddr] = Object("vm")
      /\ \E M : Spares(M)
  BY <1>4, AllocSpares DEF make_vm
<1>6. IsSeq(heap')  BY <1>5 DEF Spares
<1>7. /\ local' = [v |-> local'.v, env |-> local'.env, tmp |-> local'.tmp, symbol |-> local'.symbol]
      /\ local'.v = NewAddr /\ local'.env = NULL /\ local'.tmp = NULL /\ local'.symbol = NULL
  BY <1>2 DEF make_vm, IInv, Shape, AtStart
<1>8. DOMAIN static = Range(constants) \union Range(syntax)  BY DEF IInv, Shape
<1>9. vm.symbol_table = << >> /\ vm.env = NULL /\ kept = NULL /\ argument = {}
  BY <1>2 DEF AtStart
<1>10. \A c \in Range(constants) \union Range(syntax) : static[c] = NULL
  BY <1>2, <1>8 DEF AtStart
<1>11. Shape'  BY <1>3, <1>6, <1>7 DEF IInv, Shape
<1>12. VmIsRight'  BY <1>3, <1>5, <1>7, <1>9, <1>10 DEF VmIsRight, TableIsRight
<1>13. EnvironmentsAreRight'  BY <1>3, <1>9 DEF EnvironmentsAreRight
<1>14. PlaceIsRight'
  <2>1. Resting'  BY <1>3, <1>7, <1>9 DEF Resting, make_vm
  <2> QED BY <1>1, <2>1 DEF PlaceIsRight, Between
<1>15. ProgressIsRight'  BY <1>1, <1>3, <1>9 DEF ProgressIsRight
<1> QED BY <1>11, <1>12, <1>13, <1>14, <1>15 DEF IInv

LEMMA CreateEnvironment == IInv /\ environment_create => IInv'
<1> SUFFICES ASSUME IInv, environment_create PROVE IInv'
  OBVIOUS
<1>1. at = "init_environment" /\ at' = "declare" /\ n' = 1  BY DEF environment_create, Goto
<1>2. Resting  BY <1>1 DEF IInv, PlaceIsRight, Between
<1>3. UNCHANGED <<vm, static, argument, kept, calls>>  BY DEF environment_create
<1>4. IsSeq(heap)  BY DEF IInv, Shape
<1>5. Rooted(roots) = {local.v}  BY <1>2, RootFacts DEF Resting
<1>6. /\ NewAddr \in Addr' /\ heap'[NewAddr] = Environment(<< >>)
      /\ \E M : Spares(M) /\ {local.v} \intersect Addr \subseteq M
  <2>1. gc_alloc(Environment(<< >>), {local.v})  BY <1>5 DEF environment_create
  <2> QED BY <1>4, <2>1, AllocSpares
<1>7. PICK M : Spares(M) /\ local.v \in M  BY <1>1, <1>6 DEF IInv, VmIsRight
<1>8. /\ local' = [v |-> local'.v, env |-> local'.env, tmp |-> local'.tmp, symbol |-> local'.symbol]
      /\ local'.v = local.v /\ local'.env = NewAddr /\ local'.tmp = NULL /\ local'.symbol = NULL
  BY <1>2 DEF environment_create, IInv, Shape, Resting
<1>9. /\ local.v \in Addr' /\ heap'[local.v] = Object("vm")
      /\ TableIsRight(heap', vm.symbol_table)
      /\ \A c \in Range(constants) :
           static[c] # NULL => static[c] \in Addr' /\ heap'[static[c]] = Object(c)
      /\ \A s \in Range(syntax) :
           static[s] # NULL => s \in DOMAIN vm.symbol_table /\ static[s] = vm.symbol_table[s]
      /\ vm.env # NULL => Filled(heap', vm.symbol_table, vm.env, N)
      /\ kept # NULL =>
           /\ kept \in Addr' /\ heap'[kept] = heap[kept]
           /\ heap'[kept] = SchemeEnvironment(heap'[kept].value)
           /\ Filled(heap', vm.symbol_table, heap[kept].value, N)
  <2>1. Grown(vm.symbol_table, vm.symbol_table)  BY DEF Grown
  <2> QED BY <1>1, <1>7, <2>1, Stays
<1>10. NewAddr \notin Addr /\ NewAddr # NULL  BY <1>4, HeapFacts
<1>11. Shape'  BY <1>3, <1>7, <1>8 DEF IInv, Shape, Spares
<1>12. VmIsRight'  BY <1>3, <1>8, <1>9 DEF VmIsRight
<1>13. EnvironmentsAreRight'
  <2>1. kept # NULL => heap[kept].value \in Addr /\ heap[kept].value # vm.env
    BY DEF IInv, EnvironmentsAreRight, Filled, Addr
  <2> QED BY <1>3, <1>8, <1>9, <1>10, <2>1 DEF EnvironmentsAreRight
<1>14. PlaceIsRight'
  <2>1. Filling'
    <3>1. vm.env # NewAddr  BY <1>10 DEF IInv, EnvironmentsAreRight, Filled, Addr
    <3>2. roots' = <<"v", "env", "tmp">>  BY <1>2, RootFacts DEF environment_create, Resting
    <3> QED BY <1>3, <1>8, <3>1, <3>2 DEF Filling
  <2>2. Filled(heap', vm.symbol_table, NewAddr, 0)
    <3>1. 1..0 = {} /\ heap'[NewAddr].bindings = << >>  BY <1>6, Kinds
    <3>2. DOMAIN << >> = {}  OBVIOUS
    <3> QED BY <1>6, <3>1, <3>2 DEF Filled, Addr
  <2>3. Declaring'
    <3>1. 1 \in 1..N  BY ListFacts
    <3> QED BY <1>1, <1>2, <1>3, <1>8, <2>2, <3>1 DEF Declaring, Resting
  <2> QED BY <1>1, <2>1, <2>3 DEF PlaceIsRight, Between
<1>15. ProgressIsRight'
  BY <1>1, <1>3 DEF IInv, ProgressIsRight, AllMade, ConstantsMade
<1> QED BY <1>11, <1>12, <1>13, <1>14, <1>15 DEF IInv

(* What a step does to the vm and the environments when it changes neither, *)
(* but for symbols that it adds.                                            *)
LEMMA OnlySymbolsAdded ==
  ASSUME IInv, at # "vm_get", NEW M, Spares(M), local.v \in M,
         UNCHANGED kept, local'.v = local.v, vm'.env = vm.env,
         local'.env = local.env \/ local'.env = NULL,
         Grown(vm.symbol_table, vm'.symbol_table), TableIsRight(heap', vm'.symbol_table)
  PROVE  UNCHANGED static => VmIsRight' /\ EnvironmentsAreRight'
<1> SUFFICES ASSUME UNCHANGED static PROVE VmIsRight' /\ EnvironmentsAreRight'
  OBVIOUS
<1>1. /\ local.v \in Addr' /\ heap'[local.v] = Object("vm")
      /\ \A c \in Range(constants) :
           static[c] # NULL => static[c] \in Addr' /\ heap'[static[c]] = Object(c)
      /\ \A s \in Range(syntax) :
           static[s] # NULL => s \in DOMAIN vm'.symbol_table /\ static[s] = vm'.symbol_table[s]
      /\ vm.env # NULL => Filled(heap', vm'.symbol_table, vm.env, N)
      /\ kept # NULL =>
           /\ kept \in Addr' /\ heap'[kept] = heap[kept]
           /\ heap'[kept] = SchemeEnvironment(heap'[kept].value)
           /\ Filled(heap', vm'.symbol_table, heap[kept].value, N)
  BY Stays
<1>2. VmIsRight'  BY <1>1 DEF VmIsRight
<1>3. EnvironmentsAreRight'
  <2>1. kept # NULL =>
          /\ heap[kept].value \in Addr
          /\ heap[kept].value # vm.env /\ heap[kept].value # local.env
    BY DEF IInv, EnvironmentsAreRight, Filled, Addr
  <2>2. NULL \notin Addr  BY HeapFacts DEF IInv, Shape
  <2> QED BY <1>1, <2>1, <2>2 DEF EnvironmentsAreRight
<1> QED BY <1>2, <1>3

LEMMA MakeSymbolFacts ==
  ASSUME IInv, NEW name, make_symbol(name)
  PROVE  /\ \E M : Spares(M) /\ Rooted(roots) \intersect Addr \subseteq M
         /\ vm' = [env |-> vm'.env, symbol_table |-> vm'.symbol_table] /\ vm'.env = vm.env
         /\ Grown(vm.symbol_table, vm'.symbol_table)
         /\ name \in DOMAIN vm'.symbol_table /\ vm'.symbol_table[name] = SymbolFor(name)
         /\ TableIsRight(heap', vm.symbol_table) => TableIsRight(heap', vm'.symbol_table)
<1>0. /\ IsSeq(heap) /\ vm = [env |-> vm.env, symbol_table |-> vm.symbol_table]
  BY DEF IInv, Shape
<1>1. CASE Found(name)
  <2>1. UNCHANGED heap /\ UNCHANGED vm  BY <1>1 DEF make_symbol
  <2>2. Spares(Addr) /\ Rooted(roots) \intersect Addr \subseteq Addr  BY <1>0, <2>1, NothingIsFreed
  <2>3. Grown(vm.symbol_table, vm'.symbol_table)  BY <2>1 DEF Grown
  <2> QED BY <1>0, <1>1, <2>1, <2>2, <2>3 DEF Found, SymbolFor
<1>2. CASE ~ Found(name)
  <2>1. gc_alloc(Symbol(name), Rooted(roots))  BY <1>2 DEF make_symbol
  <2>2. /\ NewAddr \in Addr' /\ heap'[NewAddr] = Symbol(name)
        /\ \E M : Spares(M) /\ Rooted(roots) \intersect Addr \subseteq M
    BY <1>0, <2>1, AllocSpares
  <2> DEFINE table == vm.symbol_table
             grown == [m \in DOMAIN table \union {name} |-> IF m = name THEN NewAddr ELSE table[m]]
  <2>3. vm' = [vm EXCEPT !.symbol_table = grown]  BY <1>2 DEF make_symbol
  <2>4. /\ vm' = [env |-> vm'.env, symbol_table |-> vm'.symbol_table]
        /\ vm'.env = vm.env /\ vm'.symbol_table = grown
    <3> HIDE DEF grown
    <3> QED BY <1>0, <2>3
  <2>5. SymbolFor(name) = NewAddr /\ name \notin DOMAIN table  BY <1>2 DEF SymbolFor, Found
  <2>6. Grown(table, grown) /\ name \in DOMAIN grown /\ grown[name] = NewAddr
    BY <2>5 DEF Grown
  <2>7. TableIsRight(heap', table) => TableIsRight(heap', grown)
    BY <2>2, <2>5 DEF TableIsRight, Addr
  <2> HIDE DEF grown, table
  <2> QED BY <2>2, <2>4, <2>5, <2>6, <2>7 DEF table
<1> QED BY <1>1, <1>2

LEMMA DeclareSymbol == IInv /\ declare_symbol => IInv'
<1> SUFFICES ASSUME IInv, declare_symbol PROVE IInv'
  OBVIOUS
<1>1. /\ at = "declare" /\ "symbol" \notin argument /\ argument' = argument \union {"symbol"}
      /\ UNCHANGED <<roots, static, at, n, kept, calls>>
  BY DEF declare_symbol, Evaluate
<1>2. Filling /\ Declaring  BY <1>1 DEF IInv, PlaceIsRight
<1> DEFINE name == Name(n)
<1>3. make_symbol(name) /\ local' = [local EXCEPT !.symbol = SymbolFor(name)]
  BY DEF declare_symbol, Name
<1> HIDE DEF name
<1>4. /\ \E M : Spares(M) /\ Rooted(roots) \intersect Addr \subseteq M
      /\ vm' = [env |-> vm'.env, symbol_table |-> vm'.symbol_table] /\ vm'.env = vm.env
      /\ Grown(vm.symbol_table, vm'.symbol_table)
      /\ name \in DOMAIN vm'.symbol_table /\ vm'.symbol_table[name] = SymbolFor(name)
      /\ TableIsRight(heap', vm.symbol_table) => TableIsRight(heap', vm'.symbol_table)
  BY <1>3, MakeSymbolFacts
<1>5. Rooted(roots) = {local.v, local.env, local.tmp}  BY <1>2, RootFacts DEF Filling
<1>6. local.v \in Addr /\ local.env \in Addr  BY <1>1, <1>2 DEF IInv, VmIsRight, Declaring, Filled, Addr
<1>7. PICK M : Spares(M) /\ Rooted(roots) \intersect Addr \subseteq M  BY <1>4
<1>8. /\ local.v \in M /\ local.env \in M
      /\ local.tmp \in Addr => local.tmp \in M
  BY <1>5, <1>6, <1>7
<1>9. /\ local' = [v |-> local'.v, env |-> local'.env, tmp |-> local'.tmp, symbol |-> local'.symbol]
      /\ local'.v = local.v /\ local'.env = local.env /\ local'.tmp = local.tmp
      /\ local'.symbol = SymbolFor(name)
  BY <1>3 DEF IInv, Shape
<1>10. TableIsRight(heap', vm'.symbol_table)
  <2>1. Grown(vm.symbol_table, vm.symbol_table)  BY DEF Grown
  <2>2. TableIsRight(heap', vm.symbol_table)  BY <1>1, <1>7, <1>8, <2>1, Stays
  <2> QED BY <1>4, <2>2
<1>11. VmIsRight' /\ EnvironmentsAreRight'
  BY <1>1, <1>4, <1>7, <1>8, <1>9, <1>10, OnlySymbolsAdded
<1>12. Shape'  BY <1>1, <1>4, <1>7, <1>9 DEF IInv, Shape, Spares
<1>13. local.tmp \in Addr => local.tmp \in Addr' /\ heap'[local.tmp] = heap[local.tmp]
  BY <1>7, <1>8 DEF Spares
<1>14. Filling'  BY <1>1, <1>2, <1>4, <1>9, <1>13 DEF Filling
<1>15. Declaring'
  <2>1. Filled(heap', vm'.symbol_table, local.env, n - 1)
    BY <1>2, <1>4, <1>7, <1>8, LocalStays DEF Declaring
  <2>2. name = Name(n) /\ n' = n  BY <1>1 DEF name
  <2>3. "symbol" # "primitive"  OBVIOUS
  <2> QED BY <1>1, <1>2, <1>4, <1>9, <1>13, <2>1, <2>2, <2>3 DEF Declaring
<1>16. PlaceIsRight'  BY <1>1, <1>14, <1>15 DEF PlaceIsRight, Between
<1>17. ProgressIsRight'  BY <1>1, <1>4 DEF IInv, ProgressIsRight, AllMade, ConstantsMade
<1> QED BY <1>11, <1>12, <1>16, <1>17 DEF IInv

LEMMA DeclarePrimitive == IInv /\ declare_primitive => IInv'
<1> SUFFICES ASSUME IInv, declare_primitive PROVE IInv'
  OBVIOUS
<1>1. /\ at = "declare" /\ argument' = argument \union {"primitive"}
      /\ UNCHANGED <<roots, vm, static, at, n, kept, calls>>
  BY DEF declare_primitive, Evaluate
<1>2. Filling /\ Declaring  BY <1>1 DEF IInv, PlaceIsRight
<1>3. /\ gc_alloc(Primitive(Fn(n)), Rooted(roots)) /\ local' = [local EXCEPT !.tmp = NewAddr]
  BY DEF declare_primitive, Fn
<1>4. IsSeq(heap)  BY DEF IInv, Shape
<1>5. /\ NewAddr \in Addr' /\ heap'[NewAddr] = Primitive(Fn(n))
      /\ \E M : Spares(M) /\ Rooted(roots) \intersect Addr \subseteq M
  BY <1>3, <1>4, AllocSpares
<1>6. Rooted(roots) = {local.v, local.env, local.tmp}  BY <1>2, RootFacts DEF Filling
<1>7. local.v \in Addr /\ local.env \in Addr  BY <1>1, <1>2 DEF IInv, VmIsRight, Declaring, Filled, Addr
<1>8. PICK M : Spares(M) /\ local.v \in M /\ local.env \in M  BY <1>5, <1>6, <1>7
<1>9. /\ local' = [v |-> local'.v, env |-> local'.env, tmp |-> local'.tmp, symbol |-> local'.symbol]
      /\ local'.v = local.v /\ local'.env = local.env /\ local'.tmp = NewAddr
      /\ local'.symbol = local.symbol
  BY <1>3 DEF IInv, Shape
<1>10. Grown(vm.symbol_table, vm'.symbol_table) /\ vm'.env = vm.env  BY <1>1 DEF Grown
<1>11. TableIsRight(heap', vm'.symbol_table)  BY <1>1, <1>8, <1>10, Stays
<1>12. VmIsRight' /\ EnvironmentsAreRight'
  BY <1>1, <1>8, <1>9, <1>10, <1>11, OnlySymbolsAdded
<1>13. Shape'  BY <1>1, <1>8, <1>9 DEF IInv, Shape, Spares
<1>14. heap'[NewAddr] # Freed
  <2>1. heap'[NewAddr].kind = "primitive" /\ Freed.kind = "freed"  BY <1>5, Kinds
  <2> QED BY <2>1
<1>15. Filling'  BY <1>1, <1>2, <1>5, <1>9, <1>14 DEF Filling
<1>16. Declaring'
  <2>1. Filled(heap', vm'.symbol_table, local.env, n - 1)
    BY <1>2, <1>8, <1>10, LocalStays DEF Declaring
  <2>2. "symbol" # "primitive"  OBVIOUS
  <2> QED BY <1>1, <1>2, <1>5, <1>9, <2>1, <2>2 DEF Declaring
<1>17. PlaceIsRight'  BY <1>1, <1>15, <1>16 DEF PlaceIsRight, Between
<1>18. ProgressIsRight'  BY <1>1 DEF IInv, ProgressIsRight, AllMade, ConstantsMade
<1> QED BY <1>12, <1>13, <1>17, <1>18 DEF IInv

(* What an environment binds is no environment.                             *)
LEMMA EnvironmentsAreApart ==
  ASSUME NEW table, TableIsRight(heap, table), NEW e, heap[e].kind = "environment",
         NEW f, NEW k, Filled(heap, table, f, k), f # e
  PROVE  e \notin InUse(heap, table, f, k)
<1>1. \A d \in 1..k : table[Name(d)] # e
  BY Kinds DEF TableIsRight, Filled
<1>2. \A d \in 1..k : heap[f].bindings[table[Name(d)]] # e
  BY Kinds DEF Filled
<1> QED BY <1>1, <1>2 DEF InUse

LEMMA DeclareProcedure == IInv /\ declare_procedure => IInv'
<1> SUFFICES ASSUME IInv, declare_procedure PROVE IInv'
  OBVIOUS
<1> DEFINE e == local.env
           table == vm.symbol_table
           b == heap[e].bindings
           symbol == table[Name(n)]
           b2 == [s \in DOMAIN b \union {symbol} |-> IF s = symbol THEN local.tmp ELSE b[s]]
<1>1. /\ at = "declare" /\ argument = {"symbol", "primitive"} /\ argument' = {}
      /\ UNCHANGED <<roots, vm, static, kept, calls>>
  BY DEF declare_procedure
<1>2. Filling /\ Declaring  BY <1>1 DEF IInv, PlaceIsRight
<1>3. /\ n \in 1..N /\ Filled(heap, table, e, n - 1)
      /\ Name(n) \in DOMAIN table /\ local.symbol = symbol
      /\ local.tmp \in Addr /\ heap[local.tmp] = Primitive(Fn(n))
  <2>1. "symbol" \in argument /\ "primitive" \in argument  BY <1>1
  <2> QED BY <1>2, <2>1 DEF Declaring
<1>4. IsSeq(heap) /\ TableIsRight(heap, table)  BY DEF IInv, Shape, VmIsRight
<1>5. Addr = 1..Len(heap)  BY <1>4, HeapFacts
<1>6. e \in Addr /\ heap[e] = Environment(b) /\ heap[e].kind = "environment"
  <2>1. e \in Addr /\ heap[e] = Environment(b)  BY <1>3 DEF Filled, Addr
  <2> QED BY <2>1, Kinds
<1>7. /\ heap'[e] = Environment(b2) /\ IsSeq(heap') /\ Addr' = Addr
      /\ \A a \in Addr : a # e => heap'[a] = heap[a]
  <2>1. heap' = [heap EXCEPT ![e] = [heap[e] EXCEPT !.bindings = b2]]
    BY <1>3 DEF declare_procedure
  <2>2. [heap[e] EXCEPT !.bindings = b2] = Environment(b2)
    <3> HIDE DEF b2, b, e
    <3> QED BY <1>6 DEF Environment
  <2> DEFINE o == Environment(b2)
  <2>3. heap' = [heap EXCEPT ![e] = o]  BY <2>1, <2>2
  <2> HIDE DEF o, e
  <2>4. /\ IsSeq([heap EXCEPT ![e] = o]) /\ Len([heap EXCEPT ![e] = o]) = Len(heap)
        /\ [heap EXCEPT ![e] = o][e] = o
        /\ \A a \in 1..Len(heap) : a # e => [heap EXCEPT ![e] = o][a] = heap[a]
    BY <1>4, <1>5, <1>6, ExceptFacts
  <2>5. IsSeq(heap') /\ Len(heap') = Len(heap) /\ heap'[e] = o
    BY <2>3, <2>4
  <2>6. DOMAIN heap' = 1..Len(heap)  BY <2>5, SeqFacts
  <2> QED BY <1>5, <2>3, <2>4, <2>5, <2>6 DEF o, Addr
<1> HIDE DEF b2
<1>8. /\ local' = [v |-> local'.v, env |-> local'.env, tmp |-> local'.tmp, symbol |-> local'.symbol]
      /\ local'.v = local.v /\ local'.env = e /\ local'.tmp = local.tmp /\ local'.symbol = NULL
  BY DEF declare_procedure, IInv, Shape
<1>9. TableIsRight(heap', table)
  <2>1. \A x \in DOMAIN table : table[x] # e  BY <1>4, <1>6, Kinds DEF TableIsRight
  <2> QED BY <1>4, <1>7, <2>1 DEF TableIsRight, Addr
<1>10. ASSUME NEW f, Filled(heap, table, f, N), f # e  PROVE Filled(heap', table, f, N)
  <2>1. e \notin InUse(heap, table, f, N)  BY <1>4, <1>6, <1>10, EnvironmentsAreApart
  <2>2. InUse(heap, table, f, N) \subseteq Addr
    BY <1>4, <1>10 DEF InUse, Filled, TableIsRight, Addr
  <2>3. \A a \in InUse(heap, table, f, N) : heap'[a] = heap[a]  BY <1>7, <2>1, <2>2
  <2>4. DOMAIN heap \subseteq DOMAIN heap'  BY <1>7 DEF Addr
  <2>5. Grown(table, table)  BY DEF Grown
  <2> HIDE DEF table
  <2> QED BY <1>10, <2>3, <2>4, <2>5, FilledStays
<1>11. VmIsRight'
  <2>1. local.v # e /\ local.v \in Addr /\ heap[local.v] = Object("vm")
    <3>1. local.v \in Addr /\ heap[local.v] = Object("vm")  BY <1>1 DEF IInv, VmIsRight
    <3>2. heap[local.v].kind = "vm"  BY <3>1, Kinds
    <3> QED BY <1>6, <3>1, <3>2
  <2>2. ASSUME NEW c \in Range(constants), static[c] # NULL
        PROVE  static[c] \in Addr' /\ heap'[static[c]] = Object(c)
    <3>1. static[c] \in Addr /\ heap[static[c]] = Object(c)  BY <2>2 DEF IInv, VmIsRight
    <3>2. heap[static[c]].kind = c  BY <3>1, Kinds
    <3>3. static[c] # e  BY <1>6, <3>2, ConstantsFacts
    <3> QED BY <1>7, <3>1, <3>3
  <2>3. \A s \in Range(syntax) :
          static[s] # NULL => s \in DOMAIN table /\ static[s] = table[s]
    BY DEF IInv, VmIsRight
  <2> QED BY <1>1, <1>7, <1>8, <1>9, <2>1, <2>2, <2>3 DEF VmIsRight
<1>12. EnvironmentsAreRight'
  <2>1. vm.env # NULL => Filled(heap', table, vm.env, N)
    <3>1. vm.env # e  BY <1>2 DEF Filling
    <3> QED BY <1>10, <3>1 DEF IInv, EnvironmentsAreRight
  <2>2. ASSUME kept # NULL
        PROVE  /\ kept \in Addr' /\ heap'[kept] = heap[kept]
               /\ heap[kept] = SchemeEnvironment(heap[kept].value)
               /\ heap[kept].value # vm.env /\ heap[kept].value # e
               /\ Filled(heap', table, heap[kept].value, N)
    <3>1. /\ kept \in Addr /\ heap[kept] = SchemeEnvironment(heap[kept].value)
          /\ heap[kept].value # vm.env /\ heap[kept].value # e
          /\ Filled(heap, table, heap[kept].value, N)
      BY <2>2 DEF IInv, EnvironmentsAreRight
    <3>2. heap[kept].kind = "scheme_environment"  BY <3>1, Kinds
    <3>3. kept # e  BY <1>6, <3>2
    <3> QED BY <1>7, <1>10, <3>1, <3>3
  <2> QED BY <1>1, <1>8, <2>1, <2>2 DEF EnvironmentsAreRight
<1>13. Filled(heap', table, e, n)
  <2>1. heap'[e].bindings = b2  BY <1>7, Kinds
  <2>2. DOMAIN b2 = {table[Name(d)] : d \in 1..n}
    <3>1. DOMAIN b = {table[Name(d)] : d \in 1..(n - 1)}  BY <1>3 DEF Filled
    <3>2. 1..n = 1..(n - 1) \union {n}  BY <1>3, ListFacts
    <3>3. DOMAIN b2 = DOMAIN b \union {symbol}  BY DEF b2
    <3> HIDE DEF b, table
    <3> QED BY <3>1, <3>2, <3>3
  <2>3. ASSUME NEW d \in 1..n
        PROVE  /\ Name(d) \in DOMAIN table
               /\ b2[table[Name(d)]] \in Addr /\ heap'[b2[table[Name(d)]]] = Primitive(Fn(d))
    <3>1. CASE d = n
      <4>1. b2[symbol] = local.tmp  BY DEF b2
      <4>2. local.tmp # e  BY <1>3, <1>6, Kinds
      <4> QED BY <1>3, <1>7, <3>1, <4>1, <4>2
    <3>2. CASE d # n
      <4> DEFINE p == b[table[Name(d)]]
      <4>1. d \in 1..(n - 1) /\ d \in 1..N  BY <1>3, <3>2, ListFacts
      <4>2. /\ Name(d) \in DOMAIN table /\ p \in Addr /\ heap[p] = Primitive(Fn(d))
            /\ table[Name(d)] \in DOMAIN b
        BY <1>3, <4>1 DEF Filled, Addr
      <4>3. Name(d) # Name(n)  BY <1>3, <3>2, <4>1, ListFacts
      <4>4. table[Name(d)] # symbol
        <5>1. heap[table[Name(d)]].name = Name(d) /\ heap[symbol].name = Name(n)
          BY <1>3, <1>4, <4>2, Kinds DEF TableIsRight
        <5> QED BY <4>3, <5>1
      <4>5. b2[table[Name(d)]] = p  BY <4>2, <4>4 DEF b2
      <4>6. p # e  BY <1>6, <4>2, Kinds
      <4> HIDE DEF p
      <4> QED BY <1>7, <4>2, <4>5, <4>6
    <3> QED BY <3>1, <3>2
  <2> HIDE DEF table, e
  <2> QED BY <1>6, <1>7, <2>1, <2>2, <2>3 DEF Filled, Addr
<1>14. Filling'
  <2>1. local.tmp # e  BY <1>3, <1>6, Kinds
  <2>2. heap'[local.tmp] # Freed
    <3>1. heap'[local.tmp].kind = "primitive" /\ Freed.kind = "freed"  BY <1>3, <1>7, <2>1, Kinds
    <3> QED BY <3>1
  <2> QED BY <1>1, <1>2, <1>3, <1>7, <1>8, <2>2 DEF Filling
<1>15. Shape'  BY <1>1, <1>7, <1>8 DEF IInv, Shape
<1>16. PlaceIsRight' /\ ProgressIsRight'
  <2>1. CASE n < N
    <3>1. n' = n + 1 /\ at' = "declare"  BY <1>1, <2>1 DEF declare_procedure, N
    <3>2. Declaring'
      <4>1. n + 1 \in 1..N /\ (n + 1) - 1 = n  BY <1>3, <2>1, ListFacts
      <4> QED BY <1>1, <1>8, <1>13, <3>1, <4>1 DEF Declaring
    <3>3. PlaceIsRight'  BY <1>14, <3>1, <3>2 DEF PlaceIsRight, Between
    <3> QED BY <1>1, <3>1, <3>3 DEF IInv, ProgressIsRight, AllMade, ConstantsMade
  <2>2. CASE ~ (n < N)
    <3>1. n' = 1 /\ at' = "declared"  BY <2>2 DEF declare_procedure, Goto, N
    <3>2. n = N  BY <1>3, <2>2, ListFacts
    <3>3. Declared'  BY <1>1, <1>8, <1>13, <3>2 DEF Declared
    <3>4. PlaceIsRight'  BY <1>14, <3>1, <3>3 DEF PlaceIsRight, Between
    <3> QED BY <1>1, <3>1, <3>4 DEF IInv, ProgressIsRight, AllMade, ConstantsMade
  <2> QED BY <2>1, <2>2
<1> QED BY <1>11, <1>12, <1>15, <1>16 DEF IInv

LEMMA SetEnvironment == IInv /\ set_environment => IInv'
<1> SUFFICES ASSUME IInv, set_environment PROVE IInv'
  OBVIOUS
<1>1. /\ at = "declared" /\ vm.env = NULL /\ at' = "constants" /\ n' = 1
      /\ UNCHANGED <<heap, static, argument, kept, calls>>
  BY DEF set_environment, Goto
<1>2. Filling /\ Declared  BY <1>1 DEF IInv, PlaceIsRight
<1>3. roots' = <<"v">>  BY <1>2, RootFacts DEF set_environment, Popped, Filling
<1>4. /\ local' = [v |-> local'.v, env |-> local'.env, tmp |-> local'.tmp, symbol |-> local'.symbol]
      /\ local'.v = local.v /\ local'.env = NULL /\ local'.tmp = NULL /\ local'.symbol = NULL
  BY <1>2 DEF set_environment, IInv, Shape, Declared
<1>5. /\ vm' = [env |-> vm'.env, symbol_table |-> vm'.symbol_table]
      /\ vm'.env = local.env /\ vm'.symbol_table = vm.symbol_table
  BY DEF set_environment, IInv, Shape
<1>6. IsSeq(heap) /\ NULL \notin Addr  BY HeapFacts DEF IInv, Shape
<1>7. Addr' = Addr  BY <1>1 DEF Addr
<1>8. Shape'  BY <1>1, <1>4, <1>5 DEF IInv, Shape
<1>9. VmIsRight'  BY <1>1, <1>4, <1>5, <1>7 DEF IInv, VmIsRight
<1>10. EnvironmentsAreRight'
  <2>1. kept # NULL => heap[kept].value \in Addr  BY DEF IInv, EnvironmentsAreRight, Filled, Addr
  <2> QED BY <1>1, <1>2, <1>4, <1>5, <1>6, <1>7, <2>1 DEF IInv, EnvironmentsAreRight, Declared
<1>11. PlaceIsRight'
  BY <1>1, <1>2, <1>3, <1>4 DEF PlaceIsRight, Between, Resting, Declared
<1>12. ProgressIsRight'
  <2>1. local.env # NULL  BY <1>2, <1>6 DEF Declared, Filled, Addr
  <2>2. 1..(1 - 1) = {}  OBVIOUS
  <2> QED BY <1>1, <1>5, <2>1, <2>2 DEF ProgressIsRight
<1> QED BY <1>8, <1>9, <1>10, <1>11, <1>12 DEF IInv

LEMMA MakeEnvironment == IInv /\ make_environment => IInv'
<1> SUFFICES ASSUME IInv, make_environment PROVE IInv'
  OBVIOUS
<1>1. /\ at = "declared" /\ vm.env # NULL /\ at' = "ready" /\ n' = 1 /\ kept' = NewAddr
      /\ UNCHANGED <<vm, static, argument, calls>>
  BY DEF make_environment, Goto
<1>2. Filling /\ Declared  BY <1>1 DEF IInv, PlaceIsRight
<1>3. Popped = <<"v">> /\ roots' = <<"v">>
  BY <1>2, RootFacts DEF make_environment, Popped, Filling
<1>4. IsSeq(heap) /\ TableIsRight(heap, vm.symbol_table)  BY DEF IInv, Shape, VmIsRight
<1>5. /\ NewAddr \in Addr' /\ heap'[NewAddr] = SchemeEnvironment(local.env)
      /\ \E M : Spares(M) /\ {local.v, local.env} \intersect Addr \subseteq M
  <2>1. gc_alloc(SchemeEnvironment(local.env), {local.v, local.env})
    <3>1. Rooted(Popped) \union {local.env} = {local.v, local.env}  BY <1>3, RootFacts
    <3> QED BY <3>1 DEF make_environment
  <2> QED BY <1>4, <2>1, AllocSpares
<1>6. local.v \in Addr /\ local.env \in Addr  BY <1>1, <1>2 DEF IInv, VmIsRight, Declared, Filled, Addr
<1>7. PICK M : Spares(M) /\ local.v \in M /\ local.env \in M  BY <1>5, <1>6
<1>8. /\ local' = [v |-> local'.v, env |-> local'.env, tmp |-> local'.tmp, symbol |-> local'.symbol]
      /\ local'.v = local.v /\ local'.env = NULL /\ local'.tmp = NULL /\ local'.symbol = NULL
  BY <1>2 DEF make_environment, IInv, Shape, Declared
<1>9. Grown(vm.symbol_table, vm.symbol_table)  BY DEF Grown
<1>10. /\ local.v \in Addr' /\ heap'[local.v] = Object("vm")
       /\ TableIsRight(heap', vm.symbol_table)
       /\ \A c \in Range(constants) :
            static[c] # NULL => static[c] \in Addr' /\ heap'[static[c]] = Object(c)
       /\ \A s \in Range(syntax) :
            static[s] # NULL => s \in DOMAIN vm.symbol_table /\ static[s] = vm.symbol_table[s]
       /\ vm.env # NULL => Filled(heap', vm.symbol_table, vm.env, N)
  BY <1>1, <1>7, <1>9, Stays
<1>11. Filled(heap', vm.symbol_table, local.env, N)
  BY <1>2, <1>7, <1>9, LocalStays DEF Declared
<1>12. NULL \notin Addr  BY <1>4, HeapFacts
<1>13. Shape'  BY <1>1, <1>7, <1>8 DEF IInv, Shape, Spares
<1>14. VmIsRight'  BY <1>1, <1>8, <1>10 DEF VmIsRight
<1>15. EnvironmentsAreRight'
  <2>1. heap'[NewAddr].value = local.env  BY <1>5, Kinds
  <2>2. local.env # vm.env /\ local.env # NULL  BY <1>2, <1>6, <1>12 DEF Filling
  <2> QED BY <1>1, <1>5, <1>8, <1>10, <1>11, <2>1, <2>2 DEF EnvironmentsAreRight
<1>16. PlaceIsRight'
  BY <1>1, <1>2, <1>3, <1>8 DEF PlaceIsRight, Between, Resting, Declared
<1>17. ProgressIsRight'  BY <1>1 DEF IInv, ProgressIsRight, AllMade, ConstantsMade
<1> QED BY <1>13, <1>14, <1>15, <1>16, <1>17 DEF IInv

LEMMA MakeConstant == IInv /\ make_constant => IInv'
<1> SUFFICES ASSUME IInv, make_constant PROVE IInv'
  OBVIOUS
<1> DEFINE k == constants[n]
<1>1. /\ at = "constants" /\ static' = [static EXCEPT ![k] = NewAddr]
      /\ UNCHANGED <<roots, local, vm, argument, kept, calls>>
  BY DEF make_constant
<1>2. Resting  BY <1>1 DEF IInv, PlaceIsRight, Between
<1>3. /\ n \in 1..4 /\ vm.env # NULL /\ \A i \in 1..(n - 1) : static[constants[i]] # NULL
  BY <1>1 DEF IInv, ProgressIsRight
<1>4. IsSeq(heap)  BY DEF IInv, Shape
<1>5. /\ NewAddr \in Addr' /\ heap'[NewAddr] = Object(k)
      /\ \E M : Spares(M) /\ {local.v} \intersect Addr \subseteq M
  <2>1. gc_alloc(Object(k), {local.v})  BY <1>2, RootFacts DEF make_constant, Resting
  <2> HIDE DEF k
  <2> QED BY <1>4, <2>1, AllocSpares
<1>6. PICK M : Spares(M) /\ local.v \in M  BY <1>1, <1>5 DEF IInv, VmIsRight
<1>7. k \in Range(constants) /\ k \notin Range(syntax)  BY <1>3, ConstantsFacts, ListFacts
<1> HIDE DEF k
<1>8. /\ static' = [c \in Range(constants) \union Range(syntax) |-> static'[c]]
      /\ static'[k] = NewAddr
      /\ \A c \in Range(constants) \union Range(syntax) : c # k => static'[c] = static[c]
  BY <1>1, <1>7 DEF IInv, Shape
<1>9. Grown(vm.symbol_table, vm.symbol_table)  BY DEF Grown
<1>10. NewAddr # NULL  BY <1>4, HeapFacts
<1>11. /\ local.v \in Addr' /\ heap'[local.v] = Object("vm")
       /\ TableIsRight(heap', vm.symbol_table)
       /\ \A c \in Range(constants) :
            static[c] # NULL => static[c] \in Addr' /\ heap'[static[c]] = Object(c)
       /\ \A s \in Range(syntax) :
            static[s] # NULL => s \in DOMAIN vm.symbol_table /\ static[s] = vm.symbol_table[s]
       /\ vm.env # NULL => Filled(heap', vm.symbol_table, vm.env, N)
       /\ kept # NULL =>
            /\ kept \in Addr' /\ heap'[kept] = heap[kept]
            /\ heap'[kept] = SchemeEnvironment(heap'[kept].value)
            /\ Filled(heap', vm.symbol_table, heap[kept].value, N)
  BY <1>1, <1>6, <1>9, Stays
<1>12. Shape'  BY <1>1, <1>6, <1>8 DEF IInv, Shape, Spares
<1>13. VmIsRight'
  <2>1. \A c \in Range(constants) :
          static'[c] # NULL => static'[c] \in Addr' /\ heap'[static'[c]] = Object(c)
    BY <1>5, <1>8, <1>11
  <2>2. \A s \in Range(syntax) :
          static'[s] # NULL => s \in DOMAIN vm.symbol_table /\ static'[s] = vm.symbol_table[s]
    BY <1>7, <1>8, <1>11
  <2> QED BY <1>1, <1>11, <2>1, <2>2 DEF VmIsRight
<1>14. EnvironmentsAreRight'
  BY <1>1, <1>11 DEF IInv, EnvironmentsAreRight
<1>15. \A i \in 1..n : static'[constants[i]] # NULL
  <2>1. \A i \in 1..n : i \in 1..4 /\ (i = n \/ i \in 1..(n - 1))  BY <1>3
  <2> QED BY <1>3, <1>8, <1>10, <2>1, ConstantsFacts DEF k
<1>16. PlaceIsRight' /\ ProgressIsRight'
  <2>1. CASE n < 4
    <3>1. n' = n + 1 /\ at' = "constants"  BY <1>1, <2>1, ConstantsFacts DEF make_constant
    <3>2. n + 1 \in 1..4 /\ (n + 1) - 1 = n  BY <1>3, <2>1
    <3>3. PlaceIsRight'  BY <1>1, <1>2, <3>1 DEF PlaceIsRight, Between, Resting
    <3> QED BY <1>1, <1>3, <1>15, <3>1, <3>2, <3>3 DEF ProgressIsRight
  <2>2. CASE ~ (n < 4)
    <3>1. n' = 1 /\ at' = "symbols"  BY <2>2, ConstantsFacts DEF make_constant, Goto
    <3>2. n = 4  BY <1>3, <2>2
    <3>3. ConstantsMade'  BY <1>15, <3>2, ConstantsFacts DEF ConstantsMade
    <3>4. 1 \in 1..Len(syntax) /\ 1..(1 - 1) = {}  BY ListFacts
    <3>5. PlaceIsRight'  BY <1>1, <1>2, <3>1 DEF PlaceIsRight, Between, Resting
    <3> QED BY <1>1, <1>3, <3>1, <3>3, <3>4, <3>5 DEF ProgressIsRight
  <2> QED BY <2>1, <2>2
<1> QED BY <1>12, <1>13, <1>14, <1>16 DEF IInv

LEMMA MakeSyntax == IInv /\ make_syntax => IInv'
<1> SUFFICES ASSUME IInv, make_syntax PROVE IInv'
  OBVIOUS
<1> DEFINE k == syntax[n]
<1>1. /\ at = "symbols" /\ make_symbol(k) /\ static' = [static EXCEPT ![k] = SymbolFor(k)]
      /\ UNCHANGED <<roots, local, argument, kept, calls>>
  BY DEF make_syntax
<1>2. Resting  BY <1>1 DEF IInv, PlaceIsRight, Between
<1>3. /\ n \in 1..Len(syntax) /\ vm.env # NULL /\ ConstantsMade
      /\ \A i \in 1..(n - 1) : static[syntax[i]] # NULL
  BY <1>1 DEF IInv, ProgressIsRight
<1>4. k \in Range(syntax) /\ k \notin Range(constants)  BY <1>3, ListFacts
<1> HIDE DEF k
<1>5. /\ \E M : Spares(M) /\ Rooted(roots) \intersect Addr \subseteq M
      /\ vm' = [env |-> vm'.env, symbol_table |-> vm'.symbol_table] /\ vm'.env = vm.env
      /\ Grown(vm.symbol_table, vm'.symbol_table)
      /\ k \in DOMAIN vm'.symbol_table /\ vm'.symbol_table[k] = SymbolFor(k)
      /\ TableIsRight(heap', vm.symbol_table) => TableIsRight(heap', vm'.symbol_table)
  BY <1>1, MakeSymbolFacts
<1>6. Rooted(roots) = {local.v}  BY <1>2, RootFacts DEF Resting
<1>7. PICK M : Spares(M) /\ local.v \in M  BY <1>1, <1>5, <1>6 DEF IInv, VmIsRight
<1>8. /\ static' = [c \in Range(constants) \union Range(syntax) |-> static'[c]]
      /\ static'[k] = SymbolFor(k)
      /\ \A c \in Range(constants) \union Range(syntax) : c # k => static'[c] = static[c]
  BY <1>1, <1>4 DEF IInv, Shape
<1>9. /\ local.v \in Addr' /\ heap'[local.v] = Object("vm")
      /\ TableIsRight(heap', vm.symbol_table)
      /\ \A c \in Range(constants) :
           static[c] # NULL => static[c] \in Addr' /\ heap'[static[c]] = Object(c)
      /\ \A s \in Range(syntax) :
           static[s] # NULL => s \in DOMAIN vm'.symbol_table /\ static[s] = vm'.symbol_table[s]
      /\ vm.env # NULL => Filled(heap', vm'.symbol_table, vm.env, N)
      /\ kept # NULL =>
           /\ kept \in Addr' /\ heap'[kept] = heap[kept]
           /\ heap'[kept] = SchemeEnvironment(heap'[kept].value)
           /\ Filled(heap', vm'.symbol_table, heap[kept].value, N)
  BY <1>1, <1>5, <1>7, Stays
<1>10. TableIsRight(heap', vm'.symbol_table)  BY <1>5, <1>9
<1>11. Shape'  BY <1>1, <1>5, <1>7, <1>8 DEF IInv, Shape, Spares
<1>12. VmIsRight'
  <2>1. \A c \in Range(constants) :
          static'[c] # NULL => static'[c] \in Addr' /\ heap'[static'[c]] = Object(c)
    BY <1>4, <1>8, <1>9
  <2>2. \A s \in Range(syntax) :
          static'[s] # NULL => s \in DOMAIN vm'.symbol_table /\ static'[s] = vm'.symbol_table[s]
    BY <1>5, <1>8, <1>9
  <2> QED BY <1>1, <1>9, <1>10, <2>1, <2>2 DEF VmIsRight
<1>13. EnvironmentsAreRight'  BY <1>1, <1>5, <1>9 DEF IInv, EnvironmentsAreRight
<1>14. static'[k] # NULL
  <2>1. vm'.symbol_table[k] \in Addr'  BY <1>5, <1>10 DEF TableIsRight, Addr
  <2>2. NULL \notin Addr'
    <3>1. IsSeq(heap')  BY <1>7 DEF Spares
    <3>2. \A h : IsSeq(h) => NULL \notin DOMAIN h  BY SeqFacts, NullIsNoAddress
    <3> QED BY <3>1, <3>2 DEF Addr
  <2> QED BY <1>5, <1>8, <2>1, <2>2
<1>15. \A i \in 1..n : static'[syntax[i]] # NULL
  <2>1. \A i \in 1..n : i \in 1..Len(syntax) /\ (i = n \/ i \in 1..(n - 1))  BY <1>3, ListFacts
  <2> QED BY <1>3, <1>8, <1>14, <2>1, ListFacts DEF k
<1>16. ConstantsMade'  BY <1>3, <1>4, <1>8 DEF ConstantsMade
<1>17. PlaceIsRight' /\ ProgressIsRight'
  <2>1. CASE n < Len(syntax)
    <3>1. n' = n + 1 /\ at' = "symbols"  BY <1>1, <2>1 DEF make_syntax
    <3>2. n + 1 \in 1..Len(syntax) /\ (n + 1) - 1 = n  BY <1>3, <2>1, ListFacts
    <3>3. PlaceIsRight'  BY <1>1, <1>2, <3>1 DEF PlaceIsRight, Between, Resting
    <3> QED BY <1>3, <1>5, <1>15, <1>16, <3>1, <3>2, <3>3 DEF ProgressIsRight
  <2>2. CASE ~ (n < Len(syntax))
    <3>1. n' = 1 /\ at' = "ready"  BY <2>2 DEF make_syntax, Goto
    <3>2. n = Len(syntax)
      <4>1. \A x \in Nat : \A y \in 1..x : ~ (y < x) => y = x  OBVIOUS
      <4>2. Len(syntax) \in Nat  BY ListFacts
      <4>3. n \in 1..Len(syntax) /\ ~ (n < Len(syntax))  BY <1>3, <2>2
      <4> QED BY <4>1, <4>2, <4>3
    <3>3. AllMade'  BY <1>15, <1>16, <3>2, ListFacts DEF AllMade
    <3>4. PlaceIsRight'  BY <1>1, <1>2, <3>1 DEF PlaceIsRight, Between, Resting
    <3> QED BY <1>3, <1>5, <3>1, <3>3, <3>4 DEF ProgressIsRight
  <2> QED BY <2>1, <2>2
<1> QED BY <1>11, <1>12, <1>13, <1>17 DEF IInv

LEMMA StartEnvironment == IInv /\ start_environment => IInv'
<1> SUFFICES ASSUME IInv, start_environment PROVE IInv'
  OBVIOUS
<1>1. /\ at = "ready" /\ at' = "init_environment" /\ n' = 1
      /\ UNCHANGED <<heap, roots, local, vm, static, argument, kept>>
  BY DEF start_environment, Goto
<1>2. Shape'  BY <1>1 DEF IInv, Shape
<1>3. VmIsRight'  BY <1>1 DEF IInv, VmIsRight, Addr
<1>4. EnvironmentsAreRight'  BY <1>1 DEF IInv, EnvironmentsAreRight, Addr
<1>5. PlaceIsRight'  BY <1>1 DEF IInv, PlaceIsRight, Between, Resting
<1>6. ProgressIsRight'  BY <1>1 DEF IInv, ProgressIsRight, AllMade, ConstantsMade
<1> QED BY <1>2, <1>3, <1>4, <1>5, <1>6 DEF IInv

LEMMA Forget == IInv /\ forget => IInv'
<1> SUFFICES ASSUME IInv, forget PROVE IInv'
  OBVIOUS
<1>1. /\ at = "ready" /\ kept' = NULL
      /\ UNCHANGED <<heap, roots, local, vm, static, at, n, argument, calls>>
  BY DEF forget
<1>2. Shape'  BY <1>1 DEF IInv, Shape
<1>3. VmIsRight'  BY <1>1 DEF IInv, VmIsRight, Addr
<1>4. EnvironmentsAreRight'  BY <1>1 DEF IInv, EnvironmentsAreRight, Addr
<1>5. PlaceIsRight'  BY <1>1 DEF IInv, PlaceIsRight, Between, Resting
<1>6. ProgressIsRight'  BY <1>1 DEF IInv, ProgressIsRight, AllMade, ConstantsMade
<1> QED BY <1>2, <1>3, <1>4, <1>5, <1>6 DEF IInv

LEMMA NothingChanges == IInv /\ UNCHANGED vars => IInv'
<1> SUFFICES ASSUME IInv, UNCHANGED vars PROVE IInv'
  OBVIOUS
<1>1. UNCHANGED <<heap, roots, local, vm, static, at, n, argument, kept, calls>>  BY DEF vars
<1>2. Shape'  BY <1>1 DEF IInv, Shape
<1>3. VmIsRight'  BY <1>1 DEF IInv, VmIsRight, Addr
<1>4. EnvironmentsAreRight'  BY <1>1 DEF IInv, EnvironmentsAreRight, Addr
<1>5. PlaceIsRight'
  BY <1>1 DEF IInv, PlaceIsRight, Between, AtStart, Resting, Filling, Declaring, Declared, Addr
<1>6. ProgressIsRight'  BY <1>1 DEF IInv, ProgressIsRight, AllMade, ConstantsMade
<1> QED BY <1>2, <1>3, <1>4, <1>5, <1>6 DEF IInv

(* The invariant holds in every state.                                      *)
THEOREM BootstrapIsInvariant == Spec => []IInv
<1>1. IInv /\ [Next]_vars => IInv'
  BY MakeVm, CreateEnvironment, DeclareSymbol, DeclarePrimitive, DeclareProcedure,
     SetEnvironment, MakeEnvironment, MakeConstant, MakeSyntax, StartEnvironment, Forget,
     NothingChanges
  DEF Next
<1> QED BY InitIsRight, <1>1, PTL DEF Spec

-----------------------------------------------------------------------------
(* What follows from it *)

LEMMA FilledIsLive ==
  ASSUME IInv, NEW e, NEW k, Filled(heap, vm.symbol_table, e, k)
  PROVE  Holds(e) \subseteq Live
<1> DEFINE b == heap[e].bindings
<1>1. e \in Live
  <2>1. e \in Addr /\ heap[e].kind = "environment"  BY Kinds DEF Filled, Addr
  <2>2. Freed.kind = "freed"  BY Kinds
  <2> QED BY <2>1, <2>2 DEF Live
<1>2. ASSUME NEW s \in DOMAIN b  PROVE s \in Live /\ b[s] \in Live
  <2>1. PICK d \in 1..k : s = vm.symbol_table[Name(d)]  BY <1>2 DEF Filled
  <2>2. s \in Addr /\ heap[s] = Symbol(Name(d))
    BY <2>1 DEF Filled, IInv, VmIsRight, TableIsRight, Addr
  <2>3. b[s] \in Addr /\ heap[b[s]] = Primitive(Fn(d))  BY <2>1 DEF Filled, Addr
  <2>4. heap[s].kind = "symbol" /\ heap[b[s]].kind = "primitive" /\ Freed.kind = "freed"
    BY <2>2, <2>3, Kinds
  <2> HIDE DEF b
  <2> QED BY <2>2, <2>3, <2>4 DEF Live
<1> HIDE DEF b
<1>3. DOMAIN b \subseteq Live /\ Range(b) \subseteq Live  BY <1>2 DEF Range
<1> QED BY <1>1, <1>3 DEF Holds, b

LEMMA HeldIsLive == IInv => NoUseAfterFree
<1> SUFFICES ASSUME IInv PROVE NoUseAfterFree
  OBVIOUS
<1>1. Freed.kind = "freed"  BY Kinds
<1>2. \A x \in DOMAIN vm.symbol_table : vm.symbol_table[x] \in Live
  <2>1. \A x \in DOMAIN vm.symbol_table :
          vm.symbol_table[x] \in Addr /\ heap[vm.symbol_table[x]].kind = "symbol"
    BY Kinds DEF IInv, VmIsRight, TableIsRight, Addr
  <2> QED BY <1>1, <2>1 DEF Live
<1>3. \A c \in Range(constants) : static[c] \in Live \union {NULL}
  <2> TAKE c \in Range(constants)
  <2>1. static[c] # NULL => static[c] \in Addr /\ heap[static[c]] = Object(c)
    BY DEF IInv, VmIsRight
  <2>2. Object(c).kind # "freed"  BY Kinds, ConstantsFacts
  <2> QED BY <1>1, <2>1, <2>2 DEF Live
<1>4. \A s \in Range(syntax) : static[s] \in Live \union {NULL}
  BY <1>2 DEF IInv, VmIsRight
<1>5. vm.env \in Live \union {NULL} /\ (vm.env # NULL => Holds(vm.env) \subseteq Live)
  BY FilledIsLive DEF IInv, EnvironmentsAreRight, Holds
<1>6. vm_pointers \subseteq Live \union {NULL}  BY <1>2, <1>3, <1>5 DEF vm_pointers, Range
<1>7. Range(static) \subseteq Live \union {NULL}
  <2>1. DOMAIN static = Range(constants) \union Range(syntax)  BY DEF IInv, Shape
  <2>2. \A c \in DOMAIN static : static[c] \in Live \union {NULL}  BY <1>3, <1>4, <2>1
  <2> QED BY <2>2 DEF Range
<1>8. local.v \in Live \union {NULL}
  <2>1. CASE at = "vm_get"  BY <2>1 DEF IInv, PlaceIsRight, AtStart
  <2>2. CASE at # "vm_get"
    <3>1. local.v \in Addr /\ heap[local.v].kind = "vm"  BY <2>2, Kinds DEF IInv, VmIsRight
    <3> QED BY <1>1, <3>1 DEF Live
  <2> QED BY <2>1, <2>2
<1>9. /\ local.env # NULL => local.env \in Live /\ Holds(local.env) \subseteq Live
      /\ local.tmp \in Live \union {NULL} /\ local.symbol \in Live \union {NULL}
  <2>1. CASE at \in Between \union {"vm_get"}
    BY <2>1 DEF IInv, PlaceIsRight, AtStart, Resting
  <2>2. CASE at \in {"declare", "declared"}
    <3>1. local.tmp \in Live \union {NULL}  BY <2>2 DEF IInv, PlaceIsRight, Filling, Live
    <3>2. \E k : Filled(heap, vm.symbol_table, local.env, k)
      BY <2>2 DEF IInv, PlaceIsRight, Declaring, Declared
    <3>3. Holds(local.env) \subseteq Live /\ local.env \in Live
      BY <3>2, FilledIsLive DEF Holds
    <3>4. local.symbol \in Live \union {NULL}
      BY <1>2, <2>2 DEF IInv, PlaceIsRight, Declaring, Declared
    <3> QED BY <3>1, <3>3, <3>4
  <2> QED BY <2>1, <2>2 DEF IInv, PlaceIsRight
<1>10. Range(local) \subseteq Live \union {NULL}
  <2>1. DOMAIN local = {"v", "env", "tmp", "symbol"}  BY DEF IInv, Shape
  <2>2. /\ local["v"] \in Live \union {NULL} /\ local["env"] \in Live \union {NULL}
        /\ local["tmp"] \in Live \union {NULL} /\ local["symbol"] \in Live \union {NULL}
    BY <1>8, <1>9
  <2> QED BY <2>1, <2>2 DEF Range
<1>11. kept \in Live \union {NULL}
  <2>1. kept # NULL => kept \in Addr /\ heap[kept].kind = "scheme_environment"
    BY Kinds DEF IInv, EnvironmentsAreRight
  <2> QED BY <1>1, <2>1 DEF Live
<1> QED BY <1>5, <1>6, <1>7, <1>9, <1>10, <1>11 DEF NoUseAfterFree

LEMMA FilledIsComplete ==
  ASSUME IInv, NEW e, Filled(heap, vm.symbol_table, e, N)
  PROVE  Complete(e)
BY ListFacts DEF Filled, Complete, Name, Fn

LEMMA ReadyIsComplete == IInv => EnvironmentsAreComplete
<1> SUFFICES ASSUME IInv, at = "ready" PROVE
      /\ Complete(vm.env)
      /\ kept # NULL => heap[kept].value # vm.env /\ Complete(heap[kept].value)
      /\ \A name \in Range(syntax) : static[name] = vm.symbol_table[name]
      /\ \A c \in Range(constants) : heap[static[c]] = Object(c)
  BY DEF EnvironmentsAreComplete
<1>1. vm.env # NULL /\ AllMade  BY DEF IInv, ProgressIsRight
<1>2. Complete(vm.env)  BY <1>1, FilledIsComplete DEF IInv, EnvironmentsAreRight
<1>3. kept # NULL => heap[kept].value # vm.env /\ Complete(heap[kept].value)
  BY FilledIsComplete DEF IInv, EnvironmentsAreRight
<1>4. /\ \A name \in Range(syntax) : static[name] = vm.symbol_table[name]
      /\ \A c \in Range(constants) : heap[static[c]] = Object(c)
  BY <1>1 DEF IInv, VmIsRight, AllMade, ConstantsMade
<1> QED BY <1>2, <1>3, <1>4

(* Nothing that the start of the interpreter, or a call of environment, has *)
(* made so far is freed under it, wherever the collector runs               *)
(* (model.c:93-141, procedures.c:476-551).                                  *)
THEOREM NothingIsFreedUnderIt == Spec => []NoUseAfterFree
BY BootstrapIsInvariant, HeldIsLive, PTL

(* Each initial environment binds exactly what it declares, each name to    *)
(* its own procedure (procedures.c:476-551).                                *)
THEOREM EnvironmentsAreAlwaysComplete == Spec => []EnvironmentsAreComplete
BY BootstrapIsInvariant, ReadyIsComplete, PTL
=============================================================================
