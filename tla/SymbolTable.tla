---------------------------- MODULE SymbolTable ----------------------------
(***************************************************************************)
(* Symbols: make_symbol of src/model/object.c, the symbol table of the vm  *)
(* and the procedures string->symbol and symbol->string.                   *)
(*                                                                         *)
(* A symbol owns the copy of its name, and the table's key is that very    *)
(* copy; the collector is told of the symbols in the table, not of its     *)
(* keys.  The table is the map that Dict.tla promises, but for its keys,   *)
(* which are read again whenever they are compared.                        *)
(*                                                                         *)
(* string->symbol passes the characters of a Scheme string that nothing    *)
(* need keep alive: a collection in make_symbol may free them before they  *)
(* are copied.  Freed is what such memory may spell; with Freed = {} the   *)
(* model has no such strings.                                              *)
(***************************************************************************)
EXTENDS Null, Integers, Sequences, FiniteSets

CONSTANTS
  Name,        (* what names there are                                     *)
  Freed,       (* those that freed memory may spell                        *)
  MaxSymbols   (* bound: how many symbols a behaviour makes                *)

ASSUME NullIsNoName == NULL \notin Name
ASSUME FreedAssumption == Freed \subseteq Name
ASSUME MaxSymbolsAssumption == MaxSymbols \in Nat

VARIABLES
  symbols,   (* the names of the symbols made, NULL where one was freed    *)
  table,     (* the entries: whose copy the key is, and the symbol         *)
  held,      (* the symbols that the program holds outside of the table    *)
  answer     (* the name and the symbol that the latest call related       *)

vars == <<symbols, table, held, answer>>

Symbol == 1..MaxSymbols
Entry(key, value) == [key |-> key, value |-> value]
Live == {s \in DOMAIN symbols : symbols[s] # NULL}

(* The entries found for n, where the memory of a freed name spells g. *)
Spells(e, g) == IF e.key \in Live THEN symbols[e.key] ELSE g
Found(n, g) == {e \in table : Spells(e, g) = n}
Spelled == IF Freed = {} THEN {NULL} ELSE Freed

Init == symbols = << >> /\ table = {} /\ held = {} /\ answer = << >>

-----------------------------------------------------------------------------

(* What vm_pointers reports of the table. *)
(* Mutant: nothing, as if a symbol in the table only were garbage. *)
vm_pointers_NoTable == {}
vm_pointers == {e.value : e \in table}

Swept == [s \in DOMAIN symbols |-> IF s \in vm_pointers \union held THEN symbols[s] ELSE NULL]

(* The tables that hashtable_put may leave.  A key that is there already    *)
(* keeps its place in memory.                                               *)
(* Mutant: a new key is the caller's copy, which nobody owns. *)
hashtable_put_CallersKey(s, n, g) ==
  IF Found(n, g) = {} THEN {table \union {Entry(0, s)}}
  ELSE {(table \ {e}) \union {Entry(e.key, s)} : e \in Found(n, g)}
hashtable_put(s, n, g) ==
  IF Found(n, g) = {} THEN {table \union {Entry(s, s)}}
  ELSE {(table \ {e}) \union {Entry(e.key, s)} : e \in Found(n, g)}

(* make_symbol(n), where g is what freed memory spells: the symbol found,   *)
(* or a new one, after a collection or not, whose name is copied only then. *)
Give(n, s) == answer' = <<n, s>> /\ held' = held \union {s}
find_symbol(n, g) ==
  \E e \in Found(n, g) : Give(n, e.value) /\ UNCHANGED <<symbols, table>>
new_symbol(n, g, before, copied) ==
  /\ Found(n, g) = {} /\ Len(symbols) < MaxSymbols
  /\ LET s == Len(symbols) + 1 IN
       /\ symbols' = Append(before, copied)
       /\ table' \in hashtable_put(s, copied, g)
       /\ Give(n, s)

(* Names that outlive the call: the reader's, the vm's, a string in use. *)
make_symbol(n, g) ==
  \/ find_symbol(n, g)
  \/ \E before \in {symbols, Swept} : new_symbol(n, g, before, n)

(* The name of a string that a collection in make_symbol frees. *)
string_to_symbol(n, g) ==
  g \in Freed /\ new_symbol(n, g, Swept, g)

symbol_to_string(s) ==
  answer' = <<symbols[s], s>> /\ UNCHANGED <<symbols, table, held>>

(* The program forgets a symbol; any allocation may collect. *)
drop(s) == held' = held \ {s} /\ UNCHANGED <<symbols, table, answer>>
collect == symbols' = Swept /\ UNCHANGED <<table, held, answer>>

Next ==
  \/ \E n \in Name, g \in Spelled : make_symbol(n, g) \/ string_to_symbol(n, g)
  \/ \E s \in held : symbol_to_string(s) \/ drop(s)
  \/ collect

Spec == Init /\ [][Next]_vars

-----------------------------------------------------------------------------

TypeOK ==
  /\ symbols \in Seq(Name \union {NULL}) /\ Len(symbols) <= MaxSymbols
  /\ table \subseteq [key : DOMAIN symbols, value : DOMAIN symbols]
  /\ held \subseteq DOMAIN symbols

(* Neither the table nor the program ever has a symbol that was freed: the  *)
(* table keeps what it returns alive (object.c:139-150, model.c:65-69, 87). *)
SymbolsInUseAreLive == vm_pointers \union held \subseteq Live

(* A name that freed memory never spells keeps its symbol for ever, and     *)
(* that symbol its name, whatever else was interned under the wrong name,   *)
(* forgotten and collected in between (object.c:139-150).                   *)
SymbolOf(n) == {e.value : e \in {e \in table : e.key \in Live /\ symbols[e.key] = n}}
NamesKeepTheirSymbols ==
  [][\A n \in Name \ Freed : SymbolOf(n) # {} =>
       /\ SymbolOf(n)' = SymbolOf(n)
       /\ \A s \in SymbolOf(n) : symbols'[s] = n]_vars

(* Interner.tla is implemented, as long as no string dies in make_symbol:   *)
(* one symbol a name, one name a symbol (object.c:129-152).                 *)
Known == [n \in {n \in Name : SymbolOf(n) # {}} |-> CHOOSE s \in SymbolOf(n) : TRUE]
I == INSTANCE Interner WITH known <- Known
InternerSpec == I!Spec
=============================================================================
