------------------------------ MODULE Interner ------------------------------
(***************************************************************************)
(* What the symbol table promises Scheme: a name has one symbol, found     *)
(* again for ever, and a symbol has one name, so that eq? on symbols is    *)
(* equality of names.  Memory and collections are not mentioned.           *)
(***************************************************************************)
CONSTANTS Name, Symbol

VARIABLES
  known,    (* from the names that were asked for to their symbols         *)
  answer    (* the name and the symbol that the latest call related        *)

vars == <<known, answer>>

Init == known = << >> /\ answer = << >>

(* The symbol of a name, or the name of a symbol, that is known already;    *)
(* a name asked for the first time gets a new symbol.                       *)
Find(n) ==
  /\ n \in DOMAIN known
  /\ answer' = <<n, known[n]>> /\ UNCHANGED known
Make(n, s) ==
  /\ n \notin DOMAIN known /\ \A m \in DOMAIN known : known[m] # s
  /\ known' = [m \in DOMAIN known \union {n} |-> IF m = n THEN s ELSE known[m]]
  /\ answer' = <<n, s>>

Next == \E n \in Name : Find(n) \/ \E s \in Symbol : Make(n, s)

Spec == Init /\ [][Next]_vars
=============================================================================
