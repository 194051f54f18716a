------------------------------ MODULE MCPorts ------------------------------
(***************************************************************************)
(* Two files, one of which exists, and three ports besides the console on   *)
(* three FILEs, so that a FILE is used again and the FILEs can run out.     *)
(* Ports and places for FILEs are interchangeable, but for the console's.   *)
(***************************************************************************)
EXTENDS Ports, TLC

CONSTANTS a, b, x, p1, p2, p3, f1, f2
MCExisting == (terminal :> << >>) @@ (a :> <<x, x>>) @@ (b :> NULL)
MCMaxLength == (terminal :> 2) @@ (a :> 1) @@ (b :> 2)
Interchangeable == Permutations({p1, p2, p3}) \union Permutations({f1, f2})
=============================================================================
