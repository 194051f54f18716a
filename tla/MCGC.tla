-------------------------------- MODULE MCGC --------------------------------
(* Instances of the collector: a leaf type and a type with one pointer      *)
(* (MCLinkFields) or with two (MCPairFields), as small as they can be.      *)
EXTENDS GC, TLC
CONSTANTS a1, a2, a3, leaf, pair
MCSize == (leaf :> 1) @@ (pair :> 2)
MCLinkFields == (leaf :> 0) @@ (pair :> 1)
MCPairFields == (leaf :> 0) @@ (pair :> 2)
Symmetry == Permutations(Addr)
=============================================================================
