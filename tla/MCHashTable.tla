----------------------------- MODULE MCHashTable -----------------------------
(* Small tables: sizes 2, 5, 6, 7 in place of 11, 23, ..., 59447, and keys *)
(* that collide under some of them and not under others.                    *)
EXTENDS HashTable, TLC
CONSTANTS k1, k2, k3, k4, k5, v1, v2
MCSizes == (0 :> 2) @@ (1 :> 5) @@ (2 :> 6) @@ (3 :> 7)
MCHash == [k \in Key |-> CASE k = k1 -> 0 [] k = k2 -> 3 [] k = k3 -> 5
                            [] k = k4 -> 8 [] k = k5 -> 15]
=============================================================================
