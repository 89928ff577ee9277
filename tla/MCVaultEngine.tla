---------------------------- MODULE MCVaultEngine ----------------------------
(* VaultEngine on a small instance: a level of one layer of texts, and     *)
(* levels of one and of two layers of binaries.                            *)
EXTENDS VaultEngine, TLC

Symmetry == Permutations(Letters)

Counts == [l \in 0..3 |-> IF l < 2 THEN l ELSE l - 1]

\* Every call of the system that may fail.
AllFaults == {"mkdir", "layer", "write", "chmod", "save", "rm", "crash"}
=============================================================================
