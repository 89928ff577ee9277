--------------------------- MODULE MCVaultCatalog ---------------------------
(* VaultCatalog on a small instance.                                       *)
EXTENDS VaultCatalog, TLC

CONSTANTS short, long   \* two names, the first being the beginning of the second

\* Names, directories and passwords are interchangeable where no name is cut.
Symmetry == Permutations(Names) \cup Permutations(Dirs) \cup Permutations(Passwords)

CutNames == {<<short, long>>}
=============================================================================
