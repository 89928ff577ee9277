---------------------------- MODULE MCVaultStore ----------------------------
(* VaultStore on a small instance: a file without extension, one with, and *)
(* one that is named .enc, all of one stem.                                *)
EXTENDS VaultStore, TLC

Symmetry == Permutations(Contents)

AllCommands == {"add", "copy", "secure", "encrypt", "decrypt", "vault-decrypt"}
AllFaults   == {"open", "write", "rename", "unlink", "crash"}
=============================================================================
