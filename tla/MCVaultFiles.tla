---------------------------- MODULE MCVaultFiles ----------------------------
(* VaultFiles on a small instance.                                         *)
EXTENDS VaultFiles

\* Every call of the system that may fail.
AllFaults == {"opendir", "source", "target", "read", "write", "close", "unlink",
              "derive", "save", "crash"}
=============================================================================
