--------------------------- MODULE MCVaultProcess ---------------------------
(* VaultProcess on a small instance.                                       *)
EXTENDS VaultProcess

\* catalog.dat and two other writers may each hold an inode when a third writer
\* makes the temporary file.
MCInodes == 1..4
=============================================================================
