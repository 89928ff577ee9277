--------------------------- MODULE MCVaultMonitor ---------------------------
(* VaultMonitor on a small instance.                                       *)
EXTENDS VaultMonitor

\* suspect_access may answer anything, or never suspects anybody.
Either == BOOLEAN
Never  == {FALSE}
=============================================================================
