--------------------------- MODULE MCVaultSandbox ---------------------------
(* VaultSandbox with everything that may fail.                             *)
EXTENDS VaultSandbox

AllFaults == {"mkdir", "marker", "pipe", "fork", "map", "unshare", "umount",
              "pivot", "caps", "seccomp", "kill"}
=============================================================================
