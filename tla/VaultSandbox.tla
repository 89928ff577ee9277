---------------------------- MODULE VaultSandbox ----------------------------
(***************************************************************************)
(* A sandbox session (vault_sandbox_open in c_src/vault_sandbox.c): the    *)
(* program that calls it, the child it forks, which leaves the user        *)
(* namespace, and the process the child forks, which becomes the shell.    *)
(* Each takes its own steps; they meet at the pipe, at the child's entries *)
(* in /proc, and when one waits for another's end.                         *)
(*                                                                         *)
(* The password check that comes first is in VaultCatalog.  What a mount,  *)
(* a limit or a rule of the filter says is left out.                       *)
(***************************************************************************)
EXTENDS Naturals

CONSTANTS
    MaxCalls,    \* calls in one behaviour
    Faults,      \* what may fail: the names at Fails below, and "kill"
    FaultBound   \* and how often in one behaviour

ASSUME SandboxAssumption == MaxCalls \in Nat /\ FaultBound \in Nat

VARIABLES
    caller,      \* where vault_sandbox_open is, "idle" outside
    child,       \* where the child is
    shell,       \* where the process that becomes the shell is
    writers,     \* who holds the write end of the pipe
    layers,      \* the layers of isolation of the child and of the shell
    ids,         \* what was written to the child's setgroups, uid_map, gid_map
    privileged,  \* the caller may map any id
    admitted,    \* the child is among the authorised processes
    jail,        \* the marker, bin and bin/sh in the vault
    oldRoot,     \* the host's files are still mounted in the session
    orphaned,    \* the child or the caller was killed (history)
    calls, faults

vars == <<caller, child, shell, writers, layers, ids, privileged, admitted,
          jail, oldRoot, orphaned, calls, faults>>

Layers == {"user", "mount", "root", "caps", "seccomp"}

Fails(f) == f \in Faults /\ faults < FaultBound /\ faults' = faults + 1
Works    == faults' = faults

-----------------------------------------------------------------------------
(* The caller *)

Caller(from, to) == caller = from /\ caller' = to

\* vault_prepare_jail.  The marker is written whether the directories could be
\* made or not, and with it nothing is tried again.  One session at a time: no
\* call is made while a shell that lost its parents still runs.
PrepareJail ==
    /\ Caller("idle", "prepared")
    /\ child = "none" /\ shell = "none"
    /\ calls < MaxCalls /\ calls' = calls + 1
    /\ IF jail.marker THEN Works /\ UNCHANGED jail
       ELSE \/ Works /\ jail' = [jail EXCEPT !.marker = TRUE, !.bin = IF @ = "none" THEN "open" ELSE @]
            \/ Fails("mkdir") /\ jail' = [jail EXCEPT !.marker = TRUE]
            \/ Fails("marker") /\ jail' = [jail EXCEPT !.bin = IF @ = "none" THEN "open" ELSE @]
    /\ UNCHANGED <<child, shell, writers, layers, ids, privileged, admitted, oldRoot, orphaned>>

\* pipe and fork, the two errors that the call reports.
ForkChild ==
    /\ \/ /\ Caller("prepared", "forked") /\ Works
          /\ child' = "born" /\ writers' = {"caller", "child"}
          /\ ids' = {} /\ orphaned' = FALSE
          /\ layers' = [p \in {"child", "shell"} |-> {}]
       \/ /\ Caller("prepared", "idle") /\ (Fails("pipe") \/ Fails("fork"))
          /\ UNCHANGED <<child, writers, layers, ids, orphaned>>
    /\ UNCHANGED <<shell, privileged, admitted, jail, oldRoot, calls>>

\* vault_auth_pid_add_ffi
Admit ==
    /\ Caller("forked", "setgroups") /\ admitted' = TRUE
    /\ UNCHANGED <<child, shell, writers, layers, ids, privileged, jail, oldRoot, orphaned, calls, faults>>

\* A write to a file of the child in /proc.  It comes to nothing if the child
\* has not left the user namespace yet; to map ids that are not its own takes a
\* privileged caller.  No result is looked at.
WriteMap(from, to, allowed) ==
    /\ Caller(from, to)
    /\ \/ /\ ids' = IF "user" \in layers["child"] /\ child # "gone" /\ allowed
                    THEN ids \cup {from} ELSE ids
          /\ Works
       \/ Fails("map") /\ UNCHANGED ids
    /\ UNCHANGED <<child, shell, writers, layers, privileged, admitted, jail, oldRoot, orphaned, calls>>

\* sandbox_write_uid_gid_map
WriteMaps == \/ WriteMap("setgroups", "uid", TRUE)
             \/ WriteMap("uid", "gid", privileged)
             \/ WriteMap("gid", "mapped", privileged)

\* close(sync_pipe[1])
Release ==
    /\ Caller("mapped", "waiting") /\ writers' = writers \ {"caller"}
    /\ UNCHANGED <<child, shell, layers, ids, privileged, admitted, jail, oldRoot, orphaned, calls, faults>>

\* waitpid
Reap ==
    /\ Caller("waiting", "reaped") /\ child = "gone" /\ child' = "none"
    /\ UNCHANGED <<shell, writers, layers, ids, privileged, admitted, jail, oldRoot, orphaned, calls, faults>>

\* vault_auth_pid_remove_ffi, and ERR_OK whatever became of the session
Return ==
    /\ Caller("reaped", "idle") /\ admitted' = FALSE
    /\ UNCHANGED <<child, shell, writers, layers, ids, privileged, jail, oldRoot, orphaned, calls, faults>>

-----------------------------------------------------------------------------
(* The child *)

Child(from, to) == child = from /\ child' = to

\* _exit(1), which closes what it has open.
ChildFails(from, f) == Child(from, "gone") /\ Fails(f) /\ writers' = writers \ {"child"}

Gain(p, layer) == layers' = [layers EXCEPT ![p] = @ \cup {layer}]

UnshareUser ==
    /\ \/ Child("born", "apart") /\ Works /\ Gain("child", "user") /\ UNCHANGED writers
       \/ ChildFails("born", "unshare") /\ UNCHANGED layers
    /\ UNCHANGED <<caller, shell, ids, privileged, admitted, jail, oldRoot, orphaned, calls>>

\* Faulty variant: the child keeps its own write end.
CloseWriteEndNot ==
    /\ Child("apart", "reading") /\ UNCHANGED writers
    /\ UNCHANGED <<caller, shell, layers, ids, privileged, admitted, jail, oldRoot, orphaned, calls, faults>>

CloseWriteEnd ==
    /\ Child("apart", "reading") /\ writers' = writers \ {"child"}
    /\ UNCHANGED <<caller, shell, layers, ids, privileged, admitted, jail, oldRoot, orphaned, calls, faults>>

\* Faulty variant: the read does not wait.
AwaitCallerNot ==
    /\ Child("reading", "released")
    /\ UNCHANGED <<caller, shell, writers, layers, ids, privileged, admitted, jail, oldRoot, orphaned, calls, faults>>

\* Nobody writes a byte: read returns when the last write end is closed.
AwaitCaller ==
    /\ Child("reading", "released") /\ writers = {}
    /\ UNCHANGED <<caller, shell, writers, layers, ids, privileged, admitted, jail, oldRoot, orphaned, calls, faults>>

UnshareMounts ==
    /\ \/ Child("released", "unshared") /\ Works /\ Gain("child", "mount") /\ UNCHANGED writers
       \/ ChildFails("released", "unshare") /\ UNCHANGED layers
    /\ UNCHANGED <<caller, shell, ids, privileged, admitted, jail, oldRoot, orphaned, calls>>

ForkShell ==
    /\ \/ /\ Child("unshared", "waiting") /\ Works /\ UNCHANGED writers
          /\ shell' = "born" /\ layers' = [layers EXCEPT !["shell"] = layers["child"]]
       \/ ChildFails("unshared", "fork") /\ UNCHANGED <<shell, layers>>
    /\ UNCHANGED <<caller, ids, privileged, admitted, jail, oldRoot, orphaned, calls>>

\* Faulty variant: the child ends without waiting for the shell.
ReapShellNot ==
    /\ Child("waiting", "gone")
    /\ UNCHANGED <<caller, shell, writers, layers, ids, privileged, admitted, jail, oldRoot, orphaned, calls, faults>>

ReapShell ==
    /\ Child("waiting", "gone") /\ shell = "gone" /\ shell' = "none"
    /\ UNCHANGED <<caller, writers, layers, ids, privileged, admitted, jail, oldRoot, orphaned, calls, faults>>

-----------------------------------------------------------------------------
(* The shell *)

Shell(from, to) == shell = from /\ shell' = to

\* sandbox_pivot_root and sandbox_prepare_mounts.  That the old root stays
\* mounted, or that a mount fails, is not looked at.
PivotRoot ==
    /\ \/ /\ Shell("born", "rooted") /\ Gain("shell", "root")
          /\ (Works /\ oldRoot' = FALSE) \/ (Fails("umount") /\ oldRoot' = TRUE)
       \/ Shell("born", "gone") /\ Fails("pivot") /\ UNCHANGED <<layers, oldRoot>>
    /\ UNCHANGED <<caller, child, writers, ids, privileged, admitted, jail, orphaned, calls>>

\* Faulty variant: an error is not the end.
DropCapsAnyway ==
    /\ \/ Shell("rooted", "capless") /\ Gain("shell", "caps") /\ Works
       \/ Shell("rooted", "capless") /\ Fails("caps") /\ UNCHANGED layers
    /\ UNCHANGED <<caller, child, writers, ids, privileged, admitted, jail, oldRoot, orphaned, calls>>

\* sandbox_drop_caps looks at what is left.
DropCaps ==
    /\ \/ Shell("rooted", "capless") /\ Gain("shell", "caps") /\ Works
       \/ Shell("rooted", "gone") /\ Fails("caps") /\ UNCHANGED layers
    /\ UNCHANGED <<caller, child, writers, ids, privileged, admitted, jail, oldRoot, orphaned, calls>>

\* sandbox_limit_resources and apply_seccomp_policy
Filter ==
    /\ \/ Shell("capless", "filtered") /\ Gain("shell", "seccomp") /\ Works
       \/ Shell("capless", "gone") /\ Fails("seccomp") /\ UNCHANGED layers
    /\ UNCHANGED <<caller, child, writers, ids, privileged, admitted, jail, oldRoot, orphaned, calls>>

\* execl: the vault needs a shell of its own, and a bin that can be searched.
Exec ==
    /\ Shell("filtered", IF jail.sh /\ jail.bin = "open" THEN "running" ELSE "gone")
    /\ UNCHANGED <<caller, child, writers, layers, ids, privileged, admitted, jail, oldRoot, orphaned, calls, faults>>

-----------------------------------------------------------------------------
(* The rest of the world *)

\* The session ends, by exit or by a call that the filter answers with a kill.
EndSession ==
    /\ Shell("running", "gone")
    /\ UNCHANGED <<caller, child, writers, layers, ids, privileged, admitted, jail, oldRoot, orphaned, calls, faults>>

KillShell ==
    /\ shell \notin {"none", "gone"} /\ shell' = "gone" /\ Fails("kill")
    /\ UNCHANGED <<caller, child, writers, layers, ids, privileged, admitted, jail, oldRoot, orphaned, calls>>

\* Nothing tells the shell.
KillChild ==
    /\ child \notin {"none", "gone"} /\ child' = "gone" /\ Fails("kill")
    /\ writers' = writers \ {"child"} /\ orphaned' = TRUE
    /\ UNCHANGED <<caller, shell, layers, ids, privileged, admitted, jail, oldRoot, calls>>

KillCaller ==
    /\ caller \notin {"idle", "dead"} /\ caller' = "dead" /\ Fails("kill")
    /\ writers' = writers \ {"caller"} /\ admitted' = FALSE /\ orphaned' = TRUE
    /\ UNCHANGED <<child, shell, layers, ids, privileged, jail, oldRoot, calls>>

\* init takes in the shell whose child is gone.
Adopt ==
    /\ shell = "gone" /\ child # "waiting" /\ shell' = "none"
    /\ UNCHANGED <<caller, child, writers, layers, ids, privileged, admitted, jail, oldRoot, orphaned, calls, faults>>

InstallShell ==
    /\ jail.bin = "open" /\ ~jail.sh /\ jail' = [jail EXCEPT !.sh = TRUE]
    /\ UNCHANGED <<caller, child, shell, writers, layers, ids, privileged, admitted, oldRoot, orphaned, calls, faults>>

\* vault_enforce_readonly gives all that it finds in the vault mode 0400,
\* directories too, and vault_set_write_mode 0600: neither can be searched.
Enforce ==
    /\ jail.bin = "open" /\ jail' = [jail EXCEPT !.bin = "shut"]
    /\ UNCHANGED <<caller, child, shell, writers, layers, ids, privileged, admitted, oldRoot, orphaned, calls, faults>>

-----------------------------------------------------------------------------

Init ==
    /\ caller = "idle" /\ child = "none" /\ shell = "none" /\ writers = {}
    /\ layers = [p \in {"child", "shell"} |-> {}]
    /\ ids = {} /\ privileged \in BOOLEAN /\ admitted = FALSE
    /\ jail = [marker |-> FALSE, bin |-> "none", sh |-> FALSE]
    /\ oldRoot = FALSE /\ orphaned = FALSE /\ calls = 0 /\ faults = 0

CallerStep == ForkChild \/ Admit \/ WriteMaps \/ Release \/ Reap \/ Return
ChildStep  == UnshareUser \/ CloseWriteEnd \/ AwaitCaller \/ UnshareMounts \/ ForkShell \/ ReapShell
ShellStep  == PivotRoot \/ DropCaps \/ Filter \/ Exec
World      == PrepareJail \/ EndSession \/ KillShell \/ KillChild \/ KillCaller
                \/ Adopt \/ InstallShell \/ Enforce

Next == CallerStep \/ ChildStep \/ ShellStep \/ World

Fairness == WF_vars(CallerStep) /\ WF_vars(ChildStep) /\ WF_vars(ShellStep)

Spec == Init /\ [][Next]_vars /\ Fairness

-----------------------------------------------------------------------------
(* Properties *)

ProcessType ==
    /\ caller \in {"idle", "prepared", "forked", "setgroups", "uid", "gid", "mapped",
                   "waiting", "reaped", "dead"}
    /\ child \in {"none", "born", "apart", "reading", "released", "unshared", "waiting", "gone"}
    /\ shell \in {"none", "born", "rooted", "capless", "filtered", "running", "gone"}
    /\ writers \subseteq {"caller", "child"}
    /\ "caller" \in writers => caller \notin {"idle", "prepared", "waiting", "reaped", "dead"}
    /\ "child" \in writers => child \in {"born", "apart"}
    /\ layers \in [{"child", "shell"} -> SUBSET Layers]
    /\ ids \subseteq {"setgroups", "uid", "gid"}
JailType == jail \in [marker : BOOLEAN, bin : {"none", "open", "shut"}, sh : BOOLEAN]
FlagType == /\ privileged \in BOOLEAN /\ admitted \in BOOLEAN
            /\ oldRoot \in BOOLEAN /\ orphaned \in BOOLEAN
CountType == calls \in 0..MaxCalls /\ faults \in 0..FaultBound

\* Every variable keeps its type, and the pipe's write ends are with processes
\* that have not closed them.
TypeOK == ProcessType /\ JailType /\ FlagType /\ CountType

\* A shell runs only behind all five layers, whichever calls failed, whoever was
\* killed, and whether its ids were mapped in time or not.
SessionConfined == shell = "running" => layers["shell"] = Layers

\* The ids of a session are what they are by the time the child goes on: the
\* pipe keeps it waiting through the last write to its maps.
IdsAreFixed ==
    [][\A i \in ids' \ ids : child \in {"apart", "reading"} /\ shell = "none"]_vars

\* When the call has returned, its session is over and its child no longer
\* authorised, unless the child was killed from outside.
NothingIsLeft ==
    caller = "idle" => ~admitted /\ (orphaned \/ (child = "none" /\ shell = "none"))

\* A call gets as far as a shell, or comes back: nobody waits on the pipe or for
\* a process for ever.
SetupEnds ==
    caller \notin {"idle", "dead"} ~> caller \in {"idle", "dead"} \/ shell = "running"
=============================================================================
