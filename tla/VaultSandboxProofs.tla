------------------------- MODULE VaultSandboxProofs -------------------------
(***************************************************************************)
(* Theorems about VaultSandbox, for any number of calls and failures and   *)
(* any set of things that may fail.                                        *)
(***************************************************************************)
EXTENDS VaultSandbox, TLAPS

-----------------------------------------------------------------------------
(* The type invariant *)

LEMMA InitType == Init => TypeOK
<1> SUFFICES ASSUME Init PROVE TypeOK
  OBVIOUS
<1>1. ProcessType
  BY DEF Init, ProcessType, Layers
<1>2. JailType
  BY DEF Init, JailType
<1>3. FlagType
  BY DEF Init, FlagType
<1>4. CountType
  BY SandboxAssumption DEF Init, CountType
<1> QED
  BY <1>1, <1>2, <1>3, <1>4 DEF TypeOK

LEMMA GainType ==
    ASSUME ProcessType, NEW p \in {"child", "shell"}, NEW layer \in Layers, Gain(p, layer)
    PROVE  /\ layers' \in [{"child", "shell"} -> SUBSET Layers]
           /\ layers'[p] = layers[p] \cup {layer}
           /\ \A q \in {"child", "shell"} : q # p => layers'[q] = layers[q]
BY DEF ProcessType, Gain

LEMMA ProcessStep == TypeOK /\ [Next]_vars => ProcessType'
<1> SUFFICES ASSUME ProcessType, [Next]_vars PROVE ProcessType'
  BY DEF TypeOK
<1> USE DEF ProcessType
<1>1. CASE CallerStep
  BY <1>1, ZenonT(60) DEF CallerStep, ForkChild, Admit, WriteMaps, WriteMap, Release, Reap, Return, Caller
<1>2. CASE ChildStep
  <2>1. "user" \in Layers /\ "mount" \in Layers
    BY DEF Layers
  <2>2. CASE UnshareUser
    BY <2>1, <2>2, GainType DEF UnshareUser, Child, ChildFails
  <2>3. CASE UnshareMounts
    BY <2>1, <2>3, GainType DEF UnshareMounts, Child, ChildFails
  <2>4. CASE CloseWriteEnd \/ AwaitCaller \/ ReapShell
    BY <2>4 DEF CloseWriteEnd, AwaitCaller, ReapShell, Child
  <2>5. CASE ForkShell
    BY <2>5 DEF ForkShell, Child, ChildFails
  <2> QED
    BY <1>2, <2>2, <2>3, <2>4, <2>5 DEF ChildStep
<1>3. CASE ShellStep
  <2>1. "root" \in Layers /\ "caps" \in Layers /\ "seccomp" \in Layers
    BY DEF Layers
  <2>2. CASE PivotRoot
    BY <2>1, <2>2, GainType DEF PivotRoot, Shell
  <2>3. CASE DropCaps
    BY <2>1, <2>3, GainType DEF DropCaps, Shell
  <2>4. CASE Filter
    BY <2>1, <2>4, GainType DEF Filter, Shell
  <2>5. CASE Exec
    BY <2>5 DEF Exec, Shell
  <2> QED
    BY <1>3, <2>2, <2>3, <2>4, <2>5 DEF ShellStep
<1>4. CASE World
  BY <1>4 DEF World, PrepareJail, EndSession, KillShell, KillChild, KillCaller, Adopt, InstallShell,
              Enforce, Caller, Shell
<1>5. CASE UNCHANGED vars
  BY <1>5 DEF vars
<1> QED
  BY <1>1, <1>2, <1>3, <1>4, <1>5 DEF Next

LEMMA JailStep == TypeOK /\ [Next]_vars => JailType'
<1> SUFFICES ASSUME JailType, [Next]_vars PROVE JailType'
  BY DEF TypeOK
<1> USE DEF JailType
<1>1. CASE PrepareJail
  BY <1>1 DEF PrepareJail
<1>2. CASE InstallShell \/ Enforce
  BY <1>2 DEF InstallShell, Enforce
<1>3. CASE ~PrepareJail /\ ~InstallShell /\ ~Enforce
  <2>1. jail' = jail
    BY <1>3 DEF Next, vars, CallerStep, ForkChild, Admit, WriteMaps, WriteMap, Release, Reap, Return,
                ChildStep, UnshareUser, CloseWriteEnd, AwaitCaller, UnshareMounts, ForkShell, ReapShell,
                ShellStep, PivotRoot, DropCaps, Filter, Exec, World, EndSession, KillShell, KillChild,
                KillCaller, Adopt
  <2> QED
    BY <2>1
<1> QED
  BY <1>1, <1>2, <1>3

LEMMA FlagStep == TypeOK /\ [Next]_vars => FlagType'
<1> SUFFICES ASSUME FlagType, [Next]_vars PROVE FlagType'
  BY DEF TypeOK
<1> QED
  BY DEF FlagType, Next, vars, CallerStep, ForkChild, Admit, WriteMaps, WriteMap, Release, Reap, Return,
         ChildStep, UnshareUser, CloseWriteEnd, AwaitCaller, UnshareMounts, ForkShell, ReapShell,
         ShellStep, PivotRoot, DropCaps, Filter, Exec, World, PrepareJail, EndSession, KillShell,
         KillChild, KillCaller, Adopt, InstallShell, Enforce

LEMMA CountStep == TypeOK /\ [Next]_vars => CountType'
<1> SUFFICES ASSUME CountType, [Next]_vars PROVE CountType'
  BY DEF TypeOK
<1>1. \/ faults' = faults
      \/ faults < FaultBound /\ faults' = faults + 1
  BY DEF Next, vars, CallerStep, ForkChild, Admit, WriteMaps, WriteMap, Release, Reap, Return,
         ChildStep, UnshareUser, CloseWriteEnd, AwaitCaller, UnshareMounts, ForkShell, ReapShell,
         ShellStep, PivotRoot, DropCaps, Filter, Exec, World, PrepareJail, EndSession, KillShell,
         KillChild, KillCaller, Adopt, InstallShell, Enforce, ChildFails, Fails, Works
<1>2. \/ calls' = calls
      \/ calls < MaxCalls /\ calls' = calls + 1
  BY DEF Next, vars, CallerStep, ForkChild, Admit, WriteMaps, WriteMap, Release, Reap, Return,
         ChildStep, UnshareUser, CloseWriteEnd, AwaitCaller, UnshareMounts, ForkShell, ReapShell,
         ShellStep, PivotRoot, DropCaps, Filter, Exec, World, PrepareJail, EndSession, KillShell,
         KillChild, KillCaller, Adopt, InstallShell, Enforce
<1> QED
  BY <1>1, <1>2, SandboxAssumption DEF CountType

LEMMA TypeStep == TypeOK /\ [Next]_vars => TypeOK'
BY ProcessStep, JailStep, FlagStep, CountStep DEF TypeOK

\* Every variable keeps its type, and the write ends of the pipe that are open
\* are with processes that have not closed them.
THEOREM TypeCorrect == Spec => []TypeOK
BY InitType, TypeStep, PTL DEF Spec

-----------------------------------------------------------------------------
(* Confinement: each process has the layers that its place implies. *)

Behind ==
    /\ shell \notin {"none", "gone"} => {"user", "mount"} \subseteq layers["shell"]
    /\ shell \in {"rooted", "capless", "filtered", "running"} => "root" \in layers["shell"]
    /\ shell \in {"capless", "filtered", "running"} => "caps" \in layers["shell"]
    /\ shell \in {"filtered", "running"} => "seccomp" \in layers["shell"]

\* The shell starts from the child's layers, and a call starts a new child only
\* when the shell of the last is gone.
ConfinedInv ==
    /\ child \in {"apart", "reading", "released"} => "user" \in layers["child"]
    /\ child \in {"unshared", "waiting"} => {"user", "mount"} \subseteq layers["child"]
    /\ Behind
    /\ caller = "prepared" => child = "none" /\ shell = "none"

LEMMA ConfinedStep == TypeOK /\ ConfinedInv /\ [Next]_vars => ConfinedInv'
<1> SUFFICES ASSUME TypeOK, ConfinedInv, [Next]_vars PROVE ConfinedInv'
  OBVIOUS
<1>0. /\ layers \in [{"child", "shell"} -> SUBSET Layers]
      /\ Layers = {"user", "mount", "root", "caps", "seccomp"}
  BY DEF TypeOK, ProcessType, Layers
<1> USE DEF ConfinedInv
<1>1. CASE CallerStep
  <2>1. CASE ForkChild
    BY <1>0, <2>1 DEF ForkChild, Caller, Behind
  <2>2. CASE ~ForkChild
    <3>1. /\ UNCHANGED <<shell, layers>> /\ caller' # "prepared"
          /\ UNCHANGED child \/ child' = "none"
      BY <1>1, <2>2 DEF CallerStep, Admit, WriteMaps, WriteMap, Release, Reap, Return, Caller
    <3> QED
      BY <3>1 DEF Behind
  <2> QED
    BY <2>1, <2>2
<1>2. CASE ChildStep
  <2>0. "user" \in Layers /\ "mount" \in Layers /\ caller' = caller /\ child # "none"
    BY <1>2, <1>0 DEF ChildStep, UnshareUser, CloseWriteEnd, AwaitCaller, UnshareMounts,
                 ForkShell, ReapShell, Child, ChildFails
  <2>1. CASE UnshareUser
    BY <2>0, <2>1, GainType DEF TypeOK, UnshareUser, Child, ChildFails, Behind
  <2>2. CASE UnshareMounts
    BY <2>0, <2>2, GainType DEF TypeOK, UnshareMounts, Child, ChildFails, Behind
  <2>3. CASE ForkShell
    BY <1>0, <2>0, <2>3 DEF ForkShell, Child, ChildFails, Behind
  <2>4. CASE CloseWriteEnd \/ AwaitCaller \/ ReapShell
    BY <2>0, <2>4 DEF CloseWriteEnd, AwaitCaller, ReapShell, Child, Behind
  <2> QED
    BY <1>2, <2>1, <2>2, <2>3, <2>4 DEF ChildStep
<1>3. CASE ShellStep
  <2>0. /\ UNCHANGED <<caller, child>> /\ shell # "none"
        /\ "root" \in Layers /\ "caps" \in Layers /\ "seccomp" \in Layers
    BY <1>3, <1>0 DEF ShellStep, PivotRoot, DropCaps, Filter, Exec, Shell
  <2>1. CASE PivotRoot
    BY <1>0, <2>0, <2>1, GainType DEF TypeOK, PivotRoot, Shell, Behind
  <2>2. CASE DropCaps
    BY <1>0, <2>0, <2>2, GainType DEF TypeOK, DropCaps, Shell, Behind
  <2>3. CASE Filter
    BY <1>0, <2>0, <2>3, GainType DEF TypeOK, Filter, Shell, Behind
  <2>4. CASE Exec
    BY <1>0, <2>0, <2>4 DEF Exec, Shell, Behind
  <2> QED
    BY <1>3, <2>1, <2>2, <2>3, <2>4 DEF ShellStep
<1>4. CASE World
  <2>1. CASE PrepareJail
    BY <2>1 DEF PrepareJail, Caller, Behind
  <2>2. CASE ~PrepareJail
    <3>1. /\ layers' = layers
          /\ child' \in {child, "gone"} /\ shell' \in {shell, "gone", "none"}
          /\ caller' \in {caller, "dead"}
          /\ child = "none" => child' = "none"
          /\ shell = "none" => shell' = "none"
      BY <1>4, <2>2 DEF World, EndSession, KillShell, KillChild, KillCaller, Adopt, InstallShell,
                   Enforce, Shell
    <3> QED
      BY <3>1 DEF Behind
  <2> QED
    BY <2>1, <2>2
<1>5. CASE UNCHANGED vars
  BY <1>5 DEF vars, Behind
<1> QED
  BY <1>1, <1>2, <1>3, <1>4, <1>5 DEF Next

\* A shell runs only behind all the layers, whichever calls failed, whoever was
\* killed, and whether the ids were mapped in time or not.
THEOREM SessionsAreConfined == Spec => []SessionConfined
<1>1. Init => ConfinedInv
  BY DEF Init, ConfinedInv, Behind
<1>2. TypeOK /\ ConfinedInv => SessionConfined
  BY DEF ConfinedInv, SessionConfined, Behind, TypeOK, ProcessType, Layers
<1> QED
  BY <1>1, <1>2, ConfinedStep, TypeCorrect, PTL DEF Spec

-----------------------------------------------------------------------------
(* The pipe: while the caller holds it, the child stays before its read, and *)
(* the caller holds it until the last map is written.                        *)

Mapping == {"forked", "setgroups", "uid", "gid", "mapped"}

PipeInv ==
    /\ caller \in Mapping => /\ "caller" \in writers
                             /\ child \in {"born", "apart", "reading", "gone"}
                             /\ shell = "none"
    /\ child = "born" => layers["child"] = {}
    /\ caller = "prepared" => child = "none" /\ shell = "none"

LEMMA PipeStep == TypeOK /\ PipeInv /\ [Next]_vars => PipeInv'
<1> SUFFICES ASSUME TypeOK, PipeInv, [Next]_vars PROVE PipeInv'
  OBVIOUS
<1> USE DEF PipeInv, Mapping
<1>1. CASE CallerStep
  <2>1. CASE ForkChild
    BY <2>1 DEF ForkChild, Caller
  <2>2. CASE Release \/ Reap \/ Return
    BY <2>2 DEF Release, Reap, Return, Caller
  <2>3. CASE Admit \/ WriteMaps
    BY <2>3 DEF Admit, WriteMaps, WriteMap, Caller
  <2> QED
    BY <1>1, <2>1, <2>2, <2>3 DEF CallerStep
<1>2. CASE ChildStep
  <2>0. caller' = caller
    BY <1>2 DEF ChildStep, UnshareUser, CloseWriteEnd, AwaitCaller, UnshareMounts,
                 ForkShell, ReapShell
  <2>1. CASE UnshareUser
    BY <2>0, <2>1 DEF UnshareUser, Child, ChildFails
  <2>2. CASE CloseWriteEnd
    BY <2>0, <2>2 DEF CloseWriteEnd, Child
  <2>3. CASE AwaitCaller
    BY <2>0, <2>3 DEF AwaitCaller, Child
  <2>4. CASE UnshareMounts \/ ForkShell \/ ReapShell
    BY <2>0, <2>4 DEF UnshareMounts, ForkShell, ReapShell, Child, ChildFails
  <2> QED
    BY <1>2, <2>1, <2>2, <2>3, <2>4 DEF ChildStep
<1>3. CASE ShellStep
  <2>1. /\ UNCHANGED <<caller, child, writers>> /\ shell # "none"
        /\ layers'["child"] = layers["child"]
    BY <1>3 DEF ShellStep, PivotRoot, DropCaps, Filter, Exec, Shell, Gain, TypeOK, ProcessType
  <2> QED
    BY <2>1
<1>4. CASE World
  BY <1>4 DEF World, PrepareJail, EndSession, KillShell, KillChild, KillCaller, Adopt, InstallShell,
              Enforce, Shell, Caller
<1>5. CASE UNCHANGED vars
  BY <1>5 DEF vars
<1> QED
  BY <1>1, <1>2, <1>3, <1>4, <1>5 DEF Next

\* The ids of a session are what they are by the time the child goes on: nothing
\* is added to them but while the child waits at the pipe, before its shell is.
THEOREM IdsAreFixedInTime == Spec => IdsAreFixed
<1> DEFINE Fixed == \A i \in ids' \ ids : child \in {"apart", "reading"} /\ shell = "none"
<1>1. Init => PipeInv
  BY DEF Init, PipeInv, Mapping
<1>2. TypeOK /\ PipeInv /\ [Next]_vars => [Fixed]_vars
  <2> SUFFICES ASSUME TypeOK, PipeInv, [Next]_vars PROVE Fixed
    OBVIOUS
  <2>1. CASE WriteMaps
    BY <2>1 DEF PipeInv, Mapping, WriteMaps, WriteMap, Caller
  <2>2. CASE ~WriteMaps
    <3>1. ids' = ids \/ ids' = {}
      BY <2>2 DEF Next, vars, CallerStep, ForkChild, Admit, Release, Reap, Return,
                  ChildStep, UnshareUser, CloseWriteEnd, AwaitCaller, UnshareMounts, ForkShell, ReapShell,
                  ShellStep, PivotRoot, DropCaps, Filter, Exec, World, PrepareJail, EndSession, KillShell,
                  KillChild, KillCaller, Adopt, InstallShell, Enforce
    <3> QED
      BY <3>1
  <2> QED
    BY <2>1, <2>2
<1> QED
  BY <1>1, <1>2, PipeStep, TypeCorrect, PTL DEF Spec, IdsAreFixed

-----------------------------------------------------------------------------
(* The end of a call *)

\* Only a killed child or caller leaves a shell to which no child waits.
EndInv ==
    /\ admitted => caller \in {"setgroups", "uid", "gid", "mapped", "waiting", "reaped"}
    /\ caller \in {"idle", "prepared", "reaped"} => child = "none"
    /\ ~orphaned /\ child # "waiting" => shell = "none"
    /\ caller = "prepared" => shell = "none"

LEMMA EndStep == TypeOK /\ EndInv /\ [Next]_vars => EndInv'
<1> SUFFICES ASSUME TypeOK, EndInv, [Next]_vars PROVE EndInv'
  OBVIOUS
<1> USE DEF EndInv
<1>1. CASE CallerStep
  <2>1. CASE ForkChild \/ Admit \/ Release
    BY <2>1 DEF ForkChild, Admit, Release, Caller
  <2>2. CASE WriteMaps
    BY <2>2 DEF WriteMaps, WriteMap, Caller
  <2>3. CASE Reap \/ Return
    BY <2>3 DEF Reap, Return, Caller
  <2> QED
    BY <1>1, <2>1, <2>2, <2>3 DEF CallerStep
<1>2. CASE ChildStep
  BY <1>2 DEF ChildStep, UnshareUser, CloseWriteEnd, AwaitCaller, UnshareMounts, ForkShell, ReapShell,
              Child, ChildFails
<1>3. CASE ShellStep
  <2>1. UNCHANGED <<caller, child, admitted, orphaned>> /\ shell # "none"
    BY <1>3 DEF ShellStep, PivotRoot, DropCaps, Filter, Exec, Shell
  <2> QED
    BY <2>1
<1>4. CASE World
  BY <1>4 DEF World, PrepareJail, EndSession, KillShell, KillChild, KillCaller, Adopt, InstallShell,
              Enforce, Shell, Caller, TypeOK, FlagType
<1>5. CASE UNCHANGED vars
  BY <1>5 DEF vars
<1> QED
  BY <1>1, <1>2, <1>3, <1>4, <1>5 DEF Next

\* When the call has returned, its session is over and its child no longer
\* authorised, unless the child or the caller was killed.
THEOREM NothingLeftBehind == Spec => []NothingIsLeft
<1>1. Init => EndInv
  BY DEF Init, EndInv
<1>2. TypeOK /\ EndInv => NothingIsLeft
  BY DEF EndInv, NothingIsLeft, TypeOK, FlagType
<1> QED
  BY <1>1, <1>2, EndStep, TypeCorrect, PTL DEF Spec

-----------------------------------------------------------------------------
(* That a call gets on *)

\* Who is there to go on: the caller and the child each wait twice, at the pipe or
\* for a process.
CallerGoes == \/ caller \in {"prepared", "forked", "setgroups", "uid", "gid", "mapped", "reaped"}
              \/ caller = "waiting" /\ child = "gone"
ChildGoes  == \/ child \in {"born", "apart", "released", "unshared"}
              \/ child = "reading" /\ writers = {}
              \/ child = "waiting" /\ shell = "gone"
ShellGoes  == shell \in {"born", "rooted", "capless", "filtered"}

\* Each that waits for a process has one to wait for.
WaitInv ==
    /\ caller \in {"forked", "setgroups", "uid", "gid", "mapped", "waiting"} => child # "none"
    /\ child = "waiting" => shell # "none"

LEMMA WaitStep == TypeOK /\ WaitInv /\ [Next]_vars => WaitInv'
<1> SUFFICES ASSUME TypeOK, WaitInv, [Next]_vars PROVE WaitInv'
  OBVIOUS
<1> USE DEF WaitInv, TypeOK, ProcessType
<1>1. CASE CallerStep
  <2>1. CASE ForkChild \/ Admit \/ Release
    BY <2>1 DEF ForkChild, Admit, Release, Caller
  <2>2. CASE WriteMaps
    BY <2>2 DEF WriteMaps, WriteMap, Caller
  <2>3. CASE Reap \/ Return
    BY <2>3 DEF Reap, Return, Caller
  <2> QED
    BY <1>1, <2>1, <2>2, <2>3 DEF CallerStep
<1>2. CASE ChildStep
  BY <1>2 DEF ChildStep, UnshareUser, CloseWriteEnd, AwaitCaller, UnshareMounts, ForkShell, ReapShell,
              Child, ChildFails
<1>3. CASE ShellStep
  <2>1. UNCHANGED <<caller, child>> /\ shell' # "none"
    BY <1>3 DEF ShellStep, PivotRoot, DropCaps, Filter, Exec, Shell
  <2> QED
    BY <2>1
<1>4. CASE World
  BY <1>4 DEF World, PrepareJail, EndSession, KillShell, KillChild, KillCaller, Adopt, InstallShell,
              Enforce, Shell, Caller
<1>5. CASE UNCHANGED vars
  BY <1>5 DEF vars
<1> QED
  BY <1>1, <1>2, <1>3, <1>4, <1>5 DEF Next

\* As long as a call is under way, and whoever failed or was killed, its caller, its
\* child or its shell can go on, or the shell runs: nobody waits at the pipe for a
\* write end that nobody will close, nor in waitpid for a process that is not there.
THEOREM NobodyWaitsInVain ==
    Spec => [](caller \notin {"idle", "dead"} =>
                  CallerGoes \/ ChildGoes \/ ShellGoes \/ shell = "running")
<1>1. Init => WaitInv
  BY DEF Init, WaitInv
<1>2. TypeOK /\ WaitInv /\ caller \notin {"idle", "dead"} =>
        CallerGoes \/ ChildGoes \/ ShellGoes \/ shell = "running"
  BY DEF WaitInv, TypeOK, ProcessType, CallerGoes, ChildGoes, ShellGoes
<1> QED
  BY <1>1, <1>2, WaitStep, TypeCorrect, PTL DEF Spec

\* How far each has to go, the steps of a process yet to be forked among those of
\* the one that forks it; and what may still be done to the jail.
CallerLeft(c) == CASE c = "prepared"  -> 21
                   [] c = "forked"    -> 7
                   [] c = "setgroups" -> 6
                   [] c = "uid"       -> 5
                   [] c = "gid"       -> 4
                   [] c = "mapped"    -> 3
                   [] c = "waiting"   -> 2
                   [] c = "reaped"    -> 1
                   [] OTHER           -> 0
ChildLeft(c) == CASE c = "born"     -> 13
                  [] c = "apart"    -> 12
                  [] c = "reading"  -> 11
                  [] c = "released" -> 10
                  [] c = "unshared" -> 9
                  [] c = "waiting"  -> 2
                  [] c = "gone"     -> 1
                  [] OTHER          -> 0
ShellLeft(sh) == CASE sh = "born"     -> 6
                   [] sh = "rooted"   -> 5
                   [] sh = "capless"  -> 4
                   [] sh = "filtered" -> 3
                   [] sh = "running"  -> 2
                   [] sh = "gone"     -> 1
                   [] OTHER           -> 0
JailLeft(j) == IF j.bin # "open" THEN 0 ELSE IF j.sh THEN 1 ELSE 2
StepsFor(c, ch, sh, j) == CallerLeft(c) + ChildLeft(ch) + ShellLeft(sh) + JailLeft(j)
StepsLeft == StepsFor(caller, child, shell, jail)

LEMMA LeftType ==
    \A c, ch, sh, j : /\ CallerLeft(c) \in 0..21 /\ ChildLeft(ch) \in 0..13
                      /\ ShellLeft(sh) \in 0..6 /\ JailLeft(j) \in 0..2
BY DEF CallerLeft, ChildLeft, ShellLeft, JailLeft

LEMMA CallerNearer ==
    /\ CallerLeft("prepared") = 21 /\ CallerLeft("forked") = 7 /\ CallerLeft("setgroups") = 6
    /\ CallerLeft("uid") = 5 /\ CallerLeft("gid") = 4 /\ CallerLeft("mapped") = 3
    /\ CallerLeft("waiting") = 2 /\ CallerLeft("reaped") = 1
    /\ CallerLeft("idle") = 0 /\ CallerLeft("dead") = 0
BY DEF CallerLeft

LEMMA ChildNearer ==
    /\ ChildLeft("born") = 13 /\ ChildLeft("apart") = 12 /\ ChildLeft("reading") = 11
    /\ ChildLeft("released") = 10 /\ ChildLeft("unshared") = 9 /\ ChildLeft("waiting") = 2
    /\ ChildLeft("gone") = 1 /\ ChildLeft("none") = 0
BY DEF ChildLeft

LEMMA ShellNearer ==
    /\ ShellLeft("born") = 6 /\ ShellLeft("rooted") = 5 /\ ShellLeft("capless") = 4
    /\ ShellLeft("filtered") = 3 /\ ShellLeft("running") = 2 /\ ShellLeft("gone") = 1
    /\ ShellLeft("none") = 0
BY DEF ShellLeft

\* A step of one of the three, or one that forks, which gives of its own to the
\* process it makes.
LEMMA StepTaken ==
    ASSUME TypeOK, EndInv, Next, caller # "idle"
    PROVE  \/ /\ CallerLeft(caller') < CallerLeft(caller)
              /\ child' = child /\ shell' = shell /\ jail' = jail
           \/ /\ CallerLeft(caller') + ChildLeft(child') < CallerLeft(caller) + ChildLeft(child)
              /\ shell' = shell /\ jail' = jail
           \/ /\ ChildLeft(child') + ShellLeft(shell') < ChildLeft(child) + ShellLeft(shell)
              /\ caller' = caller /\ jail' = jail
           \/ /\ JailLeft(jail') < JailLeft(jail)
              /\ caller' = caller /\ child' = child /\ shell' = shell
<1>1. CASE CallerStep
  <2>1. CASE ForkChild
    BY <2>1, CallerNearer, ChildNearer, LeftType DEF ForkChild, Caller, EndInv
  <2>2. CASE WriteMaps
    BY <2>2, CallerNearer DEF WriteMaps, WriteMap, Caller
  <2>3. CASE Admit \/ Release \/ Return
    BY <2>3, CallerNearer DEF Admit, Release, Return, Caller
  <2>4. CASE Reap
    BY <2>4, CallerNearer, ChildNearer DEF Reap, Caller
  <2> QED
    BY <1>1, <2>1, <2>2, <2>3, <2>4 DEF CallerStep
<1>2. CASE ChildStep
  <2>1. CASE ForkShell
    BY <2>1, ChildNearer, ShellNearer, LeftType DEF ForkShell, Child, ChildFails
  <2>2. CASE ReapShell
    BY <2>2, ChildNearer, ShellNearer DEF ReapShell, Child
  <2>3. CASE UnshareUser \/ CloseWriteEnd \/ AwaitCaller \/ UnshareMounts
    <3>1. /\ ChildLeft(child') < ChildLeft(child)
          /\ caller' = caller /\ shell' = shell /\ jail' = jail
      BY <2>3, ChildNearer DEF UnshareUser, CloseWriteEnd, AwaitCaller, UnshareMounts, Child, ChildFails
    <3> QED
      BY <3>1, LeftType
  <2> QED
    BY <1>2, <2>1, <2>2, <2>3 DEF ChildStep
<1>3. CASE ShellStep \/ EndSession \/ KillShell \/ Adopt
  <2>1. /\ ShellLeft(shell') < ShellLeft(shell)
        /\ caller' = caller /\ child' = child /\ jail' = jail
    BY <1>3, ShellNearer DEF ShellStep, PivotRoot, DropCaps, Filter, Exec, EndSession, KillShell, Adopt,
                             Shell, TypeOK, ProcessType
  <2> QED
    BY <2>1, LeftType
<1>4. CASE KillChild
  <2>1. /\ ChildLeft(child') < ChildLeft(child)
        /\ caller' = caller /\ shell' = shell /\ jail' = jail
    BY <1>4, ChildNearer DEF KillChild, TypeOK, ProcessType
  <2> QED
    BY <2>1, LeftType
<1>5. CASE KillCaller
  BY <1>5, CallerNearer DEF KillCaller, TypeOK, ProcessType
<1>6. CASE InstallShell \/ Enforce
  BY <1>6 DEF InstallShell, Enforce, JailLeft, TypeOK, JailType
<1>7. ~PrepareJail
  BY DEF PrepareJail, Caller
<1> QED
  BY <1>1, <1>2, <1>3, <1>4, <1>5, <1>6, <1>7 DEF Next, World

\* The shell is not there before its child forks it.
EarlyInv == child \in {"born", "apart", "reading", "released", "unshared"} => shell = "none"

LEMMA EarlyStep == TypeOK /\ EndInv /\ EarlyInv /\ [Next]_vars => EarlyInv'
<1> SUFFICES ASSUME TypeOK, EndInv, EarlyInv, [Next]_vars PROVE EarlyInv'
  OBVIOUS
<1> USE DEF EarlyInv
<1>1. CASE CallerStep
  BY <1>1 DEF EndInv, CallerStep, ForkChild, Admit, WriteMaps, WriteMap, Release, Reap, Return, Caller
<1>2. CASE ChildStep
  BY <1>2 DEF ChildStep, UnshareUser, CloseWriteEnd, AwaitCaller, UnshareMounts, ForkShell, ReapShell,
              Child, ChildFails
<1>3. CASE ShellStep
  <2>1. UNCHANGED child /\ shell # "none"
    BY <1>3 DEF ShellStep, PivotRoot, DropCaps, Filter, Exec, Shell
  <2> QED
    BY <2>1
<1>4. CASE World
  BY <1>4 DEF World, PrepareJail, EndSession, KillShell, KillChild, KillCaller, Adopt, InstallShell,
              Enforce, Shell, Caller
<1>5. CASE UNCHANGED vars
  BY <1>5 DEF vars
<1> QED
  BY <1>1, <1>2, <1>3, <1>4, <1>5 DEF Next

\* A call takes at most 23 steps, of itself, its child, its shell and whoever kills
\* them or changes the jail meanwhile: each step of any of them, killed or failed or
\* not, leaves fewer.  With NobodyWaitsInVain, this is what SetupEnds needs beside
\* the fairness.
THEOREM CallsAreShort ==
    Spec => /\ [](caller # "idle" => StepsLeft \in 0..23)
            /\ [][caller # "idle" => StepsLeft' < StepsLeft]_vars
<1> DEFINE CallInv == TypeOK /\ EndInv /\ EarlyInv
<1>1. Init => CallInv
  BY InitType DEF Init, EndInv, EarlyInv
<1>2. CallInv /\ [Next]_vars => CallInv'
  BY TypeStep, EndStep, EarlyStep
<1>3. CallInv => (caller # "idle" => StepsLeft \in 0..23)
  <2> SUFFICES ASSUME CallInv, caller # "idle" PROVE StepsLeft \in 0..23
    OBVIOUS
  <2>1. /\ CallerLeft(caller) \in Nat /\ ChildLeft(child) \in Nat
        /\ ShellLeft(shell) \in 0..6 /\ JailLeft(jail) \in 0..2
    BY LeftType
  <2>2. CallerLeft(caller) + ChildLeft(child) + ShellLeft(shell) <= 21
    <3>1. CASE caller = "prepared"
      BY <3>1, CallerNearer, ChildNearer, ShellNearer DEF EndInv
    <3>2. CASE caller # "prepared"
      <4>1. CallerLeft(caller) <= 7
        BY <3>2, CallerNearer DEF TypeOK, ProcessType
      <4>2. ChildLeft(child) + ShellLeft(shell) <= 13
        <5>1. CASE child \in {"born", "apart", "reading", "released", "unshared"}
          BY <5>1, ChildNearer, ShellNearer DEF EarlyInv
        <5>2. CASE child \in {"waiting", "gone", "none"}
          BY <5>2, <2>1, ChildNearer
        <5> QED
          BY <5>1, <5>2 DEF TypeOK, ProcessType
      <4> QED
        BY <2>1, <4>1, <4>2
    <3> QED
      BY <3>1, <3>2
  <2> QED
    BY <2>1, <2>2 DEF StepsLeft, StepsFor
<1>4. CallInv /\ [Next]_vars => [caller # "idle" => StepsLeft' < StepsLeft]_vars
  <2> SUFFICES ASSUME CallInv, Next, caller # "idle" PROVE StepsLeft' < StepsLeft
    OBVIOUS
  <2>1. StepsLeft' = CallerLeft(caller') + ChildLeft(child') + ShellLeft(shell') + JailLeft(jail')
    BY DEF StepsLeft, StepsFor
  <2>2. StepsLeft = CallerLeft(caller) + ChildLeft(child) + ShellLeft(shell) + JailLeft(jail)
    BY DEF StepsLeft, StepsFor
  <2>3. /\ CallerLeft(caller) \in Nat /\ CallerLeft(caller') \in Nat
        /\ ChildLeft(child) \in Nat /\ ChildLeft(child') \in Nat
        /\ ShellLeft(shell) \in Nat /\ ShellLeft(shell') \in Nat
        /\ JailLeft(jail) \in Nat /\ JailLeft(jail') \in Nat
    BY LeftType
  <2> QED
    BY <2>1, <2>2, <2>3, StepTaken
<1> QED
  BY <1>1, <1>2, <1>3, <1>4, PTL DEF Spec

-----------------------------------------------------------------------------
(* The jail *)

\* After an alert, no more sessions: vault_enforce_readonly takes the right to search
\* from bin, the marker keeps vault_prepare_jail from making it again, and no shell
\* is executed in that vault any more.
THEOREM ShutForGood ==
    Spec => [][jail.bin = "shut" =>
                  jail'.bin = "shut" /\ (shell' = "running" => shell = "running")]_vars
<1>1. TypeOK /\ [Next]_vars =>
        [jail.bin = "shut" => jail'.bin = "shut" /\ (shell' = "running" => shell = "running")]_vars
  <2> SUFFICES ASSUME TypeOK, Next, jail.bin = "shut"
               PROVE  jail'.bin = "shut" /\ (shell' = "running" => shell = "running")
    OBVIOUS
  <2>1. CASE PrepareJail
    BY <2>1 DEF PrepareJail, TypeOK, JailType
  <2>2. CASE Exec
    BY <2>2 DEF Exec, Shell
  <2>3. CASE ~PrepareJail /\ ~Exec
    BY <2>3 DEF Next, CallerStep, ForkChild, Admit, WriteMaps, WriteMap, Release, Reap, Return,
                ChildStep, UnshareUser, CloseWriteEnd, AwaitCaller, UnshareMounts, ForkShell, ReapShell,
                ShellStep, PivotRoot, DropCaps, Filter, World, EndSession, KillShell, KillChild,
                KillCaller, Adopt, InstallShell, Enforce, Shell
  <2> QED
    BY <2>1, <2>2, <2>3
<1> QED
  BY <1>1, TypeCorrect, PTL DEF Spec
=============================================================================
