------------------------- MODULE VaultProcessProofs -------------------------
(***************************************************************************)
(* Theorems about VaultProcess, for any number of versions and inodes.     *)
(***************************************************************************)
EXTENDS VaultProcess, TLAPS

-----------------------------------------------------------------------------
(* The type invariant, with where each thread can be *)

HandlerLabels == {"idle", "stop", "join", "joining", "destroy", "open", "head", "body", "rename", "wipe", "exit"}
MonitorLabels == {"lock", "work", "unlock", "open", "head", "body", "rename", "loop", "done"}
ShutLabels    == {"stop", "join", "joining", "destroy", "open", "head", "body", "rename", "wipe", "exit"}
CallLabels    == {"prompt", "lock", "work", "relock", "unlock", "open", "head", "body", "rename"}

\* A thread shuts down, and does nothing else again, or serves its calls.
PlaceInv ==
    /\ pc["handler"] \in HandlerLabels /\ pc["monitor"] \in MonitorLabels
    /\ call["monitor"] = "change"
    /\ pc["handler"] # "idle" => call["handler"] = "shutdown"
    /\ pc["cli"] \in IF call["cli"] = "shutdown" THEN ShutLabels ELSE CallLabels
    /\ pc["cli"] = "relock" => call["cli"] = "export"

LEMMA ThreadStep == ThreadType /\ PlaceInv /\ [Next]_vars => ThreadType' /\ PlaceInv'
<1> SUFFICES ASSUME ThreadType, PlaceInv, [Next]_vars PROVE ThreadType' /\ PlaceInv'
  OBVIOUS
<1> USE DEF ThreadType, PlaceInv, HandlerLabels, MonitorLabels, ShutLabels, CallLabels, Labels,
            Threads, At, Goto
<1>1. ASSUME NEW t \in Threads, Step(t) PROVE ThreadType' /\ PlaceInv'
  <2>1. CASE Lock(t) \/ Relock(t) \/ Unlock(t)
    BY <2>1 DEF Lock, Relock, Unlock
  <2>2. CASE Work(t)
    BY <2>2 DEF Work, Change, Finish, Export
  <2>3. CASE Open(t) \/ Rename(t)
    BY <2>3 DEF Open, Rename, Return
  <2>4. CASE Write(t, "head", "body") \/ Write(t, "body", "rename")
    BY <2>4 DEF Write
  <2>5. CASE Shutdown(t)
    BY <2>5 DEF Shutdown, Stop, Join, Joined, PastJoin, Shut, Destroy, Wipe, Exit, threads
  <2> QED
    BY <1>1, <2>1, <2>2, <2>3, <2>4, <2>5 DEF Step, Save
<1>2. CASE \E c \in Commands : Command(c)
  BY <1>2, ProcessAssumption DEF Command
<1>3. CASE Loop \/ Interrupt
  BY <1>3 DEF Loop, Interrupt
<1>4. CASE UNCHANGED vars
  BY <1>4 DEF vars, threads
<1> QED
  BY <1>1, <1>2, <1>3, <1>4 DEF Next

\* A thread has a file open from its fopen to its rename.
FdInv == \A t \in Threads :
    IF pc[t] \in {"head", "body", "rename"} THEN fd[t] \in Inodes ELSE fd[t] = NoInode

LEMMA FlagStep == FlagType /\ [Next]_vars => FlagType'
<1> SUFFICES ASSUME FlagType, [Next]_vars PROVE FlagType'
  OBVIOUS
<1> USE DEF FlagType
<1>1. ASSUME NEW t \in Threads, Step(t) PROVE FlagType'
  <2>1. CASE Lock(t) \/ Relock(t) \/ Unlock(t) \/ Work(t)
    BY <2>1 DEF Lock, Relock, Unlock, Work, Change, Finish, Export
  <2>2. CASE Save(t)
    BY <2>2 DEF Save, Open, Rename, Write
  <2>3. CASE Shutdown(t)
    BY <2>3 DEF Shutdown, Stop, Join, Joined, PastJoin, Shut, Destroy, Wipe, Exit
  <2> QED
    BY <1>1, <2>1, <2>2, <2>3 DEF Step
<1>2. CASE (\E c \in Commands : Command(c)) \/ Loop \/ Interrupt
  BY <1>2 DEF Command, Loop, Interrupt
<1>3. CASE UNCHANGED vars
  BY <1>3 DEF vars
<1> QED
  BY <1>1, <1>2, <1>3 DEF Next

LEMMA MemoryStep == MemoryType /\ [Next]_vars => MemoryType'
<1> SUFFICES ASSUME MemoryType, [Next]_vars PROVE MemoryType'
  OBVIOUS
<1> USE ProcessAssumption DEF MemoryType, Versions, Wiped
<1>1. ASSUME NEW t \in Threads, Step(t) PROVE MemoryType'
  <2>1. CASE Lock(t) \/ Relock(t) \/ Unlock(t) \/ Work(t)
    BY <2>1 DEF Lock, Relock, Unlock, Work, Change, Finish, Export
  <2>2. CASE Save(t)
    BY <2>2 DEF Save, Open, Rename, Write
  <2>3. CASE Shutdown(t)
    BY <2>3 DEF Shutdown, Stop, Join, Joined, PastJoin, Shut, Destroy, Wipe, Exit
  <2> QED
    BY <1>1, <2>1, <2>2, <2>3 DEF Step
<1>2. CASE (\E c \in Commands : Command(c)) \/ Loop \/ Interrupt
  BY <1>2 DEF Command, Loop, Interrupt
<1>3. CASE UNCHANGED vars
  BY <1>3 DEF vars
<1> QED
  BY <1>1, <1>2, <1>3 DEF Next

-----------------------------------------------------------------------------
(* The files *)

\* The inode a save writes to: a file nobody else has, or the one that is there.
Target == IF name.tmp # NoInode THEN name.tmp ELSE CHOOSE j \in Inodes : j \notin InUse

LEMMA TargetFound ==
    ASSUME FileType, FdInv, NEW t \in Threads, At(t, "open")
    PROVE  /\ Target \in Inodes
           /\ name.tmp = NoInode => Target \notin InUse
<1>1. \E u, v \in Threads : \A w \in Threads : w \in {t, u, v}
  BY DEF Threads
<1>2. PICK u, v \in Threads : \A w \in Threads : w \in {t, u, v}
  BY <1>1
<1>3. fd[t] = NoInode
  BY DEF FdInv, At
<1>4. CASE name.tmp = NoInode
  <2>1. InUse \subseteq {NoInode, name.dat, fd[u], fd[v]}
    BY <1>2, <1>3, <1>4 DEF InUse
  <2>2. PICK j \in Inodes : j \notin {name.dat, fd[u], fd[v]}
    <3>1. name.dat \in Inodes \cup {0} /\ fd[u] \in Inodes \cup {0} /\ fd[v] \in Inodes \cup {0}
      BY DEF FileType, NoInode
    <3>2. Inodes \ {name.dat, fd[u], fd[v]} # {}
      BY <3>1, ProcessAssumption
    <3>3. PICK j : j \in Inodes \ {name.dat, fd[u], fd[v]}
      BY <3>2
    <3> QED
      BY <3>3
  <2>3. j \notin InUse
    BY <2>1, <2>2, ProcessAssumption DEF NoInode
  <2> QED
    BY <1>4, <2>3 DEF Target
<1>5. CASE name.tmp # NoInode
  BY <1>5 DEF Target, FileType
<1> QED
  BY <1>4, <1>5

LEMMA FaultsCounted ==
    ASSUME faults \in 0..FaultBound, faults < FaultBound, faults' = faults + 1
    PROVE  faults' \in 0..FaultBound
<1>1. FaultBound \in Nat
  BY ProcessAssumption
<1> QED
  BY <1>1

\* What an open does to the files, and to the thread.
OpenDone(t) ==
    /\ name' = [dat |-> name.dat, tmp |-> Target]
    /\ content' = [content EXCEPT ![Target] = Blank]
    /\ fd' = [fd EXCEPT ![t] = Target]
    /\ short' = short \ {Target} /\ faults' = faults
    /\ pc' = [pc EXCEPT ![t] = "head"]
OpenFailed(t) ==
    /\ UNCHANGED <<name, content, fd, short>>
    /\ faults < FaultBound /\ faults' = faults + 1
    /\ Return(t)

LEMMA OpenFiles ==
    ASSUME FileType, FdInv, NEW t \in Threads, Open(t)
    PROVE  OpenDone(t) \/ OpenFailed(t)
BY DEF Open, OpenDone, OpenFailed, Target, FileType, Fails, Goto

\* Releasing inodes keeps what is in use.
LEMMA ReleaseFiles ==
    ASSUME FileType, Release
    PROVE  /\ content' \in [Inodes -> [head : Versions \cup {Hole}, body : Versions \cup {Hole}]]
           /\ \A i \in Inodes \cap {name'.dat, name'.tmp} : content'[i] = content[i]
           /\ short' \subseteq short
<1>1. Blank \in [head : Versions \cup {Hole}, body : Versions \cup {Hole}]
  BY DEF Blank
<1>2. content' = [i \in Inodes |-> IF i \in InUse' THEN content[i] ELSE Blank]
  BY DEF Release
<1>3. \A i \in Inodes \cap {name'.dat, name'.tmp} : i \in InUse'
  BY DEF InUse
<1> QED
  BY <1>1, <1>2, <1>3 DEF FileType, Release

LEMMA FileStep == ThreadType /\ MemoryType /\ FileType /\ FdInv /\ [Next]_vars => FileType' /\ FdInv'
<1> SUFFICES ASSUME ThreadType, MemoryType, FileType, FdInv, [Next]_vars PROVE FileType' /\ FdInv'
  OBVIOUS
<1>1. ASSUME NEW t \in Threads, Step(t) PROVE FileType' /\ FdInv'
  <2>1. CASE Lock(t) \/ Relock(t) \/ Unlock(t) \/ Work(t)
    BY <2>1 DEF Lock, Relock, Unlock, Work, Change, Finish, Export, files, FileType, FdInv, ThreadType, At, Goto
  <2>2. CASE Open(t)
    <3>1. Target \in Inodes /\ pc[t] = "open"
      BY <2>2, TargetFound DEF Open, At
    <3>2. CASE OpenDone(t)
      <4>1. Blank \in [head : Versions \cup {Hole}, body : Versions \cup {Hole}]
        BY DEF Blank
      <4>2. FileType'
        BY <3>1, <3>2, <4>1 DEF OpenDone, FileType
      <4>3. FdInv'
        BY <3>1, <3>2 DEF OpenDone, FdInv, FileType, ThreadType
      <4> QED
        BY <4>2, <4>3
    <3>3. CASE OpenFailed(t)
      <4>1. FileType'
        BY <3>3, FaultsCounted DEF OpenFailed, FileType
      <4>2. FdInv'
        BY <3>1, <3>3 DEF OpenFailed, FdInv, ThreadType, Return, Goto
      <4> QED
        BY <4>1, <4>2
    <3> QED
      BY <2>2, <3>2, <3>3, OpenFiles
  <2>3. CASE Write(t, "head", "body") \/ Write(t, "body", "rename")
    <3>1. fd[t] \in Inodes
      BY <2>3 DEF Write, At, FdInv
    <3>2. /\ content' \in [Inodes -> [head : Versions \cup {Hole}, body : Versions \cup {Hole}]]
          /\ short' \subseteq Inodes /\ faults' \in 0..FaultBound
      <4>1. CASE UNCHANGED <<short, faults>>
        BY <2>3, <3>1, <4>1 DEF Write, FileType, MemoryType, Fails
      <4>2. CASE Fails("write") /\ short' = short \cup {fd[t]} /\ UNCHANGED content
        BY <3>1, <4>2, FaultsCounted DEF FileType, Fails
      <4> QED
        BY <2>3, <4>1, <4>2 DEF Write
    <3>3. FileType'
      BY <2>3, <3>2 DEF Write, FileType
    <3>4. FdInv'
      BY <2>3 DEF Write, FdInv, ThreadType, Goto, At
    <3> QED
      BY <3>3, <3>4
  <2>4. CASE Rename(t)
    <3>1. faults' \in 0..FaultBound
      <4>1. faults' = faults \/ Fails("rename")
        BY <2>4 DEF Rename
      <4> QED
        BY <4>1, FaultsCounted DEF FileType, Fails
    <3>2. name' \in [dat : Inodes \cup {NoInode}, tmp : Inodes \cup {NoInode}]
      BY <2>4 DEF Rename, FileType, NoInode
    <3>3. fd' = [fd EXCEPT ![t] = NoInode] /\ Release
      BY <2>4 DEF Rename
    <3>4. FileType'
      BY <3>1, <3>2, <3>3, ReleaseFiles DEF FileType
    <3>5. FdInv'
      BY <2>4, <3>3 DEF Rename, FdInv, FileType, ThreadType, Return, Goto, At
    <3> QED
      BY <3>4, <3>5
  <2>5. CASE Shutdown(t)
    BY <2>5, ZenonT(60) DEF Shutdown, Stop, Join, Joined, PastJoin, Shut, Destroy, Wipe, Exit, threads, files, FileType, FdInv, ThreadType, At, Goto
  <2> QED
    BY <1>1, <2>1, <2>2, <2>3, <2>4, <2>5 DEF Step, Save
<1>2. CASE \E c \in Commands : Command(c)
  BY <1>2, ProcessAssumption, ZenonT(60) DEF Command, files, FileType, FdInv, ThreadType, At, Goto
<1>3. CASE Loop \/ Interrupt
  BY <1>3 DEF Loop, Interrupt, files, FileType, FdInv, ThreadType, At, Goto
<1>4. CASE UNCHANGED vars
  BY <1>4 DEF vars, files, threads, FileType, FdInv
<1> QED
  BY <1>1, <1>2, <1>3, <1>4 DEF Next

-----------------------------------------------------------------------------
TypeInv == TypeOK /\ PlaceInv /\ FdInv

LEMMA TypeInit == Init => TypeInv
<1> SUFFICES ASSUME Init PROVE TypeInv
  OBVIOUS
<1>1. ThreadType /\ PlaceInv
  BY DEF Init, ThreadType, PlaceInv, HandlerLabels, MonitorLabels, CallLabels, Labels, Threads
<1>2. FlagType
  BY DEF Init, FlagType
<1>3. MemoryType
  BY ProcessAssumption DEF Init, MemoryType, Versions, Wiped
<1>4. FileType
  <2>1. (CHOOSE j \in Inodes : TRUE) \in Inodes
    BY ProcessAssumption
  <2>2. 1 \in Versions
    BY ProcessAssumption DEF Versions, Wiped
  <2>3. 0 \in 0..FaultBound
    BY ProcessAssumption
  <2>4. content \in [Inodes -> [head : Versions \cup {Hole}, body : Versions \cup {Hole}]]
    BY <2>2 DEF Init, Blank
  <2> QED
    BY <2>1, <2>3, <2>4 DEF Init, FileType, NoInode
<1>5. FdInv
  BY DEF Init, FdInv, Threads
<1> QED
  BY <1>1, <1>2, <1>3, <1>4, <1>5 DEF TypeInv, TypeOK

LEMMA TypeStep == TypeInv /\ [Next]_vars => TypeInv'
BY ThreadStep, FlagStep, MemoryStep, FileStep DEF TypeInv, TypeOK

\* Every variable keeps its type: a save always finds a file to write to, and
\* memory only ever holds a version that a command or the monitor made.
THEOREM TypeCorrect == Spec => []TypeOK
<1>1. TypeInv => TypeOK
  BY DEF TypeInv
<1> QED
  BY <1>1, TypeInit, TypeStep, PTL DEF Spec

-----------------------------------------------------------------------------
(* The shutdown and the lock *)

\* MonitorIsOut, once the process is gone as well: a monitor that is done stays so.
MonitorOut == \A t \in {"cli", "handler"} :
    Shut(t) => pc["monitor"] = "done" \/ \E u \in Threads : pc[u] = "joining"

LEMMA MonitorStep == ThreadType /\ PlaceInv /\ MonitorOut /\ [Next]_vars => MonitorOut'
<1> SUFFICES ASSUME ThreadType, PlaceInv, MonitorOut, [Next]_vars PROVE MonitorOut'
  OBVIOUS
<1> USE DEF ThreadType, PlaceInv, HandlerLabels, ShutLabels, CallLabels, Labels, Threads, At, Goto,
            MonitorOut, Shut, PastJoin
<1>1. ASSUME NEW t \in Threads, Step(t) PROVE MonitorOut'
  <2>1. CASE Lock(t) \/ Relock(t) \/ Unlock(t)
    BY <2>1 DEF Lock, Relock, Unlock
  <2>2. CASE Work(t)
    BY <2>2 DEF Work, Change, Finish, Export
  <2>3. CASE Open(t) \/ Rename(t)
    BY <2>3 DEF Open, Rename, Return
  <2>4. CASE Write(t, "head", "body") \/ Write(t, "body", "rename")
    BY <2>4 DEF Write
  <2>5. CASE Shutdown(t)
    BY <2>5 DEF Shutdown, Stop, Join, Joined, PastJoin, Shut, Destroy, Wipe, Exit, threads
  <2> QED
    BY <1>1, <2>1, <2>2, <2>3, <2>4, <2>5 DEF Step, Save
<1>2. CASE \E c \in Commands : Command(c)
  BY <1>2, ProcessAssumption DEF Command
<1>3. CASE Loop \/ Interrupt
  BY <1>3 DEF Loop, Interrupt
<1>4. CASE UNCHANGED vars
  BY <1>4 DEF vars, threads
<1> QED
  BY <1>1, <1>2, <1>3, <1>4 DEF Next

\* The monitor never touches the catalog again once a shutdown is past its join,
\* unless that shutdown overtook another one that still waits in pthread_join.
THEOREM MonitorIsOutAlways == Spec => []MonitorIsOut
<1>1. Init => MonitorOut
  BY DEF Init, MonitorOut, Shut, PastJoin, Threads
<1>2. TypeInv /\ MonitorOut /\ [Next]_vars => MonitorOut'
  BY MonitorStep DEF TypeInv, TypeOK
<1>3. MonitorOut => MonitorIsOut
  BY DEF MonitorOut, MonitorIsOut, Shut, PastJoin
<1> QED
  BY <1>1, <1>2, <1>3, TypeInit, TypeStep, PTL DEF Spec

HoldLabels == {"work", "relock", "open", "head", "body", "rename", "unlock"}

\* Without a handler and without a sandbox, a call works on the catalog with the
\* lock, and a shutdown alone with it.
LockInv == careful =>
    /\ pc["handler"] = "idle"
    /\ call["cli"] # "sandbox"
    /\ \A t \in {"cli", "monitor"} :
          pc[t] \in HoldLabels /\ call[t] # "shutdown" => lock = t
    /\ lock = "gone" => call["cli"] = "shutdown" /\ pc["monitor"] = "done"

LEMMA LockStep ==
    ThreadType /\ PlaceInv /\ MonitorOut /\ LockInv /\ [Next]_vars => LockInv'
<1> SUFFICES ASSUME ThreadType, PlaceInv, MonitorOut, LockInv, [Next]_vars, careful'
             PROVE  LockInv'
  BY DEF LockInv
<1> USE DEF ThreadType, PlaceInv, HandlerLabels, MonitorLabels, ShutLabels, CallLabels, Labels,
            Threads, At, Goto, LockInv, HoldLabels
<1>1. ASSUME NEW t \in Threads, Step(t) PROVE LockInv'
  <2>1. CASE Lock(t) \/ Relock(t) \/ Unlock(t)
    BY <2>1, ZenonT(60) DEF Lock, Relock, Unlock
  <2>2. CASE Work(t)
    BY <2>2, ZenonT(60) DEF Work, Change, Finish, Export
  <2>3. CASE Open(t) \/ Rename(t)
    BY <2>3, ZenonT(60) DEF Open, Rename, Return
  <2>4. CASE Write(t, "head", "body") \/ Write(t, "body", "rename")
    BY <2>4, ZenonT(60) DEF Write
  <2>5. CASE Shutdown(t)
    BY <2>5, ZenonT(60) DEF Shutdown, Stop, Join, Joined, PastJoin, Shut, Destroy, Wipe, Exit, threads, MonitorOut
  <2> QED
    BY <1>1, <2>1, <2>2, <2>3, <2>4, <2>5 DEF Step, Save
<1>2. CASE \E c \in Commands : Command(c)
  BY <1>2, ProcessAssumption, ZenonT(60) DEF Command
<1>3. CASE Loop \/ Interrupt
  BY <1>3, ZenonT(60) DEF Loop, Interrupt
<1>4. CASE UNCHANGED vars
  BY <1>4 DEF vars, threads
<1> QED
  BY <1>1, <1>2, <1>3, <1>4 DEF Next

\* One thread at a time works on the catalog.
LEMMA OneAtATime ==
    ASSUME ThreadType, PlaceInv, MonitorOut, LockInv, careful,
           NEW t \in Threads, pc[t] \in HoldLabels \cup {"wipe"},
           NEW u \in Threads, pc[u] \in HoldLabels \cup {"wipe"}
    PROVE  t = u
BY DEF ThreadType, PlaceInv, HandlerLabels, MonitorLabels, ShutLabels, CallLabels, Threads, MonitorOut, LockInv,
       HoldLabels, Shut, PastJoin

\* What holds of the threads, whatever is in the files.
SafeInv == TypeInv /\ MonitorOut /\ LockInv

LEMMA SafeInit == Init => SafeInv
<1> SUFFICES ASSUME Init PROVE SafeInv
  OBVIOUS
<1>1. MonitorOut
  BY DEF Init, MonitorOut, Shut, PastJoin, Threads
<1>2. LockInv
  BY DEF Init, LockInv, HoldLabels, Threads
<1> QED
  BY <1>1, <1>2, TypeInit DEF SafeInv

LEMMA SafeStep == SafeInv /\ [Next]_vars => SafeInv'
BY TypeStep, MonitorStep, LockStep DEF SafeInv, TypeInv, TypeOK

\* Memory changes under the hands of nobody but the one that works on it.
LEMMA MemoryIsStill ==
    ASSUME SafeInv, careful, [Next]_vars, NEW t \in Threads, Saving(t)
    PROVE  mem' = mem
<1>1. ASSUME NEW u \in Threads, Change(u) \/ Wipe(u) PROVE FALSE
  <2>1. pc[u] \in {"work", "wipe"}
    BY <1>1 DEF Change, Wipe, At
  <2>2. t = u
    BY <2>1, OneAtATime DEF SafeInv, TypeInv, TypeOK, Saving, HoldLabels
  <2> QED
    BY <2>1, <2>2 DEF Saving
<1>2. ASSUME NEW u \in Threads, Step(u) PROVE mem' = mem
  <2>1. CASE Lock(u) \/ Relock(u) \/ Unlock(u) \/ Finish(u) \/ Export(u)
    BY <2>1 DEF Lock, Relock, Unlock, Finish, Export
  <2>2. CASE Save(u)
    BY <2>2 DEF Save, Open, Rename, Write
  <2>3. CASE Stop(u) \/ Join(u) \/ Joined(u) \/ Destroy(u) \/ Exit(u)
    BY <2>3 DEF Stop, Join, Joined, Destroy, Exit
  <2> QED
    BY <1>1, <1>2, <2>1, <2>2, <2>3 DEF Step, Work, Shutdown
<1>3. CASE (\E c \in Commands : Command(c)) \/ Loop \/ Interrupt \/ UNCHANGED vars
  BY <1>3 DEF Command, Loop, Interrupt, vars
<1> QED
  BY <1>2, <1>3 DEF Next

\* While a thread saves, no other one changes the catalog under its hands.
THEOREM SavesAreUndisturbed == Spec => NoChangeWhileSaving
<1>1. SafeInv /\ [Next]_vars =>
        [careful => \A t \in Threads : Saving(t) /\ Saving(t)' => mem' = mem]_vars
  BY MemoryIsStill
<1> QED
  BY <1>1, SafeInit, SafeStep, PTL DEF Spec, NoChangeWhileSaving

-----------------------------------------------------------------------------
(* The image *)

Writing(t) == pc[t] \in {"head", "body", "rename"}

\* Memory holds all that was made and reported, until it is wiped.
MemInv == careful /\ pc["cli"] # "exit" => mem >= 1 /\ made <= mem /\ told <= mem

\* A writer writes to catalog.dat.tmp, which is never the file of catalog.dat.
TmpInv == careful =>
    /\ \A t \in Threads : Writing(t) => fd[t] = name.tmp
    /\ name.tmp # NoInode => name.tmp # name.dat

\* What has been written of the new image is what memory holds, if all was written.
PartInv == careful => \A t \in Threads : fd[t] \notin short =>
    /\ pc[t] \in {"body", "rename"} => content[fd[t]].head = mem
    /\ pc[t] = "rename" => content[fd[t]].body = mem

\* catalog.dat is whole and has what was reported, unless a write came short.
DatInv == careful =>
    /\ name.dat \notin {NoInode} \cup short =>
          Whole(name.dat) /\ content[name.dat].head >= 1 /\ content[name.dat].head >= told
    /\ told # Wiped => name.dat # NoInode

ImageInv == MemInv /\ TmpInv /\ PartInv /\ DatInv

LEMMA ImageInit == Init => ImageInv
<1> SUFFICES ASSUME Init PROVE ImageInv
  OBVIOUS
<1>1. (CHOOSE j \in Inodes : TRUE) \in Inodes
  BY ProcessAssumption
<1>2. MemInv
  BY DEF Init, MemInv, Wiped
<1>3. TmpInv /\ PartInv
  BY DEF Init, TmpInv, PartInv, Writing, Threads
<1>4. DatInv
  BY <1>1 DEF Init, DatInv, Whole, Wiped, NoInode, Hole
<1> QED
  BY <1>2, <1>3, <1>4 DEF ImageInv

\* Two threads never write at once.
LEMMA OneWriter ==
    ASSUME SafeInv, careful, NEW t \in Threads, Saving(t), NEW u \in Threads, Saving(u)
    PROVE  t = u
BY OneAtATime DEF SafeInv, TypeInv, TypeOK, Saving, HoldLabels

\* Memory is not wiped while a thread works on it.
LEMMA NotWiped ==
    ASSUME SafeInv, careful, NEW t \in Threads, pc[t] \in HoldLabels
    PROVE  pc["cli"] # "exit"
<1> SUFFICES ASSUME pc["cli"] = "exit" PROVE FALSE
  OBVIOUS
<1>1. call["cli"] = "shutdown"
  BY DEF SafeInv, TypeInv, PlaceInv, CallLabels
<1>2. pc["handler"] = "idle"
  BY DEF SafeInv, LockInv
<1>3. pc["monitor"] = "done"
  BY <1>1, <1>2 DEF SafeInv, TypeInv, PlaceInv, MonitorLabels, MonitorOut, Shut, PastJoin, Threads
<1> QED
  BY <1>2, <1>3 DEF Threads, HoldLabels

\* What steps that are not of a save keep.
LEMMA ImageKept ==
    ASSUME SafeInv, ImageInv, careful, careful', UNCHANGED <<mem, files, made, told>>,
           \A t \in Threads : Writing(t)' => pc'[t] = pc[t],
           pc["cli"] = "exit" => pc'["cli"] = "exit"
    PROVE  ImageInv'
<1>1. MemInv'
  BY DEF ImageInv, MemInv
<1>2. TmpInv'
  BY DEF ImageInv, TmpInv, files, Writing
<1>3. PartInv'
  BY DEF ImageInv, PartInv, files, Writing
<1>4. DatInv'
  BY DEF ImageInv, DatInv, files, Whole
<1> QED
  BY <1>1, <1>2, <1>3, <1>4 DEF ImageInv

LEMMA ChangeImage ==
    ASSUME SafeInv, ImageInv, careful, careful', NEW t \in Threads, Change(t)
    PROVE  ImageInv'
<1>0. pc[t] = "work" /\ pc' = [pc EXCEPT ![t] = "open"] /\ pc \in [Threads -> Labels]
  BY DEF Change, At, Goto, SafeInv, TypeInv, TypeOK, ThreadType
<1>1. mem >= 1 /\ made <= mem /\ told <= mem
  BY <1>0, NotWiped DEF HoldLabels, ImageInv, MemInv
<1>2. MemoryType
  BY DEF SafeInv, TypeInv, TypeOK
<1>3. MemInv'
  BY <1>1, <1>2 DEF Change, MemInv, MemoryType, Versions, Wiped
<1>4. ASSUME NEW u \in Threads, Saving(u) PROVE FALSE
  BY <1>0, <1>4, OneAtATime DEF SafeInv, TypeInv, TypeOK, Saving, HoldLabels
<1>5. \A u \in Threads : ~Writing(u)'
  BY <1>0, <1>4 DEF Saving, Writing
<1>6. TmpInv' /\ PartInv'
  BY <1>5 DEF Change, files, ImageInv, TmpInv, PartInv, Writing
<1>7. DatInv'
  BY DEF Change, files, ImageInv, DatInv, Whole
<1> QED
  BY <1>3, <1>6, <1>7 DEF ImageInv

LEMMA OpenImage ==
    ASSUME SafeInv, ImageInv, careful, careful', NEW t \in Threads, Open(t)
    PROVE  ImageInv'
<1>0. pc[t] = "open" /\ pc \in [Threads -> Labels]
  BY DEF Open, At, SafeInv, TypeInv, TypeOK, ThreadType
<1>1. FileType /\ FdInv /\ At(t, "open")
  BY DEF SafeInv, TypeInv, TypeOK, Open
<1>2. Target \in Inodes /\ Target # NoInode /\ Target # name.dat
  <2>1. Target \in Inodes /\ (name.tmp = NoInode => Target \notin InUse)
    BY <1>1, TargetFound
  <2>2. name.tmp # NoInode => Target # name.dat
    BY DEF Target, ImageInv, TmpInv
  <2> QED
    BY <2>1, <2>2, ProcessAssumption DEF InUse, NoInode
<1>3. \A u \in Threads : Saving(u) => u = t
  BY <1>0, OneWriter DEF Saving
<1>4. UNCHANGED <<mem, made, told>>
  BY DEF Open
<1>5. CASE OpenDone(t)
  <2>1. \A u \in Threads : Writing(u)' => u = t
    BY <1>0, <1>3, <1>5 DEF OpenDone, Saving, Writing
  <2>2. MemInv'
    BY <1>0, <1>4, <1>5 DEF OpenDone, ImageInv, MemInv
  <2>3. TmpInv'
    <3>1. fd'[t] = Target
      BY <1>1, <1>5 DEF OpenDone, FileType
    <3> QED
      BY <1>2, <1>5, <2>1, <3>1 DEF OpenDone, TmpInv
  <2>4. PartInv'
    BY <1>0, <1>5, <2>1 DEF OpenDone, PartInv, Writing
  <2>5. DatInv'
    <3>1. name.dat \notin {NoInode} \cup short => content'[name.dat] = content[name.dat]
      BY <1>1, <1>2, <1>5 DEF OpenDone, FileType
    <3>2. name'.dat = name.dat /\ (name.dat \notin short' => name.dat \notin short)
      BY <1>2, <1>5 DEF OpenDone
    <3> QED
      BY <1>4, <3>1, <3>2 DEF ImageInv, DatInv, Whole
  <2> QED
    BY <2>2, <2>3, <2>4, <2>5 DEF ImageInv
<1>6. CASE OpenFailed(t)
  <2>1. \A u \in Threads : ~Writing(u)'
    BY <1>0, <1>3, <1>6 DEF OpenFailed, Return, Goto, Saving, Writing
  <2>2. MemInv'
    BY <1>0, <1>4, <1>6 DEF OpenFailed, Return, Goto, ImageInv, MemInv
  <2>3. TmpInv' /\ PartInv'
    BY <1>6, <2>1 DEF OpenFailed, ImageInv, TmpInv, PartInv, Writing
  <2>4. DatInv'
    BY <1>4, <1>6 DEF OpenFailed, ImageInv, DatInv, Whole
  <2> QED
    BY <2>2, <2>3, <2>4 DEF ImageInv
<1> QED
  BY <1>1, <1>5, <1>6, OpenFiles

LEMMA WriteImage ==
    ASSUME SafeInv, ImageInv, careful, careful', NEW t \in Threads,
           Write(t, "head", "body") \/ Write(t, "body", "rename")
    PROVE  ImageInv'
<1>0. /\ pc[t] \in {"head", "body"} /\ pc \in [Threads -> Labels]
      /\ pc' = [pc EXCEPT ![t] = IF pc[t] = "head" THEN "body" ELSE "rename"]
  BY DEF Write, At, Goto, SafeInv, TypeInv, TypeOK, ThreadType
<1>1. FileType /\ FdInv /\ MemoryType
  BY DEF SafeInv, TypeInv, TypeOK
<1>2. fd[t] \in Inodes /\ fd[t] = name.tmp /\ fd[t] # name.dat /\ fd[t] # NoInode
  BY <1>0, <1>1, ProcessAssumption DEF FdInv, ImageInv, TmpInv, Writing, NoInode
<1>3. UNCHANGED <<mem, made, told, name, fd>>
  BY DEF Write
<1>4. \A u \in Threads : Writing(u)' => u = t
  BY <1>0, OneWriter DEF Saving, Writing
<1>5. MemInv' /\ TmpInv'
  BY <1>0, <1>2, <1>3, <1>4 DEF ImageInv, MemInv, TmpInv
<1>6. CASE UNCHANGED content /\ short' = short \cup {fd[t]}
  <2>1. PartInv'
    BY <1>3, <1>4, <1>6 DEF PartInv, Writing
  <2>2. DatInv'
    BY <1>2, <1>3, <1>6 DEF ImageInv, DatInv, Whole
  <2> QED
    BY <1>5, <2>1, <2>2 DEF ImageInv
<1>7. CASE UNCHANGED <<short, faults>>
  <2>1. /\ content'[fd[t]].head = IF pc[t] = "head" THEN mem ELSE content[fd[t]].head
        /\ pc[t] = "body" => content'[fd[t]].body = mem
        /\ \A i \in Inodes : i # fd[t] => content'[i] = content[i]
    <3>1. ~Fails("write")
      BY <1>1, <1>7 DEF Fails, FileType
    <3> QED
      BY <1>0, <1>1, <1>2, <3>1 DEF Write, At, FileType
  <2>2. PartInv'
    BY <1>0, <1>3, <1>4, <1>7, <2>1 DEF ImageInv, PartInv, Writing
  <2>3. DatInv'
    <3>1. name.dat # NoInode => content'[name.dat] = content[name.dat]
      BY <1>1, <1>2, <2>1 DEF FileType
    <3> QED
      BY <1>3, <1>7, <3>1 DEF ImageInv, DatInv, Whole
  <2> QED
    BY <1>5, <2>2, <2>3 DEF ImageInv
<1> QED
  BY <1>6, <1>7 DEF Write

LEMMA RenameImage ==
    ASSUME SafeInv, ImageInv, careful, careful', NEW t \in Threads, Rename(t)
    PROVE  ImageInv'
<1>0. /\ pc[t] = "rename" /\ pc \in [Threads -> Labels]
      /\ pc' = [pc EXCEPT ![t] = IF call[t] = "shutdown" THEN "wipe" ELSE "work"]
  BY DEF Rename, Return, At, Goto, SafeInv, TypeInv, TypeOK, ThreadType
<1>1. FileType /\ FdInv /\ MemoryType
  BY DEF SafeInv, TypeInv, TypeOK
<1>2. name.tmp \in Inodes /\ fd[t] = name.tmp /\ name.tmp # NoInode
  BY <1>0, <1>1, ProcessAssumption DEF FdInv, ImageInv, TmpInv, Writing, NoInode
<1>3. /\ UNCHANGED <<mem, made>> /\ name'.tmp = NoInode
      /\ \/ name'.dat = name.tmp /\ told' \in {made, told}
         \/ name'.dat = name.dat /\ told' = told
  BY <1>1, <1>2 DEF Rename, FileType
<1>4. /\ \A i \in Inodes \cap {name'.dat} : content'[i] = content[i]
      /\ short' \subseteq short
      /\ name'.dat \in short => name'.dat \in short'
  BY <1>1, ReleaseFiles DEF Rename, Release, InUse
<1>5. \A u \in Threads : ~Writing(u)'
  BY <1>0, OneWriter DEF Saving, Writing
<1>6. mem >= 1 /\ made <= mem /\ told <= mem
  BY <1>0, NotWiped DEF HoldLabels, ImageInv, MemInv
<1>7. name.tmp \notin short => content[name.tmp].head = mem /\ content[name.tmp].body = mem
  BY <1>0, <1>2 DEF ImageInv, PartInv
<1>8. MemInv'
  BY <1>3, <1>6 DEF MemInv
<1>9. TmpInv' /\ PartInv'
  BY <1>3, <1>5 DEF TmpInv, PartInv, Writing
<1>10. DatInv'
  <2>1. CASE name'.dat = name.tmp /\ told' \in {made, told}
    <3>1. content'[name.tmp] = content[name.tmp]
      BY <1>2, <1>4, <2>1
    <3>2. made \in Int /\ told \in Int /\ mem \in Int
      BY <1>1, ProcessAssumption DEF MemoryType, Versions, Wiped
    <3> QED
      BY <1>2, <1>3, <1>4, <1>6, <1>7, <2>1, <3>1, <3>2 DEF DatInv, Whole, Hole, Wiped
  <2>2. CASE name'.dat = name.dat /\ told' = told
    <3>1. name.dat # NoInode => content'[name.dat] = content[name.dat]
      BY <1>1, <1>4, <2>2 DEF FileType
    <3> QED
      BY <1>4, <2>2, <3>1 DEF ImageInv, DatInv, Whole
  <2> QED
    BY <1>3, <2>1, <2>2
<1> QED
  BY <1>8, <1>9, <1>10 DEF ImageInv

LEMMA WipeImage ==
    ASSUME SafeInv, ImageInv, careful, careful', NEW t \in Threads, Wipe(t)
    PROVE  ImageInv'
<1>0. pc[t] = "wipe" /\ pc' = [pc EXCEPT ![t] = "exit"] /\ pc \in [Threads -> Labels]
  BY DEF Wipe, At, Goto, SafeInv, TypeInv, TypeOK, ThreadType
<1>1. t = "cli"
  BY <1>0 DEF SafeInv, TypeInv, PlaceInv, LockInv, MonitorLabels, Threads
<1>2. MemInv'
  BY <1>0, <1>1 DEF MemInv, Threads
<1>3. \A u \in Threads : ~Writing(u)'
  BY <1>0, OneAtATime DEF SafeInv, TypeInv, TypeOK, Writing, HoldLabels
<1>4. UNCHANGED <<name, content, fd, short, told>>
  BY DEF Wipe, files
<1>5. TmpInv' /\ PartInv'
  BY <1>3, <1>4 DEF ImageInv, TmpInv, PartInv, Writing
<1>6. DatInv'
  BY <1>4 DEF ImageInv, DatInv, Whole
<1> QED
  BY <1>2, <1>5, <1>6 DEF ImageInv

LEMMA ImageStep == SafeInv /\ ImageInv /\ [Next]_vars => ImageInv'
<1> SUFFICES ASSUME SafeInv, ImageInv, [Next]_vars PROVE ImageInv'
  OBVIOUS
<1>1. CASE ~careful'
  BY <1>1 DEF ImageInv, MemInv, TmpInv, PartInv, DatInv
<1>2. CASE careful' /\ ~careful
  <2>1. ASSUME NEW t \in Threads, Step(t) PROVE careful' = careful
    BY <2>1 DEF Step, Lock, Relock, Unlock, Work, Change, Finish, Export, Save, Open, Write, Rename,
                Shutdown, Stop, Join, Joined, PastJoin, Shut, Destroy, Wipe, Exit
  <2> QED
    BY <1>2, <2>1 DEF Next, Command, Loop, Interrupt, vars
<1>3. CASE careful' /\ careful
  <2> USE <1>3
  <2>0. pc \in [Threads -> Labels]
    BY DEF SafeInv, TypeInv, TypeOK, ThreadType
  <2>1. ASSUME NEW t \in Threads, Step(t) PROVE ImageInv'
    <3>1. CASE Lock(t) \/ Relock(t) \/ Unlock(t)
      BY <2>0, <3>1, ImageKept DEF Lock, Relock, Unlock, Goto, At, Writing, Threads
    <3>2. CASE Finish(t) \/ Export(t)
      BY <2>0, <3>2, ImageKept DEF Finish, Export, Goto, At, Writing, Threads
    <3>3. CASE Stop(t) \/ Join(t) \/ Joined(t) \/ Destroy(t) \/ Exit(t)
      BY <2>0, <3>3, ImageKept DEF Stop, Join, Joined, Destroy, Exit, Goto, At, Writing, Threads, threads
    <3> QED
      BY <2>1, <3>1, <3>2, <3>3, ChangeImage, OpenImage, WriteImage, RenameImage, WipeImage
         DEF Step, Work, Save, Shutdown
  <2>2. CASE \E c \in Commands : Command(c)
    BY <2>0, <2>2, ImageKept, ProcessAssumption DEF Command, Goto, At, Writing, Threads
  <2>3. CASE Loop \/ Interrupt
    BY <2>0, <2>3, ImageKept DEF Loop, Interrupt, Goto, At, Writing, Threads
  <2>4. CASE UNCHANGED vars
    BY <2>4, ImageKept DEF vars, threads, files, Writing
  <2> QED
    BY <2>1, <2>2, <2>3, <2>4 DEF Next
<1> QED
  BY <1>1, <1>2, <1>3

Inv == SafeInv /\ ImageInv

LEMMA InvHolds == Spec => []Inv
<1>1. Init => Inv
  BY SafeInit, ImageInit DEF Inv
<1>2. Inv /\ [Next]_vars => Inv'
  BY SafeStep, ImageStep DEF Inv
<1> QED
  BY <1>1, <1>2, PTL DEF Spec

\* As long as nobody works without the lock, catalog.dat is at any moment an
\* image that a load accepts, and never that of a wiped catalog, whatever save fails;
\* excepted is an image in which a write came short.
THEOREM DatIsAlwaysWhole == Spec => []DatIsWhole
<1>1. Inv => DatIsWhole
  <2> SUFFICES ASSUME Inv, careful, name.dat \notin {NoInode} \cup short
               PROVE  Whole(name.dat) /\ content[name.dat].head # Wiped
    BY DEF DatIsWhole
  <2> QED
    BY DEF Inv, ImageInv, DatInv, Wiped
<1> QED
  BY <1>1, InvHolds, PTL

\* What a command has reported as saved is in catalog.dat, whatever save fails, the
\* image in which a write came short excepted.
THEOREM ReportsAreSaved == Spec => []ReportedIsSaved
<1>1. Inv => ReportedIsSaved
  BY DEF Inv, ImageInv, DatInv, ReportedIsSaved
<1> QED
  BY <1>1, InvHolds, PTL

-----------------------------------------------------------------------------
(* Who waits for whom, handler and sandbox included *)

\* Between its lock and its unlock; a sandbox or a shutdown at the same labels is not.
Inside(t) == pc[t] \in HoldLabels /\ call[t] \in {"change", "export"}

\* Until a shutdown destroys it, the lock belongs to the call that is inside, if any.
OwnerInv ==
    /\ pc["cli"] \in {"lock", "relock", "unlock"} => call["cli"] \in {"change", "export"}
    /\ lock \in Threads => lock # "handler" /\ Inside(lock)
    /\ \A t \in Threads : Inside(t) /\ lock # "gone" => lock = t

LEMMA OwnerStep == ThreadType /\ PlaceInv /\ OwnerInv /\ [Next]_vars => OwnerInv'
<1> SUFFICES ASSUME ThreadType, PlaceInv, OwnerInv, [Next]_vars PROVE OwnerInv'
  OBVIOUS
<1> USE DEF ThreadType, PlaceInv, HandlerLabels, MonitorLabels, ShutLabels, CallLabels, Labels,
            Threads, At, Goto, OwnerInv, Inside, HoldLabels
<1>1. ASSUME NEW t \in Threads, Step(t) PROVE OwnerInv'
  <2>1. CASE Lock(t) \/ Relock(t) \/ Unlock(t)
    BY <2>1 DEF Lock, Relock, Unlock
  <2>2. CASE Work(t)
    BY <2>2 DEF Work, Change, Finish, Export
  <2>3. CASE Open(t) \/ Rename(t)
    BY <2>3 DEF Open, Rename, Return
  <2>4. CASE Write(t, "head", "body") \/ Write(t, "body", "rename")
    BY <2>4 DEF Write
  <2>5. CASE Shutdown(t)
    BY <2>5 DEF Shutdown, Stop, Join, Joined, PastJoin, Shut, Destroy, Wipe, Exit, threads
  <2> QED
    BY <1>1, <2>1, <2>2, <2>3, <2>4, <2>5 DEF Step, Save
<1>2. CASE \E c \in Commands : Command(c)
  BY <1>2, ProcessAssumption DEF Command
<1>3. CASE Loop \/ Interrupt
  BY <1>3 DEF Loop, Interrupt
<1>4. CASE UNCHANGED vars
  BY <1>4 DEF vars, threads
<1> QED
  BY <1>1, <1>2, <1>3, <1>4 DEF Next

LEMMA OwnerHolds == Spec => [](ThreadType /\ PlaceInv /\ OwnerInv)
<1>1. Init => ThreadType /\ PlaceInv /\ OwnerInv
  <2>1. Init => OwnerInv
    BY DEF Init, OwnerInv, Inside, HoldLabels, Threads
  <2> QED
    BY <2>1, TypeInit DEF TypeInv, TypeOK
<1> QED
  BY <1>1, ThreadStep, OwnerStep, PTL DEF Spec

\* g_monitor.lock keeps the calls apart that take it, whatever the handler and the
\* sandbox do without it, as long as no shutdown has destroyed it.
THEOREM LockExcludes ==
    Spec => [](lock # "gone" => \A t, u \in Threads : Inside(t) /\ Inside(u) => t = u)
<1>1. OwnerInv => (lock # "gone" => \A t, u \in Threads : Inside(t) /\ Inside(u) => t = u)
  BY DEF OwnerInv
<1> QED
  BY <1>1, OwnerHolds, PTL

\* What can take its next step, what waits for another thread, and for which.
CanGo(t) ==
    \/ pc[t] \in {"work", "unlock", "open", "head", "body", "rename", "stop", "join", "destroy",
                  "wipe", "exit", "loop"}
    \/ pc[t] \in {"lock", "relock"} /\ lock \in {"free", "gone"}
    \/ pc[t] = "joining" /\ pc["monitor"] = "done"
Waits(t) == pc[t] \in {"lock", "relock", "joining"}
Ahead(t) == IF pc[t] = "joining" THEN "monitor" ELSE lock

\* An export that waits for the lock it holds.
Hung == pc["cli"] = "relock" /\ lock = "cli"

\* No thread waits in a circle: whoever waits for the lock or in pthread_join can go
\* on, or the thread it waits for can, or the one that one waits for.  The one
\* exception is an export that takes its own lock again.  With the fairness, this is
\* what ChangesEnd and ShutdownEnds rest on.
THEOREM NobodyWaitsInVain ==
    Spec => [](~Hung => \A t \in Threads : Waits(t) =>
                  CanGo(t) \/ CanGo(Ahead(t)) \/ CanGo(Ahead(Ahead(t))))
<1>1. ASSUME ThreadType, PlaceInv, OwnerInv, ~Hung, NEW t \in Threads, Waits(t)
      PROVE  CanGo(t) \/ CanGo(Ahead(t)) \/ CanGo(Ahead(Ahead(t)))
  <2>1. ASSUME lock \in Threads PROVE CanGo(lock)
    BY <1>1, <2>1 DEF ThreadType, PlaceInv, MonitorLabels, OwnerInv, Inside, HoldLabels, Threads,
                      Hung, CanGo
  <2>2. lock \in Threads \/ lock \in {"free", "gone"}
    BY <1>1 DEF ThreadType
  <2>3. CASE pc[t] \in {"lock", "relock"}
    BY <2>1, <2>2, <2>3 DEF CanGo, Ahead
  <2>4. CASE pc[t] = "joining"
    <3>1. Ahead(t) = "monitor"
      BY <2>4 DEF Ahead
    <3>2. CASE pc["monitor"] = "lock"
      <4>1. Ahead("monitor") = lock
        BY <3>2 DEF Ahead
      <4> QED
        BY <2>1, <2>2, <3>1, <3>2, <4>1 DEF CanGo
    <3>3. CASE pc["monitor"] # "lock"
      BY <1>1, <2>4, <3>1, <3>3 DEF PlaceInv, MonitorLabels, CanGo
    <3> QED
      BY <3>2, <3>3
  <2> QED
    BY <1>1, <2>3, <2>4 DEF Waits
<1>2. ThreadType /\ PlaceInv /\ OwnerInv =>
        (~Hung => \A t \in Threads : Waits(t) =>
             CanGo(t) \/ CanGo(Ahead(t)) \/ CanGo(Ahead(Ahead(t))))
  BY <1>1
<1> QED
  BY <1>2, OwnerHolds, PTL

\* An export that reaches the registered vaults never comes back, whatever the other
\* threads do: nobody but the export itself could free the lock, and not even a
\* shutdown destroys it.
THEOREM ExportsHangForGood ==
    Spec => /\ [](pc["cli"] = "relock" /\ lock # "gone" => Hung)
            /\ [][Hung => Hung']_vars
<1>1. OwnerInv => (pc["cli"] = "relock" /\ lock # "gone" => Hung)
  BY DEF OwnerInv, Inside, HoldLabels, Threads, Hung
<1>2. ASSUME ThreadType, PlaceInv, OwnerInv, Next, Hung
      PROVE  Hung'
  <2> USE <1>2 DEF ThreadType, PlaceInv, HandlerLabels, MonitorLabels, Threads, At, Goto,
                   OwnerInv, Inside, HoldLabels, Hung
  <2>1. ASSUME NEW t \in Threads, Step(t) PROVE Hung'
    <3>1. CASE Lock(t) \/ Relock(t) \/ Unlock(t)
      BY <3>1 DEF Lock, Relock, Unlock
    <3>2. CASE Work(t)
      BY <3>2 DEF Work, Change, Finish, Export
    <3>3. CASE Save(t)
      BY <3>3 DEF Save, Open, Write, Rename, Return
    <3>4. CASE Shutdown(t)
      BY <3>4 DEF Shutdown, Stop, Join, Joined, PastJoin, Shut, Destroy, Wipe, Exit, threads
    <3> QED
      BY <2>1, <3>1, <3>2, <3>3, <3>4 DEF Step
  <2>2. CASE (\E c \in Commands : Command(c)) \/ Loop \/ Interrupt
    BY <2>2 DEF Command, Loop, Interrupt
  <2> QED
    BY <2>1, <2>2 DEF Next
<1>3. ThreadType /\ PlaceInv /\ OwnerInv /\ [Next]_vars => [Hung => Hung']_vars
  BY <1>2
<1> QED
  BY <1>1, <1>3, OwnerHolds, PTL DEF Spec
=============================================================================
