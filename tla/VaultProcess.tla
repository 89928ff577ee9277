---------------------------- MODULE VaultProcess ----------------------------
(***************************************************************************)
(* The threads of one run of the program and the catalog they share: the   *)
(* command loop of src/main.rs, the monitor thread of c_src/vault_monitor.c *)
(* and the Ctrl+C handler, with g_monitor.lock, the memory of the catalog  *)
(* and the files catalog.dat and catalog.dat.tmp, step by step.            *)
(*                                                                         *)
(* What a call does to the catalog is module VaultCatalog; here a change   *)
(* only makes a new version of it.                                         *)
(***************************************************************************)
EXTENDS Integers

CONSTANTS
    MaxVersion,  \* changes are counted up to this bound
    Inodes,      \* the files the directory of the catalog may hold
    Commands,    \* what the user may type: "change", "export", "sandbox", "quit"
    Faults,      \* what may fail in a save: "open", "write", "rename"
    FaultBound   \* and how often in one behaviour

ASSUME ProcessAssumption ==
    /\ MaxVersion \in Nat \ {0}
    /\ Inodes \subseteq Nat \ {0}
    /\ \A i, j, k \in Inodes \cup {0} : Inodes \ {i, j, k} # {}
    /\ Commands \subseteq {"change", "export", "sandbox", "quit"}
    /\ FaultBound \in Nat

VARIABLES
    pc,        \* where each thread is
    call,      \* what each thread runs: "change", "export", "sandbox" or "shutdown"
    lock,      \* g_monitor.lock: its owner, "free", or "gone" once destroyed
    running,   \* g_monitor.running
    alive,     \* the process has not exited
    mem,       \* the version of g_catalog in memory
    name,      \* the inode each file name stands for
    content,   \* what each inode holds
    fd,        \* the inode each thread writes to
    short,     \* the inodes with an image that a write did not complete (history)
    faults,    \* how many calls of the system have failed
    made,      \* the version the last command made
    told,      \* the last version a command reported as saved
    careful    \* nobody has worked on the catalog without the lock (history)

threads == <<pc, call>>
files   == <<name, content, fd, short, faults>>
vars    == <<threads, lock, running, alive, mem, files, made, told, careful>>

Threads == {"cli", "monitor", "handler"}

\* A catalog of zeroes, or one built anew upon it.
Wiped == 0
\* Bytes that were never written, or were truncated away.
Hole  == -1

NoInode == 0
Blank   == [head |-> Hole, body |-> Hole]

\* What catalog_load accepts: header and records of one and the same catalog.
Whole(i) == content[i].head # Hole /\ content[i].head = content[i].body

Goto(t, l) == pc' = [pc EXCEPT ![t] = l]
At(t, l)   == alive /\ pc[t] = l

\* A call of the system fails.
Fails(f) == f \in Faults /\ faults < FaultBound /\ faults' = faults + 1

-----------------------------------------------------------------------------
(* The lock *)

\* Faulty variant: the lock is taken whoever holds it.
LockAnyway(t) ==
    /\ At(t, "lock")
    /\ lock' = IF lock = "gone" THEN "gone" ELSE t
    /\ Goto(t, "work")
    /\ UNCHANGED <<call, running, alive, mem, files, made, told, careful>>

\* The mutex is not recursive.  Once destroyed it returns EINVAL, which no
\* caller looks at.
Lock(t) ==
    /\ At(t, "lock")
    /\ lock \in {"free", "gone"}
    /\ lock' = IF lock = "gone" THEN "gone" ELSE t
    /\ Goto(t, "work")
    /\ UNCHANGED <<call, running, alive, mem, files, made, told, careful>>

\* vault_list_ids_ffi, reached through rust_vault_copy_file while
\* vault_export_file_ffi holds the lock, takes it again.
Relock(t) ==
    /\ At(t, "relock")
    /\ lock \in {"free", "gone"}
    /\ Goto(t, "unlock")
    /\ UNCHANGED <<call, lock, running, alive, mem, files, made, told, careful>>

Unlock(t) ==
    /\ At(t, "unlock")
    /\ lock' = IF lock = "gone" THEN "gone" ELSE "free"
    /\ Goto(t, IF t = "cli" THEN "prompt" ELSE "loop")
    /\ UNCHANGED <<call, running, alive, mem, files, made, told, careful>>

-----------------------------------------------------------------------------
(* Under the lock *)

\* Faulty variant: the lock is given up before the catalog is saved.
ChangeUnlocksFirst(t) ==
    /\ At(t, "work") /\ call[t] = "change"
    /\ mem < MaxVersion
    /\ mem' = IF mem = Wiped THEN Wiped ELSE mem + 1
    /\ made' = IF t = "cli" THEN mem' ELSE made
    /\ lock' = IF lock = "gone" THEN "gone" ELSE "free"
    /\ Goto(t, "open")
    /\ UNCHANGED <<call, running, alive, files, told, careful>>

\* A command, or an event the monitor has read, changes the catalog.
Change(t) ==
    /\ At(t, "work") /\ call[t] \in {"change", "sandbox"}
    /\ mem < MaxVersion
    /\ mem' = IF mem = Wiped THEN Wiped ELSE mem + 1
    /\ made' = IF t = "cli" THEN mem' ELSE made
    /\ Goto(t, "open")
    /\ UNCHANGED <<call, lock, running, alive, files, told, careful>>

\* Faulty variant: an early return that leaves the lock taken.
FinishWithoutUnlock(t) ==
    /\ At(t, "work") /\ call[t] = "change"
    /\ Goto(t, IF t = "cli" THEN "prompt" ELSE "unlock")
    /\ UNCHANGED <<call, lock, running, alive, mem, files, made, told, careful>>

\* There is nothing to do, or nothing more: the call returns.
Finish(t) ==
    /\ At(t, "work") /\ call[t] \in {"change", "sandbox"}
    /\ Goto(t, IF call[t] = "sandbox" THEN "prompt" ELSE "unlock")
    /\ UNCHANGED <<call, lock, running, alive, mem, files, made, told, careful>>

\* The path is refused at once if it goes through a link; otherwise the
\* registered vaults are asked for.
Export(t) ==
    /\ At(t, "work") /\ call[t] = "export"
    /\ Goto(t, "unlock") \/ Goto(t, "relock")
    /\ UNCHANGED <<call, lock, running, alive, mem, files, made, told, careful>>

-----------------------------------------------------------------------------
(* catalog_save *)

\* Back to the caller: the rest of the call, or the end of a shutdown.
Return(t) == Goto(t, IF call[t] = "shutdown" THEN "wipe" ELSE "work")

\* Faulty variant: the image is written to catalog.dat itself.
OpenInPlace(t) ==
    /\ At(t, "open")
    /\ LET i == IF name.dat # NoInode THEN name.dat ELSE CHOOSE j \in Inodes : TRUE
       IN  /\ name' = [name EXCEPT !.dat = i, !.tmp = i]
           /\ content' = [content EXCEPT ![i] = Blank]
           /\ fd' = [fd EXCEPT ![t] = i]
    /\ Goto(t, "head")
    /\ UNCHANGED <<call, lock, running, alive, mem, short, faults, made, told, careful>>

\* fopen(tmp, "wb") truncates the file that is there, or makes one; or it
\* fails, and memory keeps a change that nothing saves.
InUse == {name.dat, name.tmp} \cup {fd[t] : t \in Threads}
Open(t) ==
    /\ At(t, "open")
    /\ \/ /\ LET i == IF name.tmp # NoInode THEN name.tmp ELSE CHOOSE j \in Inodes : j \notin InUse
             IN  /\ name' = [name EXCEPT !.tmp = i]
                 /\ content' = [content EXCEPT ![i] = Blank]
                 /\ fd' = [fd EXCEPT ![t] = i]
                 /\ short' = short \ {i}
          /\ Goto(t, "head")
          /\ UNCHANGED faults
       \/ /\ Fails("open")
          /\ Return(t)
          /\ UNCHANGED <<name, content, fd, short>>
    /\ UNCHANGED <<call, lock, running, alive, mem, made, told, careful>>

\* The header, then the records: each from the memory of that moment, each at
\* the writer's own offset.  Neither fwrite nor fclose is checked: one that
\* comes short leaves its part out and the save goes on.
Write(t, part, next) ==
    /\ At(t, part)
    /\ \/ /\ content' = [content EXCEPT ![fd[t]] = [@ EXCEPT ![part] = mem]]
          /\ UNCHANGED <<short, faults>>
       \/ /\ Fails("write")
          /\ short' = short \cup {fd[t]}
          /\ UNCHANGED content
    /\ Goto(t, next)
    /\ UNCHANGED <<call, lock, running, alive, mem, name, fd, made, told, careful>>

\* An inode without a name and without a writer is free again.
Release == /\ content' = [i \in Inodes |-> IF i \in InUse' THEN content[i] ELSE Blank]
           /\ short' = short \cap InUse'

\* rename(tmp, catalog.dat), and the report to the user.  If it fails, or tmp is
\* gone, tmp is unlinked and the caller gets an error.
Rename(t) ==
    /\ At(t, "rename")
    /\ \/ /\ name.tmp # NoInode
          /\ name' = [dat |-> name.tmp, tmp |-> NoInode]
          /\ told' = IF t = "cli" /\ call[t] = "change" THEN made ELSE told
          /\ UNCHANGED faults
       \/ /\ IF name.tmp # NoInode THEN Fails("rename") ELSE UNCHANGED faults
          /\ name' = [name EXCEPT !.tmp = NoInode]
          /\ UNCHANGED told
    /\ fd' = [fd EXCEPT ![t] = NoInode]
    /\ Release
    /\ Return(t)
    /\ UNCHANGED <<call, lock, running, alive, mem, made, careful>>

-----------------------------------------------------------------------------
(* vault_ffi_shutdown, which takes no lock *)

Stop(t) ==
    /\ At(t, "stop")
    /\ running' = FALSE
    /\ Goto(t, "join")
    /\ UNCHANGED <<call, lock, alive, mem, files, made, told, careful>>

\* Faulty variant: the monitor thread is not waited for.
JoinNobody(t) ==
    /\ At(t, "join")
    /\ Goto(t, "destroy")
    /\ UNCHANGED <<call, lock, running, alive, mem, files, made, told, careful>>

\* pthread_join, whose result is not looked at.  It refuses a second caller
\* while the first one waits, and that shutdown goes on at once.
PastJoin == {"destroy", "open", "head", "body", "rename", "wipe", "exit"}
Shut(t)  == call[t] = "shutdown" /\ pc[t] \in PastJoin
Join(t) ==
    /\ At(t, "join")
    /\ Goto(t, IF \E u \in Threads : pc[u] = "joining" \/ Shut(u) THEN "destroy" ELSE "joining")
    /\ UNCHANGED <<call, lock, running, alive, mem, files, made, told, careful>>

Joined(t) ==
    /\ At(t, "joining")
    /\ pc["monitor"] = "done"
    /\ Goto(t, "destroy")
    /\ UNCHANGED <<call, lock, running, alive, mem, files, made, told, careful>>

\* pthread_mutex_destroy of a mutex that is held returns EBUSY.
Destroy(t) ==
    /\ At(t, "destroy")
    /\ lock' = IF lock = "free" THEN "gone" ELSE lock
    /\ Goto(t, "open")
    /\ UNCHANGED <<call, running, alive, mem, files, made, told, careful>>

\* Faulty variant: the bytes are set, not cleared.
WipeSets(t) ==
    /\ At(t, "wipe")
    /\ mem' = Hole
    /\ Goto(t, "exit")
    /\ UNCHANGED <<call, lock, running, alive, files, made, told, careful>>

\* explicit_bzero(&g_catalog).
Wipe(t) ==
    /\ At(t, "wipe")
    /\ mem' = Wiped
    /\ Goto(t, "exit")
    /\ UNCHANGED <<call, lock, running, alive, files, made, told, careful>>

Exit(t) ==
    /\ At(t, "exit")
    /\ alive' = FALSE
    /\ UNCHANGED <<threads, lock, running, mem, files, made, told, careful>>

-----------------------------------------------------------------------------
(* The three threads *)

\* The image was loaded, or there was none; the monitor thread was started, or
\* fanotify_init was refused.
Init ==
    /\ \E m \in {"lock", "done"} : pc = [cli |-> "prompt", monitor |-> m, handler |-> "idle"]
    /\ call = [t \in Threads |-> "change"]
    /\ lock = "free" /\ running = TRUE /\ alive = TRUE
    /\ mem = 1
    /\ \E i \in {NoInode, CHOOSE j \in Inodes : TRUE} : name = [dat |-> i, tmp |-> NoInode]
    /\ content = [i \in Inodes |-> IF i = name.dat THEN [head |-> 1, body |-> 1] ELSE Blank]
    /\ fd = [t \in Threads |-> NoInode]
    /\ short = {} /\ faults = 0
    /\ made = 1 /\ told = Wiped /\ careful = TRUE

\* A line read at the prompt.  quit, exit, end of input and Ctrl+C at the
\* prompt all shut down.  vault_sandbox_ffi takes the lock to find the vault,
\* and checks the password, which may lock the vault and save, without it.
Command(c) ==
    /\ At("cli", "prompt")
    /\ Goto("cli", CASE c = "quit" -> "stop" [] c = "sandbox" -> "work" [] OTHER -> "lock")
    /\ call' = [call EXCEPT !["cli"] = IF c = "quit" THEN "shutdown" ELSE c]
    /\ careful' = (careful /\ c # "sandbox")
    /\ UNCHANGED <<lock, running, alive, mem, files, made, told>>

\* Faulty variant: the loop does not look at running.
LoopForever ==
    /\ At("monitor", "loop")
    /\ Goto("monitor", "lock")
    /\ UNCHANGED <<call, lock, running, alive, mem, files, made, told, careful>>

\* The monitor's loop: select, with a timeout of 5 s, then the lock.
Loop ==
    /\ At("monitor", "loop")
    /\ Goto("monitor", IF running THEN "lock" ELSE "done")
    /\ UNCHANGED <<call, lock, running, alive, mem, files, made, told, careful>>

\* Ctrl+C raises a signal unless the prompt has the terminal in raw mode.
Interrupt ==
    /\ At("handler", "idle")
    /\ pc["cli"] # "prompt"
    /\ Goto("handler", "stop")
    /\ call' = [call EXCEPT !["handler"] = "shutdown"]
    /\ careful' = FALSE
    /\ UNCHANGED <<lock, running, alive, mem, files, made, told>>

Save(t) == \/ Open(t) \/ Write(t, "head", "body") \/ Write(t, "body", "rename") \/ Rename(t)

Work(t) == Change(t) \/ Finish(t) \/ Export(t)

Shutdown(t) == Stop(t) \/ Join(t) \/ Joined(t) \/ Destroy(t) \/ Wipe(t) \/ Exit(t)

Step(t) == Lock(t) \/ Relock(t) \/ Unlock(t) \/ Work(t) \/ Save(t) \/ Shutdown(t)

Next == \/ \E t \in Threads : Step(t)
        \/ \E c \in Commands : Command(c)
        \/ Loop
        \/ Interrupt

\* The kernel runs every thread that can run, and a thread that waits for the
\* lock gets it some time: the monitor sleeps in select between two turns.
\* Nothing makes the user type.
Fairness ==
    /\ \A t \in Threads : WF_vars(Step(t)) /\ SF_vars(Lock(t))
    /\ WF_vars(Loop)

Spec == Init /\ [][Next]_vars /\ Fairness

-----------------------------------------------------------------------------
(* Properties *)

Labels == {"prompt", "idle", "lock", "work", "relock", "unlock", "open", "head", "body",
           "rename", "stop", "join", "joining", "destroy", "wipe", "exit", "loop", "done"}
Versions == Wiped..MaxVersion

ThreadType ==
    /\ pc \in [Threads -> Labels]
    /\ call \in [Threads -> {"change", "export", "sandbox", "shutdown"}]
    /\ lock \in Threads \cup {"free", "gone"}
FlagType == running \in BOOLEAN /\ alive \in BOOLEAN /\ careful \in BOOLEAN
MemoryType == mem \in Versions /\ made \in Versions /\ told \in Versions
FileType ==
    /\ name \in [dat : Inodes \cup {NoInode}, tmp : Inodes \cup {NoInode}]
    /\ content \in [Inodes -> [head : Versions \cup {Hole}, body : Versions \cup {Hole}]]
    /\ fd \in [Threads -> Inodes \cup {NoInode}]
    /\ short \subseteq Inodes /\ faults \in 0..FaultBound

\* Every variable keeps its type.
TypeOK == ThreadType /\ FlagType /\ MemoryType /\ FileType

\* The comment in catalog_save, "Atomic rename": as long as no handler and no
\* sandbox has worked without the lock, catalog.dat is at any moment an image
\* that a load accepts, and never that of a wiped catalog: not while it is
\* written, and not after an open, a write or a rename that failed.  Excepted is
\* an image in which a write came short, which nobody checks and which is
\* renamed into place; it stays until the next complete save.
DatIsWhole == careful /\ name.dat \notin {NoInode} \cup short =>
                 Whole(name.dat) /\ content[name.dat].head # Wiped

\* What a command has reported as saved is in catalog.dat, whatever the
\* monitor saves in between, when the process ends, and whatever save of either
\* fails.  Excepted are the callers without the lock and, as above, the image in
\* which a write came short: it is reported as saved and is not.
ReportedIsSaved == careful /\ told # Wiped =>
                      /\ name.dat # NoInode
                      /\ name.dat \notin short => content[name.dat].head >= told

\* The monitor never touches the catalog again once a shutdown, of the command
\* loop or of the handler, is past its join: not while the image is written,
\* the memory wiped or the lock destroyed.  Excepted is the second of two
\* shutdowns, a quit and a Ctrl+C, while the first still waits in pthread_join:
\* it was refused there and is already at work.
MonitorIsOut == \A t \in {"cli", "handler"} :
    alive /\ Shut(t) => pc["monitor"] = "done" \/ \E u \in Threads : pc[u] = "joining"

\* While a thread saves, no other one changes the catalog under its hands,
\* unless one of them is without the lock.
Saving(t) == pc[t] \in {"open", "head", "body", "rename"}
NoChangeWhileSaving ==
    [][careful => \A t \in Threads : Saving(t) /\ Saving(t)' => mem' = mem]_vars

\* A change ends, with the lock or without it, whatever the monitor does and
\* even if a handler shuts the program down at the same time.
ChangesEnd == (pc["cli"] = "lock" /\ call["cli"] = "change") ~> (pc["cli"] = "prompt" \/ ~alive)

\* A shutdown ends the process, unless an export holds the lock for good.
ShutdownEnds ==
    (call["cli"] = "shutdown" \/ call["handler"] = "shutdown") ~> (~alive \/ pc["cli"] = "relock")

\* RELEASE_NOTES_0_8_1.md: Ctrl+C saves the catalog.  Once the process is gone,
\* catalog.dat can be loaded and holds what commands reported as saved.
CtrlCSaves == ~alive /\ name.dat # NoInode =>
                 Whole(name.dat) /\ content[name.dat].head >= told

\* vault_export_file_ffi copies a file: the command comes back to the prompt,
\* unless the program is shut down.
ExportEnds == (pc["cli"] = "work" /\ call["cli"] = "export") ~> (pc["cli"] = "prompt" \/ ~alive)
=============================================================================
