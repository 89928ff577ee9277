---------------------------- MODULE VaultMonitor ----------------------------
(***************************************************************************)
(* One vault and the thread that watches it: monitor_thread, its handlers, *)
(* the credits per file, monitor_scan_vault and the alerts                 *)
(* (c_src/vault_monitor.c), with the commands that act on the same vault   *)
(* and whoever else works on the files.                                    *)
(*                                                                         *)
(* A command holds g_monitor.lock from beginning to end and is one step.   *)
(* The monitor holds it from the read of the queue to the end of its turn; *)
(* others work on the files meanwhile.  What the program itself does to    *)
(* the directory it watches makes events like anything else: reading the   *)
(* directory, hashing a file, changing a mode.                             *)
(*                                                                         *)
(* The name n is kept as <<n, "plain">> or <<n, "enc">>.  Hidden files and *)
(* the names of the sandbox, which every handler passes over, are left     *)
(* out; so are rules.  suspect_access is called but defined nowhere, and   *)
(* the condition of the copy at line 242 is missing: either may go either  *)
(* way.  Time passes in steps: a credit comes back, or an alert interval    *)
(* is over.                                                                *)
(***************************************************************************)
EXTENDS Naturals, Sequences, FiniteSets, SequencesExt

CONSTANTS
    Names,         \* the names of files, without .enc
    MaxVersion,    \* contents a file may have: 1..MaxVersion; 0 is no file
    FullCredits,   \* the credits of a file nobody touched for long (3 in the code)
    MaxIdx,        \* the last of the alert intervals (NUM_ALERT_INTERVALS - 1)
    QueueBound,    \* the events the kernel keeps (fs.inotify.max_queued_events)
    Suspicion,     \* what suspect_access may answer
    StepBound      \* how many commands and touches of others there are

ASSUME MonitorAssumption ==
    /\ IsFiniteSet(Names)
    /\ MaxVersion \in Nat \ {0} /\ FullCredits \in Nat \ {0} /\ MaxIdx \in Nat
    /\ QueueBound \in Nat \ {0} /\ Suspicion \subseteq BOOLEAN /\ StepBound \in Nat

VARIABLES
    content,   \* the files, and
    exists,    \* their directory
    watch,     \* inotify_wd: "none", "live", or "dead" with its directory
    s,         \* the vault's fields and the kernel's queue, see State
    batch,     \* the events the monitor has read and not yet handled
    turn,      \* of the monitor: "start", "select", "events" (with the lock), "gone"
    steps,     \* bounded by StepBound
    owed,      \* files whose change an alert must follow (a history variable)
    lapsed,    \* an alert was left by a lockout and not resolved since (history)
    calm       \* resolved, and nobody has done anything since (history)

world == <<content, exists, watch>>
ghost == <<owed, lapsed, calm>>
vars  == <<world, s, batch, turn, steps, ghost>>

Files    == Names \X {"plain", "enc"}
Versions == 0..MaxVersion

\* An event for the directory itself has no name: the code calls it "(unknown)".
Self    == <<"(unknown)", "dir">>
Watched == Files \cup {Self}
Ev(k, f) == [kind |-> k, file |-> f]
Events == [kind : {"access", "modify", "attrib", "create", "delete", "arrive", "self"},
           file : Watched]

State ==
    [status    : {"OK", "ALERT", "LOCKED"},
     triggered : BOOLEAN,                      \* alert.first_triggered # 0
     last      : {"never", "recent", "due"},   \* alert.last_alerted: is the interval over?
     idx       : 0..MaxIdx,                    \* alert.interval_idx
     writeMode : BOOLEAN,
     hash      : [Files -> Versions],          \* the hash map, 0 for no entry
     flagged   : SUBSET Files,                 \* its entries with modified set
     credits   : [Watched -> 0..FullCredits],
     queue     : Seq(Events)]

\* What a file that has not been touched for long has, and one without a bucket.
Refilled == [f \in Watched |-> FullCredits]

Present == {f \in Files : content[f] # 0}

-----------------------------------------------------------------------------
(* The kernel *)

\* An event equal to the last one in the queue is merged with it; those that find
\* the queue full are dropped.  No two neighbours of es are equal.
Queued(q, es) ==
    LET fresh == IF q # <<>> /\ Last(q) = Head(es) THEN Tail(es) ELSE es
        room  == QueueBound - Len(q)
    IN  q \o (IF Len(fresh) <= room THEN fresh ELSE SubSeq(fresh, 1, room))

Emit(t, es) == IF watch = "live" THEN [t EXCEPT !.queue = Queued(@, es)] ELSE t

\* One event of a kind for each file, in the order in which readdir happens to
\* give them.
InOrder(fs) == SetToSeq(fs)
ForEach(k, fs) == [i \in 1..Len(InOrder(fs)) |-> Ev(k, InOrder(fs)[i])]

\* opendir and readdir: the directory is accessed.
Listed(es) == <<Ev("access", Self)>> \o es

-----------------------------------------------------------------------------
(* The functions of vault_monitor.c *)

\* vault_set_write_mode, and vault_enforce_readonly, which is the same with FALSE:
\* the mode of every file is set, and write_mode, if the directory opens.
SetWriteMode(t, on) ==
    IF exists THEN [Emit(t, Listed(ForEach("attrib", Present))) EXCEPT !.writeMode = on]
              ELSE t

Enforce(t) == SetWriteMode(t, FALSE)

AlertTrigger(t) ==
    [t EXCEPT !.status = "ALERT", !.triggered = TRUE,
              !.idx = IF t.triggered THEN @ ELSE 0]

\* monitor_scan_vault.  Every file is read; a new one is entered; one that has
\* changed is flagged, and the vault alerted unless it was flagged already; the
\* flag goes when the hash is found unchanged.  The hash of a changed file is
\* replaced, or kept, for the files in kept.
Scan(t, kept) ==
    LET changed == {f \in Present : t.hash[f] \notin {0, content[f]}}
        same    == {f \in Present : t.hash[f] = content[f]}
        read    == [Emit(t, Listed(ForEach("access", Present))) EXCEPT
                      !.flagged = (@ \cup changed) \ same,
                      !.hash = [f \in Files |-> IF f \in Present /\ f \notin changed \cap kept
                                                THEN content[f] ELSE @[f]]]
    IN  IF ~exists THEN t
        ELSE IF changed \ t.flagged # {} THEN AlertTrigger(read) ELSE read

\* The files whose hash a scan may keep.
Keepable == SUBSET {f \in Present : s.hash[f] \notin {0, content[f]}}

\* One credit goes with every event outside write mode, whatever its kind; the
\* last one alerts, and so does every event after it.
Deduct(t, f) ==
    IF t.credits[f] <= 1 THEN Enforce(AlertTrigger([t EXCEPT !.credits[f] = 0]))
                         ELSE [t EXCEPT !.credits[f] = @ - 1]

\* Faulty variant: an attribute event is taken to make the files read-only, and
\* a modification is left to the next scan.
RespondByScan(t, e, suspicious, kept) ==
    CASE e.kind = "attrib" -> Enforce(t)
      [] e.kind = "delete" -> AlertTrigger(t)
      [] OTHER             -> t

\* The handler of an event.  A file moved into the vault (IN_MOVED_TO) has none.
Respond(t, e, suspicious, kept) ==
    CASE e.kind = "modify" -> IF t.writeMode THEN Scan(t, kept) ELSE Enforce(AlertTrigger(t))
      [] e.kind = "access" -> IF suspicious THEN AlertTrigger(t) ELSE t
      [] e.kind = "attrib" -> IF t.writeMode THEN t ELSE Enforce(AlertTrigger(t))
      [] e.kind = "self"   -> Enforce(AlertTrigger(t))
      [] e.kind = "create" -> Scan(t, kept)
      [] e.kind = "delete" -> AlertTrigger(t)
      [] OTHER             -> t

Handle(t, e, suspicious, kept) ==
    Respond(IF e.kind # "self" /\ ~t.writeMode THEN Deduct(t, e.file) ELSE t,
            e, suspicious, kept)

\* Faulty variants: the first report waits for an interval too; the index of the
\* interval runs past the table.
EscalateLate(t) ==
    IF t.status # "ALERT" \/ t.last # "due" THEN t
    ELSE [t EXCEPT !.last = "recent", !.idx = IF @ < MaxIdx THEN @ + 1 ELSE @]
EscalateUnbounded(t) ==
    IF t.status # "ALERT" \/ t.last = "recent" THEN t
    ELSE [t EXCEPT !.last = "recent", !.idx = IF t.last = "due" THEN @ + 1 ELSE @]

\* alert_check_escalation: an alert is reported at once, then whenever the interval
\* is over; the interval grows after each repetition.
Escalate(t) ==
    IF t.status # "ALERT" \/ t.last = "recent" THEN t
    ELSE [t EXCEPT !.last = "recent",
                   !.idx = IF t.last = "due" /\ @ < MaxIdx THEN @ + 1 ELSE @]

-----------------------------------------------------------------------------
(* The monitor thread *)

AddWatches == watch' = IF exists /\ watch = "none" THEN "live" ELSE watch

\* The thread begins, under the lock, with the watches and a scan of each vault.
\* The scan then finds the directory watched.
Startup ==
    /\ turn = "start"
    /\ turn' = "select"
    /\ AddWatches
    /\ \E kept \in Keepable :
         LET scanned == Scan(s, kept)
         IN  s' = IF exists
                  THEN [scanned EXCEPT !.queue = Queued(<<>>, Listed(ForEach("access", Present)))]
                  ELSE scanned
    /\ UNCHANGED <<content, exists, batch, steps, ghost>>

\* select returns, with events or at its time limit; all events there are are read.
Wake ==
    /\ turn = "select"
    /\ turn' = "events" /\ batch' = s.queue /\ s' = [s EXCEPT !.queue = <<>>]
    /\ UNCHANGED <<world, steps, ghost>>

\* What is owed is paid with an alert.  Write mode is that of this moment: a write
\* that write mode, left on since, now covers is written off.
HandleEvent ==
    /\ turn = "events" /\ batch # <<>>
    /\ batch' = Tail(batch)
    /\ \E suspicious \in Suspicion, kept \in Keepable : s' = Handle(s, Head(batch), suspicious, kept)
    /\ owed' = IF Head(batch).kind = "modify" /\ (s'.status = "ALERT" \/ s.writeMode)
               THEN owed \ {Head(batch).file} ELSE owed
    /\ UNCHANGED <<world, turn, steps, lapsed, calm>>

EndTurn ==
    /\ turn = "events" /\ batch = <<>>
    /\ turn' = "select"
    /\ s' = Escalate(s)
    /\ AddWatches
    /\ UNCHANGED <<content, exists, batch, steps, ghost>>

\* fanotify_init or pthread_create failed, or select fails: there is no monitor, and
\* nobody is told.
MonitorGone ==
    /\ turn \in {"start", "select"} /\ steps < StepBound
    /\ turn' = "gone" /\ owed' = {} /\ steps' = steps + 1
    /\ UNCHANGED <<world, s, batch, lapsed, calm>>

-----------------------------------------------------------------------------
(* Commands: the lock is free between the monitor's turns *)

Command == turn # "events" /\ steps < StepBound /\ steps' = steps + 1 /\ UNCHANGED <<batch, turn>>

CommandScan ==
    /\ Command
    /\ \E kept \in Keepable : s' = Scan(s, kept)
    /\ calm' = FALSE
    /\ UNCHANGED <<world, owed, lapsed>>

\* Faulty variant: neither the flags nor the alert record are cleared.
ResolveStatusOnly ==
    /\ Command
    /\ s' = Enforce([s EXCEPT !.status = "OK"])
    /\ calm' = (s.queue = <<>>) /\ lapsed' = FALSE
    /\ UNCHANGED <<world, owed>>

\* alert_resolve, with the right password; it asks for no alert.
Resolve ==
    /\ Command
    /\ s' = Enforce([s EXCEPT !.status = "OK", !.flagged = {},
                              !.triggered = FALSE, !.last = "never", !.idx = 0])
    /\ calm' = (s.queue = <<>>) /\ lapsed' = FALSE
    /\ UNCHANGED <<world, owed>>

\* The last wrong password that is allowed, and the unlock.
Lock ==
    /\ Command
    /\ s' = [s EXCEPT !.status = "LOCKED"]
    /\ lapsed' = (lapsed \/ s.status = "ALERT")
    /\ calm' = FALSE
    /\ UNCHANGED <<world, owed>>

Unlock ==
    /\ Command
    /\ s.status = "LOCKED"
    /\ s' = [s EXCEPT !.status = "OK"]
    /\ calm' = FALSE
    /\ UNCHANGED <<world, owed, lapsed>>

\* vault_encrypt_ffi and vault_decrypt_ffi (the VaultFiles module has their steps
\* and failures): between the two changes of mode each file of the one form is
\* written in the other and removed.
Rewrite(from, to) ==
    LET source == {f \in Present : f[2] = from}
        target(f) == <<f[1], to>>
        made(f) == (IF content[target(f)] = 0 THEN <<Ev("create", target(f))>> ELSE <<>>)
                   \o <<Ev("access", f), Ev("modify", target(f)), Ev("delete", f)>>
        after == [f \in Files |-> IF f \in source THEN 0
                                  ELSE IF <<f[1], from>> \in source THEN content[<<f[1], from>>]
                                  ELSE content[f]]
        order == InOrder(source)
        work  == FlattenSeq([i \in 1..Len(order) |-> made(order[i])])
        modes == ForEach("attrib", {f \in Files : after[f] # 0})
    IN  /\ Command /\ exists
        /\ content' = after
        /\ s' = [Emit(Emit(SetWriteMode(s, TRUE), Listed(work)), Listed(modes)) EXCEPT
                   !.writeMode = FALSE]
        /\ calm' = FALSE
        /\ UNCHANGED <<exists, watch, owed, lapsed>>

\* The same with its second opendir failing: write mode stays on, for the events that
\* wait as well.
RewriteFails ==
    /\ Command /\ exists
    /\ s' = SetWriteMode(s, TRUE)
    /\ calm' = FALSE
    /\ UNCHANGED <<world, owed, lapsed>>

\* The program ends, with a save, and is started again.  The catalog has the status,
\* the alert and the hash map; write mode, credits, watch and events are gone.
Restart ==
    /\ turn # "events" /\ steps < StepBound /\ steps' = steps + 1
    /\ turn' = "start" /\ batch' = <<>> /\ watch' = "none"
    /\ s' = [s EXCEPT !.writeMode = FALSE, !.queue = <<>>,
                      !.credits = Refilled]
    /\ owed' = {} /\ calm' = FALSE
    /\ UNCHANGED <<content, exists, lapsed>>

-----------------------------------------------------------------------------
(* Others, and the Rust commands that change files: no lock, no write mode *)

\* A touch of the files, and the events it makes.
Touch(es) ==
    /\ steps < StepBound /\ steps' = steps + 1
    /\ exists
    /\ s' = Emit(s, es)
    /\ calm' = FALSE
    /\ UNCHANGED <<exists, watch, batch, turn, lapsed>>

Read(f) == f \in Present /\ Touch(<<Ev("access", f)>>) /\ UNCHANGED <<content, owed>>

Chmod(f) == f \in Present /\ Touch(<<Ev("attrib", f)>>) /\ UNCHANGED <<content, owed>>

\* An alert is owed if the monitor is there, its queue has room for the event, and
\* write mode has not been left on.
Write(f, c) ==
    LET es == IF f \in Present THEN <<Ev("modify", f)>> ELSE <<Ev("create", f), Ev("modify", f)>>
    IN  /\ c # content[f] /\ Touch(es)
        /\ content' = [content EXCEPT ![f] = c]
        /\ owed' = IF /\ watch = "live" /\ turn # "gone" /\ ~s.writeMode
                      /\ Last(s'.queue) = Ev("modify", f)
                   THEN owed \cup {f} ELSE owed

Unlink(f) ==
    /\ f \in Present /\ Touch(<<Ev("delete", f)>>)
    /\ content' = [content EXCEPT ![f] = 0]
    /\ UNCHANGED owed

\* A file from elsewhere is moved over f.
Arrive(f, c) ==
    /\ Touch(<<Ev("arrive", f)>>)
    /\ content' = [content EXCEPT ![f] = c]
    /\ UNCHANGED owed

\* The directory is removed, when it is empty; and made again, unwatched.
RemoveDir ==
    /\ exists /\ Present = {}
    /\ steps < StepBound /\ steps' = steps + 1
    /\ exists' = FALSE
    /\ s' = Emit(s, <<Ev("self", Self)>>)
    /\ watch' = IF watch = "live" THEN "dead" ELSE watch
    /\ calm' = FALSE
    /\ UNCHANGED <<content, batch, turn, owed, lapsed>>

MakeDir ==
    /\ ~exists
    /\ steps < StepBound /\ steps' = steps + 1
    /\ exists' = TRUE /\ calm' = FALSE
    /\ UNCHANGED <<content, watch, s, batch, turn, owed, lapsed>>

\* Time passes: enough for one credit more in every bucket, or for an alert interval,
\* which is longer than it takes to fill them.
Refill ==
    /\ s.credits # Refilled
    /\ s' = [s EXCEPT !.credits = [f \in Watched |-> IF @[f] < FullCredits THEN @[f] + 1 ELSE @[f]]]
    /\ UNCHANGED <<world, batch, turn, steps, ghost>>

IntervalEnds ==
    /\ s.last = "recent"
    /\ s' = [s EXCEPT !.last = "due", !.credits = Refilled]
    /\ UNCHANGED <<world, batch, turn, steps, ghost>>

-----------------------------------------------------------------------------

\* A vault that was loaded, or has just been created; encrypted files come later.
Init ==
    /\ content \in {c \in [Files -> {0, 1}] : \A n \in Names : c[<<n, "enc">>] = 0}
    /\ exists = TRUE /\ watch = "none"
    /\ s = [status |-> "OK", triggered |-> FALSE, last |-> "never", idx |-> 0,
            writeMode |-> FALSE, hash |-> [f \in Files |-> 0], flagged |-> {},
            credits |-> Refilled, queue |-> <<>>]
    /\ batch = <<>> /\ turn \in {"start", "select"} /\ steps = 0
    /\ owed = {} /\ lapsed = FALSE /\ calm = FALSE

Monitor == Startup \/ Wake \/ HandleEvent \/ EndTurn

Commands ==
    \/ CommandScan \/ Resolve \/ Lock \/ Unlock
    \/ Rewrite("plain", "enc") \/ Rewrite("enc", "plain") \/ RewriteFails
    \/ Restart

Others ==
    \/ \E f \in Files : Read(f) \/ Chmod(f) \/ Unlink(f)
    \/ \E f \in Files, c \in 1..MaxVersion : Write(f, c) \/ Arrive(f, c)
    \/ RemoveDir \/ MakeDir

Next == Monitor \/ MonitorGone \/ Commands \/ Others \/ Refill \/ IntervalEnds

Spec == Init /\ [][Next]_vars

-----------------------------------------------------------------------------
(* Properties *)

\* Every variable keeps its type.
TypeOK ==
    /\ content \in [Files -> Versions] /\ exists \in BOOLEAN
    /\ watch \in {"none", "live", "dead"}
    /\ s \in State /\ batch \in Seq(Events)
    /\ turn \in {"start", "select", "events", "gone"} /\ steps \in 0..StepBound
    /\ owed \subseteq Files /\ lapsed \in BOOLEAN /\ calm \in BOOLEAN

\* A file that a scan has found changed, and that has not been found unchanged
\* since, keeps the vault in ALERT until somebody resolves the alert: through more
\* events, scans, restarts and encryptions.  An alert that wrong passwords turned
\* into a lockout is the exception, by name: unlocking it leaves the flags, and the
\* next change of such a file alerts nobody.
FlagsMeanAlert == s.flagged # {} /\ ~lapsed => s.status = "ALERT"

\* An alert that comes up in a vault that was OK starts the schedule from its
\* beginning, so that it is reported at once.  The same exception: after a lockout
\* the old schedule goes on, and the new alert waits for up to a year.
NewAlertsAreNew ==
    [][s.status = "OK" /\ s'.status = "ALERT" /\ ~lapsed => s'.last = "never" /\ s'.idx = 0]_vars

\* A write to a file of a watched vault outside write mode, whose event found room
\* in the queue, waits for the monitor until it is answered with an alert, through
\* scans, resolves, lockouts, encryptions and other events.  Two things may come
\* between: the monitor ends, or the program, and its events with it; and an
\* encryption whose second opendir fails leaves write mode on, so that the event is
\* handled as one of the program's own, with a scan and maybe no alert.
WritesNoticed ==
    \A f \in owed : \E i \in 1..Len(batch \o s.queue) : (batch \o s.queue)[i] = Ev("modify", f)

\* No turn of the monitor ends with an alert that was never reported, or whose
\* interval is over: whichever handler, scan or command raised it, and when.
AlertsAreReported ==
    [][turn = "events" /\ turn' = "select" /\ s'.status = "ALERT" => s'.last = "recent"]_vars

\* docs/vault_commands.md: vault-resolve marks an alert as resolved.  It does not
\* come back while nobody touches the vault.
ResolvedStaysResolved == calm => s.status # "ALERT"
=============================================================================
