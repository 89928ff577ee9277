------------------------- MODULE VaultMonitorProofs -------------------------
(***************************************************************************)
(* Proofs about VaultMonitor, for any number of files, contents, credits,  *)
(* intervals and events: a flag means an alert, an alert that comes up     *)
(* starts its schedule from the beginning, and a write that was queued is  *)
(* answered.                                                               *)
(*                                                                         *)
(* The functions of the monitor call one another, so what each of them may *)
(* do to a vault is a relation that composes: Serves, for which the events *)
(* play no part, and Keeps, which is about the events alone.               *)
(***************************************************************************)
EXTENDS VaultMonitor, FiniteSetTheorems, SequenceTheorems, WellFoundedInduction, TLAPS

-----------------------------------------------------------------------------
(* The inductive invariant *)

\* A vault whose queue may be anything.
Fields(q) ==
    [status    : {"OK", "ALERT", "LOCKED"},
     triggered : BOOLEAN,
     last      : {"never", "recent", "due"},
     idx       : 0..MaxIdx,
     writeMode : BOOLEAN,
     hash      : [Files -> Versions],
     flagged   : SUBSET Files,
     credits   : [Watched -> 0..FullCredits],
     queue     : {q}]

IsVault(t) == t \in Fields(t.queue)

\* The schedule of an alert that was not reported yet.
Unreported(t) == t.last = "never" /\ t.idx = 0

\* Every flag has its alert, and a vault without an alert no schedule.
Sound(t) ==
    /\ t.flagged # {} => t.status = "ALERT"
    /\ t.status # "ALERT" => Unreported(t)

Inv ==
    /\ content \in [Files -> Versions]
    /\ IsVault(s)
    /\ lapsed \in BOOLEAN
    /\ ~lapsed => Sound(s)

\* What the functions of the monitor may make of a vault: they end no alert, start
\* none that counts as reported, and flag a file only together with an alert.
Serves(t, u) ==
    /\ IsVault(u)
    /\ Unreported(t) => Unreported(u)
    /\ u.status # "ALERT" => u.status = t.status /\ u.flagged \subseteq t.flagged

-----------------------------------------------------------------------------
(* The functions of the monitor *)

LEMMA ServesItself == \A t : IsVault(t) => Serves(t, t)
BY DEF Serves, Unreported

LEMMA ServesTwice ==
    ASSUME NEW t, NEW u, NEW w, Serves(t, u), Serves(u, w)
    PROVE  Serves(t, w)
BY DEF Serves

LEMMA ServesSound ==
    ASSUME NEW t, NEW u, Serves(t, u), Sound(t)
    PROVE  Sound(u)
BY DEF Serves, Sound

\* The queue plays no part in it.
LEMMA QueueServes ==
    ASSUME NEW t, IsVault(t), NEW q
    PROVE  /\ Serves(t, [t EXCEPT !.queue = q])
           /\ [t EXCEPT !.queue = q].status = t.status
           /\ [t EXCEPT !.queue = q].flagged = t.flagged
BY DEF IsVault, Fields, Serves, Unreported

LEMMA EmitServes ==
    ASSUME NEW t, IsVault(t), NEW es
    PROVE  Serves(t, Emit(t, es)) /\ Emit(t, es).flagged = t.flagged /\ Emit(t, es).status = t.status
BY QueueServes, ServesItself DEF Emit

LEMMA SetWriteModeServes ==
    ASSUME NEW t, IsVault(t), NEW on \in BOOLEAN
    PROVE  Serves(t, SetWriteMode(t, on))
<1> DEFINE u == Emit(t, Listed(ForEach("attrib", Present)))
<1>1. Serves(t, u)
  BY EmitServes
<1>2. IsVault(u)
  BY <1>1 DEF Serves
<1>3. Serves(u, [u EXCEPT !.writeMode = on])
  <2> HIDE DEF u
  <2> QED
  BY <1>2 DEF IsVault, Fields, Serves, Unreported
<1>4. SetWriteMode(t, on) = IF exists THEN [u EXCEPT !.writeMode = on] ELSE t
  BY DEF SetWriteMode
<1> HIDE DEF u
<1> QED
  BY <1>1, <1>3, <1>4, ServesTwice, ServesItself

LEMMA EnforceServes ==
    ASSUME NEW t, IsVault(t)
    PROVE  Serves(t, Enforce(t))
BY SetWriteModeServes DEF Enforce

LEMMA AlertTriggerServes ==
    ASSUME NEW t, IsVault(t)
    PROVE  Serves(t, AlertTrigger(t)) /\ AlertTrigger(t).status = "ALERT"
<1>1. 0 \in 0..MaxIdx
  BY MonitorAssumption
<1>2. CASE t.triggered
  <2>1. AlertTrigger(t) = [t EXCEPT !.status = "ALERT", !.triggered = TRUE, !.idx = t.idx]
    BY <1>2 DEF AlertTrigger
  <2> QED
    BY <2>1 DEF IsVault, Fields, Serves, Unreported
<1>3. CASE ~t.triggered
  <2>1. AlertTrigger(t) = [t EXCEPT !.status = "ALERT", !.triggered = TRUE, !.idx = 0]
    BY <1>3 DEF AlertTrigger
  <2> QED
    BY <1>1, <2>1 DEF IsVault, Fields, Serves, Unreported
<1> QED
  BY <1>2, <1>3

\* A function after an alert serves the vault that the alert found.
LEMMA AlertThenEnforce ==
    ASSUME NEW t, IsVault(t)
    PROVE  Serves(t, Enforce(AlertTrigger(t)))
<1>1. Serves(t, AlertTrigger(t))
  BY AlertTriggerServes
<1>2. Serves(AlertTrigger(t), Enforce(AlertTrigger(t)))
  BY <1>1, EnforceServes DEF Serves
<1> QED
  BY <1>1, <1>2, ServesTwice

LEMMA ScanServes ==
    ASSUME NEW t, IsVault(t), NEW kept, content \in [Files -> Versions]
    PROVE  Serves(t, Scan(t, kept))
<1> DEFINE changed == {f \in Present : t.hash[f] \notin {0, content[f]}}
           same    == {f \in Present : t.hash[f] = content[f]}
           u       == Emit(t, Listed(ForEach("access", Present)))
           read    == [u EXCEPT !.flagged = (@ \cup changed) \ same,
                                !.hash = [f \in Files |-> IF f \in Present /\ f \notin changed \cap kept
                                                          THEN content[f] ELSE @[f]]]
<1>1. Serves(t, u) /\ IsVault(u) /\ u.flagged = t.flagged /\ u.status = t.status
  BY EmitServes DEF Serves
<1>2. changed \subseteq Files
  BY DEF Present
<1>3. IsVault(read) /\ (Unreported(u) => Unreported(read)) /\ read.status = u.status
      /\ read.flagged = (u.flagged \cup changed) \ same
  <2> HIDE DEF u, changed, same
  <2> QED
    BY <1>1, <1>2 DEF IsVault, Fields, Unreported
<1>4. Scan(t, kept) = IF ~exists THEN t
                      ELSE IF changed \ t.flagged # {} THEN AlertTrigger(read) ELSE read
  BY DEF Scan
<1> HIDE DEF changed, same, u, read
<1>5. CASE ~exists
  BY <1>4, <1>5, ServesItself
<1>6. CASE exists /\ changed \ t.flagged # {}
  <2>1. Serves(read, AlertTrigger(read)) /\ AlertTrigger(read).status = "ALERT"
    BY <1>3, AlertTriggerServes
  <2> QED
    BY <2>1, <1>1, <1>3, <1>4, <1>6 DEF Serves
<1>7. CASE exists /\ changed \ t.flagged = {}
  <2>1. read.flagged \subseteq t.flagged
    BY <1>1, <1>3, <1>7
  <2> QED
    BY <2>1, <1>1, <1>3, <1>4, <1>7 DEF Serves
<1> QED
  BY <1>5, <1>6, <1>7

LEMMA DeductServes ==
    ASSUME NEW t, IsVault(t), NEW f
    PROVE  Serves(t, Deduct(t, f))
<1> DEFINE empty == [t EXCEPT !.credits[f] = 0]
           less  == [t EXCEPT !.credits[f] = @ - 1]
<1>0. t.credits \in [Watched -> 0..FullCredits] /\ FullCredits \in Nat /\ 0 \in 0..FullCredits
  BY MonitorAssumption DEF IsVault, Fields
<1>1. Serves(t, empty)
  <2>1. [t.credits EXCEPT ![f] = 0] \in [Watched -> 0..FullCredits]
    BY <1>0
  <2> QED
    BY <2>1 DEF IsVault, Fields, Serves, Unreported
<1>2. CASE t.credits[f] <= 1
  <2>1. Serves(empty, Enforce(AlertTrigger(empty)))
    BY <1>1, AlertThenEnforce DEF Serves
  <2> QED
    BY <1>1, <1>2, <2>1, ServesTwice DEF Deduct
<1>3. CASE ~(t.credits[f] <= 1)
  <2>1. [t.credits EXCEPT ![f] = @ - 1] \in [Watched -> 0..FullCredits]
    <3>1. f \in Watched => t.credits[f] - 1 \in 0..FullCredits
      BY <1>0, <1>3
    <3> QED
      BY <1>0, <3>1
  <2>2. Serves(t, less)
    BY <2>1 DEF IsVault, Fields, Serves, Unreported
  <2> QED
    BY <1>3, <2>2 DEF Deduct
<1> QED
  BY <1>2, <1>3

LEMMA RespondServes ==
    ASSUME NEW t, IsVault(t), NEW e, NEW suspicious, NEW kept, content \in [Files -> Versions]
    PROVE  Serves(t, Respond(t, e, suspicious, kept))
<1> Serves(t, t)
  BY ServesItself
<1> Serves(t, Scan(t, kept))
  BY ScanServes
<1> Serves(t, AlertTrigger(t))
  BY AlertTriggerServes
<1> Serves(t, Enforce(AlertTrigger(t)))
  BY AlertThenEnforce
<1> QED
  BY DEF Respond

LEMMA HandleServes ==
    ASSUME NEW t, IsVault(t), NEW e, NEW suspicious, NEW kept, content \in [Files -> Versions]
    PROVE  Serves(t, Handle(t, e, suspicious, kept))
<1> DEFINE u == IF e.kind # "self" /\ ~t.writeMode THEN Deduct(t, e.file) ELSE t
<1>1. Serves(t, u) /\ IsVault(u)
  BY ServesItself, DeductServes DEF Serves
<1>2. Serves(u, Respond(u, e, suspicious, kept))
  <2> HIDE DEF u
  <2> QED
    BY <1>1, RespondServes
<1>3. Handle(t, e, suspicious, kept) = Respond(u, e, suspicious, kept)
  BY DEF Handle
<1> HIDE DEF u
<1> QED
  BY <1>1, <1>2, <1>3, ServesTwice

\* A report changes the schedule of an alert only, and neither status nor flags.
LEMMA EscalateShape ==
    ASSUME NEW t, IsVault(t)
    PROVE  /\ IsVault(Escalate(t))
           /\ Escalate(t).status = t.status /\ Escalate(t).flagged = t.flagged
           /\ t.status # "ALERT" => Escalate(t) = t
           /\ t.status = "ALERT" => Escalate(t).last = "recent"
<1>1. t.idx \in 0..MaxIdx /\ MaxIdx \in Nat
  BY MonitorAssumption DEF IsVault, Fields
<1>2. t.idx < MaxIdx => t.idx + 1 \in 0..MaxIdx
  BY <1>1
<1>3. CASE t.status # "ALERT" \/ t.last = "recent"
  BY <1>3 DEF Escalate
<1>4. CASE ~(t.status # "ALERT" \/ t.last = "recent")
  <2>1. PICK i \in 0..MaxIdx : Escalate(t) = [t EXCEPT !.last = "recent", !.idx = i]
    <3>1. Escalate(t) = [t EXCEPT !.last = "recent",
                                  !.idx = IF t.last = "due" /\ t.idx < MaxIdx THEN t.idx + 1 ELSE t.idx]
      BY <1>4 DEF Escalate
    <3>2. (IF t.last = "due" /\ t.idx < MaxIdx THEN t.idx + 1 ELSE t.idx) \in 0..MaxIdx
      BY <1>1, <1>2
    <3> QED
      BY <3>1, <3>2
  <2> QED
    BY <1>4, <2>1 DEF IsVault, Fields
<1> QED
  BY <1>3, <1>4

-----------------------------------------------------------------------------
(* The steps *)

\* What NewAlertsAreNew asks of a step.
NewAlert == s.status = "OK" /\ s'.status = "ALERT" /\ ~lapsed => s'.last = "never" /\ s'.idx = 0

\* Most steps serve the vault and leave the lockout as it is.
LEMMA ServingStep ==
    ASSUME Inv, Serves(s, s'), UNCHANGED lapsed, content' \in [Files -> Versions]
    PROVE  Inv' /\ NewAlert
<1>1. IsVault(s')
  BY DEF Serves
<1>2. ~lapsed => Sound(s')
  BY ServesSound DEF Inv
<1>3. NewAlert
  BY DEF Inv, Sound, Serves, Unreported, NewAlert
<1> QED
  BY <1>1, <1>2, <1>3 DEF Inv, IsVault, Sound, Unreported

LEMMA StartupStep ==
    ASSUME Inv, Startup
    PROVE  Inv' /\ NewAlert
<1>1. PICK kept \in Keepable :
        s' = IF exists
             THEN [Scan(s, kept) EXCEPT !.queue = Queued(<<>>, Listed(ForEach("access", Present)))]
             ELSE Scan(s, kept)
  BY DEF Startup
<1>2. Serves(s, Scan(s, kept)) /\ IsVault(Scan(s, kept))
  BY ScanServes DEF Inv, Serves
<1>3. Serves(Scan(s, kept), s')
  BY <1>1, <1>2, QueueServes, ServesItself
<1>4. Serves(s, s')
  BY <1>2, <1>3, ServesTwice
<1> QED
  BY <1>4, ServingStep DEF Startup, ghost, Inv

LEMMA WakeStep ==
    ASSUME Inv, Wake
    PROVE  Inv' /\ NewAlert
<1>1. Serves(s, s')
  BY QueueServes DEF Wake, Inv
<1> QED
  BY <1>1, ServingStep DEF Wake, world, ghost, Inv

LEMMA HandleEventStep ==
    ASSUME Inv, HandleEvent
    PROVE  Inv' /\ NewAlert
<1>1. Serves(s, s')
  BY HandleServes DEF HandleEvent, Inv
<1> QED
  BY <1>1, ServingStep DEF HandleEvent, world, Inv

LEMMA EndTurnStep ==
    ASSUME Inv, EndTurn
    PROVE  Inv' /\ NewAlert
<1>1. /\ IsVault(s') /\ s'.status = s.status /\ s'.flagged = s.flagged
      /\ s.status # "ALERT" => s' = s
  BY EscalateShape DEF EndTurn, Inv
<1>2. UNCHANGED <<content, lapsed>>
  BY DEF EndTurn, ghost
<1> QED
  BY <1>1, <1>2 DEF Inv, IsVault, Sound, Unreported, NewAlert

LEMMA CommandScanStep ==
    ASSUME Inv, CommandScan
    PROVE  Inv' /\ NewAlert
<1>1. Serves(s, s')
  BY ScanServes DEF CommandScan, Inv
<1> QED
  BY <1>1, ServingStep DEF CommandScan, world, Inv

\* The flags and the record go before the status is left, so the vault is sound
\* again whatever it was before.
LEMMA ResolveStep ==
    ASSUME Inv, Resolve
    PROVE  Inv' /\ NewAlert
<1> DEFINE cleared == [s EXCEPT !.status = "OK", !.flagged = {},
                                !.triggered = FALSE, !.last = "never", !.idx = 0]
<1>1. IsVault(cleared) /\ Sound(cleared) /\ Unreported(cleared)
  <2>1. 0 \in 0..MaxIdx
    BY MonitorAssumption
  <2> QED
    BY <2>1 DEF Inv, IsVault, Fields, Sound, Unreported
<1>2. s' = Enforce(cleared)
  BY DEF Resolve
<1> HIDE DEF cleared
<1>3. Serves(cleared, s')
  BY <1>1, <1>2, EnforceServes
<1>4. IsVault(s') /\ Sound(s') /\ Unreported(s')
  BY <1>1, <1>3, ServesSound DEF Serves
<1>5. lapsed' = FALSE /\ content' = content
  BY DEF Resolve, world
<1> QED
  BY <1>4, <1>5 DEF Inv, IsVault, Sound, Unreported, NewAlert

LEMMA LockStep ==
    ASSUME Inv, Lock
    PROVE  Inv' /\ NewAlert
<1>1. s' = [s EXCEPT !.status = "LOCKED"] /\ lapsed' = (lapsed \/ s.status = "ALERT")
      /\ content' = content
  BY DEF Lock, world
<1>2. IsVault(s') /\ s'.status = "LOCKED" /\ s'.flagged = s.flagged
      /\ s'.last = s.last /\ s'.idx = s.idx
  BY <1>1 DEF Inv, IsVault, Fields
<1> QED
  BY <1>1, <1>2 DEF Inv, IsVault, Sound, Unreported, NewAlert

LEMMA UnlockStep ==
    ASSUME Inv, Unlock
    PROVE  Inv' /\ NewAlert
<1>1. s.status = "LOCKED" /\ s' = [s EXCEPT !.status = "OK"] /\ UNCHANGED <<content, lapsed>>
  BY DEF Unlock, world
<1>2. IsVault(s') /\ s'.status = "OK" /\ s'.flagged = s.flagged
      /\ s'.last = s.last /\ s'.idx = s.idx
  BY <1>1 DEF Inv, IsVault, Fields
<1> QED
  BY <1>1, <1>2 DEF Inv, IsVault, Sound, Unreported, NewAlert

LEMMA RewriteStep ==
    ASSUME Inv, NEW from \in {"plain", "enc"}, NEW to \in {"plain", "enc"}, Rewrite(from, to)
    PROVE  Inv' /\ NewAlert
<1>1. PICK es, modes : s' = [Emit(Emit(SetWriteMode(s, TRUE), es), modes) EXCEPT !.writeMode = FALSE]
  BY DEF Rewrite
<1> DEFINE a == SetWriteMode(s, TRUE)
           b == Emit(a, es)
           c == Emit(b, modes)
<1>2. Serves(s, a) /\ IsVault(a)
  BY SetWriteModeServes DEF Inv, Serves
<1> HIDE DEF a
<1>3. Serves(a, b) /\ IsVault(b)
  BY <1>2, EmitServes DEF Serves
<1> HIDE DEF b
<1>4. Serves(b, c) /\ IsVault(c)
  BY <1>3, EmitServes DEF Serves
<1> HIDE DEF c
<1>5. Serves(c, [c EXCEPT !.writeMode = FALSE])
  BY <1>4 DEF IsVault, Fields, Serves, Unreported
<1>6. Serves(s, s')
  <2>1. s' = [c EXCEPT !.writeMode = FALSE]
    BY <1>1 DEF a, b, c
  <2>2. Serves(s, c)
    BY <1>2, <1>3, <1>4, ServesTwice
  <2> QED
    BY <1>5, <2>1, <2>2, ServesTwice
<1>7. content' \in [Files -> Versions]
  <2>1. content \in [Files -> Versions] /\ 0 \in Versions
    BY MonitorAssumption DEF Inv, Versions
  <2>2. \A f \in Files : <<f[1], from>> \in Present => content[<<f[1], from>>] \in Versions
    BY <2>1 DEF Present
  <2> QED
    BY <2>1, <2>2 DEF Rewrite
<1>8. UNCHANGED lapsed
  BY DEF Rewrite
<1> QED
  BY <1>6, <1>7, <1>8, ServingStep

LEMMA RewriteFailsStep ==
    ASSUME Inv, RewriteFails
    PROVE  Inv' /\ NewAlert
<1>1. Serves(s, s')
  BY SetWriteModeServes DEF RewriteFails, Inv
<1> QED
  BY <1>1, ServingStep DEF RewriteFails, world, Inv

LEMMA RestartStep ==
    ASSUME Inv, Restart
    PROVE  Inv' /\ NewAlert
<1>1. Refilled \in [Watched -> 0..FullCredits]
  BY MonitorAssumption DEF Refilled
<1>2. s' = [s EXCEPT !.writeMode = FALSE, !.queue = <<>>, !.credits = Refilled]
  BY DEF Restart
<1>3. Serves(s, s')
  BY <1>1, <1>2 DEF Inv, IsVault, Fields, Serves, Unreported
<1> QED
  BY <1>3, ServingStep DEF Restart, Inv

\* Whoever works on the files touches the queue only.
LEMMA OthersStep ==
    ASSUME Inv, Others
    PROVE  Inv' /\ NewAlert
<1>1. content' \in [Files -> Versions]
  <2>1. content \in [Files -> Versions] /\ {0} \cup 1..MaxVersion \subseteq Versions
    BY MonitorAssumption DEF Inv, Versions
  <2>2. content' = content \/ \E f \in Files, c \in {0} \cup 1..MaxVersion : content' = [content EXCEPT ![f] = c]
    BY DEF Others, Read, Chmod, Unlink, Write, Arrive, RemoveDir, MakeDir
  <2> QED
    BY <2>1, <2>2
<1>2. UNCHANGED lapsed
  BY DEF Others, Touch, Read, Chmod, Unlink, Write, Arrive, RemoveDir, MakeDir
<1>3. Serves(s, s')
  <2>1. (\E es : s' = Emit(s, es)) \/ s' = s
    <3>1. ASSUME NEW es, Touch(es)
          PROVE  s' = Emit(s, es)
      BY <3>1 DEF Touch
    <3> QED
      BY <3>1 DEF Others, Read, Chmod, Unlink, Write, Arrive, RemoveDir, MakeDir
  <2> QED
    BY <2>1, EmitServes, ServesItself DEF Inv
<1> QED
  BY <1>1, <1>2, <1>3, ServingStep

LEMMA RefillStep ==
    ASSUME Inv, Refill
    PROVE  Inv' /\ NewAlert
<1> DEFINE more == [f \in Watched |-> IF s.credits[f] < FullCredits THEN s.credits[f] + 1 ELSE s.credits[f]]
<1>1. more \in [Watched -> 0..FullCredits]
  <2>1. s.credits \in [Watched -> 0..FullCredits] /\ FullCredits \in Nat
    BY MonitorAssumption DEF Inv, IsVault, Fields
  <2> QED
    BY <2>1
<1>2. s' = [s EXCEPT !.credits = more]
  BY DEF Refill
<1> HIDE DEF more
<1>3. Serves(s, s')
  BY <1>1, <1>2 DEF Inv, IsVault, Fields, Serves, Unreported
<1> QED
  BY <1>3, ServingStep DEF Refill, world, ghost, Inv

\* An alert that was reported is there, or was left by a lockout.
LEMMA IntervalEndsStep ==
    ASSUME Inv, IntervalEnds
    PROVE  Inv' /\ NewAlert
<1>1. Refilled \in [Watched -> 0..FullCredits]
  BY MonitorAssumption DEF Refilled
<1>2. s.last = "recent" /\ s' = [s EXCEPT !.last = "due", !.credits = Refilled]
      /\ UNCHANGED <<content, lapsed>>
  BY DEF IntervalEnds, world, ghost
<1>3. IsVault(s') /\ s'.status = s.status /\ s'.flagged = s.flagged
  BY <1>1, <1>2 DEF Inv, IsVault, Fields
<1> QED
  BY <1>2, <1>3 DEF Inv, IsVault, Sound, Unreported, NewAlert

LEMMA InvStep ==
    ASSUME Inv, [Next]_vars
    PROVE  Inv' /\ (s' # s => NewAlert)
<1>1. CASE UNCHANGED vars
  BY <1>1 DEF vars, world, ghost, Inv, IsVault, Fields, Sound, Unreported
<1>2. CASE MonitorGone
  <2>1. Serves(s, s')
    BY <1>2, ServesItself DEF MonitorGone, Inv
  <2> QED
    BY <1>2, <2>1, ServingStep DEF MonitorGone, world, Inv
<1>3. CASE Monitor
  BY <1>3, StartupStep, WakeStep, HandleEventStep, EndTurnStep DEF Monitor
<1>4. CASE Commands
  BY <1>4, CommandScanStep, ResolveStep, LockStep, UnlockStep, RewriteStep, RewriteFailsStep,
     RestartStep DEF Commands
<1>5. CASE Others
  BY <1>5, OthersStep
<1>6. CASE Refill
  BY <1>6, RefillStep
<1>7. CASE IntervalEnds
  BY <1>7, IntervalEndsStep
<1> QED
  BY <1>1, <1>2, <1>3, <1>4, <1>5, <1>6, <1>7 DEF Next

LEMMA InvInit == Init => Inv
<1> SUFFICES ASSUME Init PROVE Inv
  OBVIOUS
<1>1. Refilled \in [Watched -> 0..FullCredits] /\ 0 \in 0..MaxIdx
  BY MonitorAssumption DEF Refilled
<1>2. [f \in Files |-> 0] \in [Files -> Versions]
  BY MonitorAssumption DEF Versions
<1>3. content \in [Files -> Versions]
  <2>1. content \in [Files -> {0, 1}]
    BY DEF Init
  <2> QED
    BY <2>1, MonitorAssumption DEF Versions
<1>4. IsVault(s) /\ Sound(s)
  BY <1>1, <1>2 DEF Init, IsVault, Fields, Sound, Unreported
<1> QED
  BY <1>3, <1>4 DEF Inv, Init

-----------------------------------------------------------------------------
(* Sequences *)

\* The principle of the least element, for a set of numbers.
LEMMA LeastElement ==
    ASSUME NEW T \in SUBSET Nat, T # {}
    PROVE  \E m \in T : \A k \in T : m <= k
<1> DEFINE R == OpToRel(<, Nat)
<1>1. IsWellFoundedOn(R, Nat)
  BY NatLessThanWellFounded
<1>2. \A x, y \in Nat : <<x, y>> \in R <=> x < y
  BY DEF OpToRel
<1> HIDE DEF R
<1>3. PICK m \in T : \A k \in T : <<k, m>> \notin R
  BY <1>1, WFMin
<1>4. \A k \in T : m <= k
  <2> TAKE k \in T
  <2>1. m \in Nat /\ k \in Nat /\ <<k, m>> \notin R
    BY <1>3
  <2>2. ~(k < m)
    BY <1>2, <2>1
  <2> QED
    BY <2>1, <2>2
<1> QED
  BY <1>4

\* Induction over the numbers, for a set of them.
LEMMA InductionOverSets ==
    ASSUME NEW T \in SUBSET Nat, 0 \in T, \A n \in T : n + 1 \in T
    PROVE  T = Nat
<1> SUFFICES ASSUME Nat \ T # {} PROVE FALSE
  OBVIOUS
<1>1. PICK m \in Nat \ T : \A k \in Nat \ T : m <= k
  BY LeastElement
<1>2. m # 0 /\ m - 1 \in Nat /\ m - 1 \in T
  BY <1>1
<1> QED
  BY <1>1, <1>2

\* A finite set has a listing.
LEMMA SetToSeqType ==
    ASSUME NEW S, IsFiniteSet(S)
    PROVE  SetToSeq(S) \in Seq(S)
<1>1. Cardinality(S) \in Nat /\ ExistsBijection(1..Cardinality(S), S)
  BY FS_CardinalityType
<1>2. \E f \in [1..Cardinality(S) -> S] : IsInjective(f)
  BY <1>1 DEF ExistsBijection, Bijection, Injection, IsInjective
<1>3. SetToSeq(S) \in [1..Cardinality(S) -> S]
  BY <1>2 DEF SetToSeq
<1> QED
  BY <1>1, <1>3

\* Sequences of S, one behind the other, are a sequence of S: the function that
\* FlattenSeq chooses exists, and all its values are such sequences.
LEMMA FlattenSeqType ==
    ASSUME NEW S, NEW seqs \in Seq(Seq(S))
    PROVE  FlattenSeq(seqs) \in Seq(S)
<1> DEFINE step(fn, x) == IF x = 1 THEN seqs[x] ELSE fn[x-1] \o seqs[x]
           n == Len(seqs)
           Flat(k) == \E g \in [1..k -> Seq(S)] : \A i \in 1..k : g[i] = step(g, i)
           T == {k \in Nat : k <= n => Flat(k)}
<1>0. n \in Nat /\ \A i \in 1..n : seqs[i] \in Seq(S)
  OBVIOUS
<1>1. CASE n = 0
  <2>1. FlattenSeq(seqs) = seqs
    BY <1>1 DEF FlattenSeq
  <2>2. seqs = <<>>
    BY <1>1
  <2> QED
    BY <2>1, <2>2
<1>2. Flat(0)
  <2>1. [i \in 1..0 |-> seqs[i]] \in [1..0 -> Seq(S)]
    OBVIOUS
  <2>2. \A i \in 1..0 : FALSE
    OBVIOUS
  <2> HIDE DEF step
  <2> QED
    BY <2>1, <2>2
<1>3. ASSUME NEW k \in Nat, Flat(k), k + 1 <= n
      PROVE  Flat(k + 1)
  <2>1. PICK g \in [1..k -> Seq(S)] : \A i \in 1..k : g[i] = step(g, i)
    BY <1>3
  <2> DEFINE h == [i \in 1..(k+1) |-> IF i = k+1 THEN step(g, k+1) ELSE g[i]]
  <2>2. step(g, k+1) \in Seq(S)
    <3>1. seqs[k+1] \in Seq(S)
      BY <1>0, <1>3
    <3>2. CASE k = 0
      BY <3>1, <3>2
    <3>3. CASE k # 0
      <4>1. g[k] \in Seq(S) /\ (k + 1) - 1 = k /\ k + 1 # 1
        BY <3>3
      <4>2. g[k] \o seqs[k+1] \in Seq(S)
        BY <3>1, <4>1, ConcatProperties
      <4>3. step(g, k+1) = g[k] \o seqs[k+1]
        BY <4>1, Zenon
      <4> QED
        BY <4>2, <4>3
    <3> QED
      BY <3>2, <3>3
  <2>3. h \in [1..(k+1) -> Seq(S)]
    <3> HIDE DEF step
    <3> QED
      BY <2>2
  <2>4. \A i \in 1..(k+1) : h[i] = step(h, i)
    <3> TAKE i \in 1..(k+1)
    <3>1. i # 1 => h[i-1] = g[i-1]
      OBVIOUS
    <3>2. step(h, i) = step(g, i)
      BY <3>1
    <3>3. i # k+1 => g[i] = step(g, i)
      <4> HIDE DEF step
      <4> QED
        BY <2>1
    <3>4. h[i] = IF i = k+1 THEN step(g, k+1) ELSE g[i]
      OBVIOUS
    <3> HIDE DEF step, h
    <3> QED
      BY <3>2, <3>3, <3>4
  <2> HIDE DEF h, step
  <2> QED
    BY <2>3, <2>4
<1>4. T = Nat
  <2>1. \A k \in T : k + 1 \in T
    <3> TAKE k \in T
    <3>1. k \in Nat /\ (k + 1 <= n => k <= n)
      BY <1>0
    <3> HIDE DEF Flat, n
    <3> QED
      BY <1>3, <3>1
  <2>2. 0 \in T
    <3> HIDE DEF Flat
    <3> QED
      BY <1>2
  <2> HIDE DEF T
  <2>3. T \subseteq Nat
    BY DEF T
  <2> QED
    BY <2>1, <2>2, <2>3, InductionOverSets
<1>5. Flat(n)
  <2> HIDE DEF Flat
  <2> QED
    BY <1>0, <1>4
<1>6. CASE n # 0
  <2> DEFINE IsFlat(f) == f = [i \in 1..n |-> step(f, i)]
  <2>1. FlattenSeq(seqs) = (CHOOSE f : IsFlat(f))[n]
    BY <1>6 DEF FlattenSeq
  <2>2. PICK g \in [1..n -> Seq(S)] : \A i \in 1..n : g[i] = step(g, i)
    BY <1>5
  <2>3. IsFlat(g)
    <3> HIDE DEF step
    <3> QED
      BY <2>2
  <2> DEFINE f == CHOOSE f : IsFlat(f)
  <2>4. IsFlat(f)
    <3> HIDE DEF IsFlat
    <3> QED
      BY <2>3
  <2> HIDE DEF f
  <2> DEFINE U == {k \in Nat : k \in 1..n => f[k] \in Seq(S)}
  <2>5. 0 \in U
    OBVIOUS
  <2>6. ASSUME NEW k \in U
        PROVE  k + 1 \in U
    <3>1. SUFFICES ASSUME k + 1 <= n
                   PROVE  f[k+1] \in Seq(S)
      OBVIOUS
    <3>0. k \in Nat /\ k + 1 \in 1..n
      BY <1>0, <3>1
    <3>2. f[k+1] = step(f, k+1) /\ seqs[k+1] \in Seq(S)
      <4> HIDE DEF step, n
      <4> QED
        BY <1>0, <2>4, <3>0
    <3>3. CASE k = 0
      BY <3>2, <3>3
    <3>4. CASE k # 0
      <4>1. f[k] \in Seq(S) /\ (k + 1) - 1 = k /\ k + 1 # 1
        BY <1>0, <3>1, <3>4
      <4>2. f[k] \o seqs[k+1] \in Seq(S)
        BY <3>2, <4>1, ConcatProperties
      <4>3. step(f, k+1) = f[k] \o seqs[k+1]
        BY <4>1, Zenon
      <4> QED
        BY <3>2, <4>2, <4>3
    <3> QED
      BY <3>3, <3>4
  <2>7. U = Nat
    <3> HIDE DEF U
    <3>1. U \subseteq Nat
      BY DEF U
    <3> QED
      BY <2>5, <2>6, <3>1, InductionOverSets
  <2>8. f[n] \in Seq(S)
    <3>1. n \in U /\ n \in 1..n
      BY <1>0, <1>6, <2>7
    <3> QED
      BY <3>1
  <2> QED
    BY <2>1, <2>8 DEF f
<1> QED
  BY <1>1, <1>6

-----------------------------------------------------------------------------
(* The events on their way to the monitor *)

Kinds == {"access", "modify", "attrib", "create", "delete", "arrive", "self"}

Has(q, e) == \E i \in 1..Len(q) : q[i] = e

\* What the functions of the monitor may do to the queue and to write mode: no event
\* that waits is lost, whatever is added, and write mode is not switched on.  Nothing
\* is added where nobody watches.
Holds(t, u) ==
    /\ u \in State
    /\ \A e : Has(t.queue, e) => Has(u.queue, e)
    /\ watch # "live" => u.queue = t.queue
Keeps(t, u) == Holds(t, u) /\ (u.writeMode => t.writeMode)

\* The event of a write that an alert is owed for is in the monitor's hands or in the
\* queue.  The monitor has no events in its hands between its
\* turns, and nobody is owed anything by one that has not begun: it empties the queue.
Noticed ==
    /\ s \in State /\ batch \in Seq(Events)
    /\ turn # "events" => batch = <<>>
    /\ turn = "start" => watch = "none" /\ owed = {}
    /\ \A f \in owed : Has(batch, Ev("modify", f)) \/ Has(s.queue, Ev("modify", f))

LEMMA StateIsVault == \A t : t \in State <=> IsVault(t) /\ t.queue \in Seq(Events)
BY DEF State, IsVault, Fields

LEMMA EvType == \A k \in Kinds, f \in Watched : Ev(k, f) \in Events
BY DEF Kinds, Ev, Events

LEMMA OneEvent ==
    ASSUME NEW e \in Events
    PROVE  <<e>> \in Seq(Events) /\ <<e>> # <<>> /\ Len(<<e>>) = 1 /\ <<e>>[1] = e
OBVIOUS

LEMMA FilesFinite == \A fs \in SUBSET Files : IsFiniteSet(fs)
<1>1. IsFiniteSet({"plain", "enc"})
  <2>1. IsFiniteSet({"plain"})
    BY FS_Singleton
  <2>2. IsFiniteSet({"plain"} \cup {"enc"})
    BY <2>1, FS_AddElement
  <2>3. {"plain", "enc"} = {"plain"} \cup {"enc"}
    OBVIOUS
  <2> QED
    BY <2>2, <2>3
<1>2. IsFiniteSet(Files)
  BY <1>1, FS_Product, MonitorAssumption DEF Files
<1> QED
  BY <1>2, FS_Subset

\* Reading a directory and doing something to each of its files makes events, at
\* least that of the directory.
LEMMA ForEachType ==
    ASSUME NEW k \in Kinds, NEW fs \in SUBSET Files
    PROVE  ForEach(k, fs) \in Seq(Events)
<1>1. InOrder(fs) \in Seq(fs)
  BY FilesFinite, SetToSeqType DEF InOrder
<1>2. \A i \in 1..Len(InOrder(fs)) : Ev(k, InOrder(fs)[i]) \in Events
  BY <1>1, EvType DEF Watched
<1>3. Len(InOrder(fs)) \in Nat
  BY <1>1
<1> QED
  BY <1>2, <1>3 DEF ForEach

LEMMA ListedType ==
    ASSUME NEW es \in Seq(Events)
    PROVE  Listed(es) \in Seq(Events) /\ Listed(es) # <<>>
<1>1. <<Ev("access", Self)>> \in Seq(Events) /\ Len(<<Ev("access", Self)>>) = 1
  BY EvType DEF Kinds, Watched
<1>2. Listed(es) \in Seq(Events) /\ Len(Listed(es)) = 1 + Len(es)
  BY <1>1, ConcatProperties DEF Listed
<1>3. Len(es) \in Nat
  OBVIOUS
<1> QED
  BY <1>2, <1>3, EmptySeq

LEMMA HasConcat ==
    ASSUME NEW q \in Seq(Events), NEW r \in Seq(Events)
    PROVE  \A e : Has(q, e) => Has(q \o r, e)
<1> TAKE e
<1> HAVE Has(q, e)
<1>1. PICK i \in 1..Len(q) : q[i] = e
  BY DEF Has
<1>2. i \in 1..Len(q \o r) /\ (q \o r)[i] = q[i]
  BY ConcatProperties
<1> QED
  BY <1>1, <1>2 DEF Has

\* The kernel adds behind what is there, and adds something if nothing is there.
LEMMA QueuedType ==
    ASSUME NEW q \in Seq(Events), NEW es \in Seq(Events), es # <<>>
    PROVE  /\ Queued(q, es) \in Seq(Events) /\ Queued(q, es) # <<>>
           /\ \A e : Has(q, e) => Has(Queued(q, es), e)
<1> DEFINE fresh == IF q # <<>> /\ Last(q) = Head(es) THEN Tail(es) ELSE es
           room  == QueueBound - Len(q)
           more  == IF Len(fresh) <= room THEN fresh ELSE SubSeq(fresh, 1, room)
<1>1. fresh \in Seq(Events) /\ Len(fresh) \in Nat
  BY HeadTailProperties
<1>2. room \in Int /\ Len(q) \in Nat /\ QueueBound \in Nat \ {0}
  BY MonitorAssumption
<1>3. more \in Seq(Events) /\ Len(more) = IF Len(fresh) <= room THEN Len(fresh)
                                          ELSE IF 1 <= room THEN room ELSE 0
  <2> HIDE DEF fresh, room
  <2>1. CASE Len(fresh) <= room
    BY <1>1, <2>1
  <2>2. CASE ~(Len(fresh) <= room)
    <3>1. \A i \in 1..room : fresh[i] \in Events
      BY <1>1, <1>2, <2>2
    <3>2. SubSeq(fresh, 1, room) \in Seq(Events)
          /\ Len(SubSeq(fresh, 1, room)) = IF 1 <= room THEN room - 1 + 1 ELSE 0
      BY <1>2, <3>1, SubSeqProperties
    <3> QED
      BY <1>2, <2>2, <3>2
  <2> QED
    BY <2>1, <2>2
<1>4. Queued(q, es) = q \o more
  BY DEF Queued
<1>5. q = <<>> => Len(more) # 0
  <2> SUFFICES ASSUME q = <<>> PROVE Len(more) # 0
    OBVIOUS
  <2>1. fresh = es /\ Len(es) # 0
    OBVIOUS
  <2>2. room = QueueBound
    BY <1>2
  <2> HIDE DEF fresh, room, more
  <2> QED
    BY <1>1, <1>2, <1>3, <2>1, <2>2
<1> HIDE DEF more
<1>6. Len(q \o more) = Len(q) + Len(more) /\ q \o more \in Seq(Events)
  BY <1>3, ConcatProperties
<1>7. Len(q) + Len(more) # 0
  BY <1>2, <1>3, <1>5
<1> QED
  BY <1>3, <1>4, <1>6, <1>7, HasConcat, EmptySeq

LEMMA KeepsItself == \A t \in State : Keeps(t, t)
BY DEF Keeps, Holds

LEMMA KeepsTwice ==
    ASSUME NEW t, NEW u, NEW w, Keeps(t, u), Keeps(u, w)
    PROVE  Keeps(t, w)
BY DEF Keeps, Holds

\* What leaves queue and write mode alone.
LEMMA SameQueueKeeps ==
    ASSUME NEW t, NEW u, t \in State, IsVault(u), u.queue = t.queue, u.writeMode = t.writeMode
    PROVE  Keeps(t, u)
BY StateIsVault DEF Keeps, Holds

LEMMA EmitKeeps ==
    ASSUME NEW t \in State, NEW es \in Seq(Events), es # <<>>
    PROVE  /\ Keeps(t, Emit(t, es))
           /\ watch = "live" => Emit(t, es).queue # <<>>
<1>1. t.queue \in Seq(Events)
  BY DEF State
<1>2. CASE watch = "live"
  <2>1. Emit(t, es) = [t EXCEPT !.queue = Queued(t.queue, es)]
    BY <1>2 DEF Emit
  <2>2. Emit(t, es) \in State /\ Emit(t, es).queue = Queued(t.queue, es)
        /\ Emit(t, es).writeMode = t.writeMode
    BY <1>1, <2>1, QueuedType DEF State
  <2> QED
    BY <1>1, <1>2, <2>2, QueuedType DEF Keeps, Holds
<1>3. CASE watch # "live"
  BY <1>3, KeepsItself DEF Emit
<1> QED
  BY <1>2, <1>3

LEMMA SetWriteModeKeeps ==
    ASSUME NEW t \in State, NEW on \in BOOLEAN
    PROVE  /\ Holds(t, SetWriteMode(t, on))
           /\ ~on => Keeps(t, SetWriteMode(t, on))
<1> DEFINE u == Emit(t, Listed(ForEach("attrib", Present)))
<1>1. Keeps(t, u)
  <2>1. ForEach("attrib", Present) \in Seq(Events)
    BY ForEachType DEF Present, Kinds
  <2> QED
    BY <2>1, ListedType, EmitKeeps
<1>2. SetWriteMode(t, on) = IF exists THEN [u EXCEPT !.writeMode = on] ELSE t
  BY DEF SetWriteMode
<1> HIDE DEF u
<1>3. /\ [u EXCEPT !.writeMode = on] \in State
      /\ [u EXCEPT !.writeMode = on].queue = u.queue
      /\ [u EXCEPT !.writeMode = on].writeMode = on
  BY <1>1 DEF Keeps, Holds, State
<1> QED
  BY <1>1, <1>2, <1>3, KeepsItself DEF Keeps, Holds

LEMMA EnforceKeeps == \A t \in State : Keeps(t, Enforce(t))
BY SetWriteModeKeeps DEF Enforce

LEMMA AlertTriggerKeeps == \A t \in State : Keeps(t, AlertTrigger(t))
<1> TAKE t \in State
<1>1. IsVault(t)
  BY StateIsVault
<1>2. IsVault(AlertTrigger(t))
  BY <1>1, AlertTriggerServes DEF Serves
<1>3. AlertTrigger(t).queue = t.queue /\ AlertTrigger(t).writeMode = t.writeMode
  BY DEF AlertTrigger, State
<1> QED
  BY <1>2, <1>3, SameQueueKeeps

LEMMA AlertThenEnforceKeeps == \A t \in State : Keeps(t, Enforce(AlertTrigger(t)))
<1> TAKE t \in State
<1>1. Keeps(t, AlertTrigger(t)) /\ AlertTrigger(t) \in State
  BY AlertTriggerKeeps DEF Keeps, Holds
<1> QED
  BY <1>1, EnforceKeeps, KeepsTwice

\* A handler that raises the alarm leaves the vault in ALERT.
LEMMA AlarmAlerts ==
    ASSUME NEW t \in State
    PROVE  Enforce(AlertTrigger(t)).status = "ALERT"
<1>1. IsVault(t)
  BY StateIsVault
<1>2. Serves(t, AlertTrigger(t)) /\ AlertTrigger(t).status = "ALERT"
  BY <1>1, AlertTriggerServes
<1>3. Serves(AlertTrigger(t), Enforce(AlertTrigger(t)))
  BY <1>2, EnforceServes DEF Serves
<1> QED
  BY <1>2, <1>3 DEF Serves

LEMMA ScanKeeps ==
    ASSUME NEW t \in State, NEW kept, content \in [Files -> Versions]
    PROVE  Keeps(t, Scan(t, kept))
<1> DEFINE changed == {f \in Present : t.hash[f] \notin {0, content[f]}}
           same    == {f \in Present : t.hash[f] = content[f]}
           u       == Emit(t, Listed(ForEach("access", Present)))
           read    == [u EXCEPT !.flagged = (@ \cup changed) \ same,
                                !.hash = [f \in Files |-> IF f \in Present /\ f \notin changed \cap kept
                                                          THEN content[f] ELSE @[f]]]
<1>1. Keeps(t, u) /\ u \in State
  <2>1. ForEach("access", Present) \in Seq(Events)
    BY ForEachType DEF Present, Kinds
  <2> QED
    BY <2>1, ListedType, EmitKeeps DEF Keeps, Holds
<1>2. changed \subseteq Files
  BY DEF Present
<1>3. read \in State /\ read.queue = u.queue /\ read.writeMode = u.writeMode
  <2> HIDE DEF u, changed, same
  <2> QED
    BY <1>1, <1>2 DEF State
<1>4. Scan(t, kept) = IF ~exists THEN t
                      ELSE IF changed \ t.flagged # {} THEN AlertTrigger(read) ELSE read
  BY DEF Scan
<1> HIDE DEF changed, same, u, read
<1>5. Keeps(t, read)
  BY <1>1, <1>3 DEF Keeps, Holds
<1>6. Keeps(t, AlertTrigger(read))
  BY <1>3, <1>5, AlertTriggerKeeps, KeepsTwice
<1> QED
  BY <1>4, <1>5, <1>6, KeepsItself

LEMMA DeductKeeps ==
    ASSUME NEW t \in State, NEW f \in Watched
    PROVE  Keeps(t, Deduct(t, f))
<1> DEFINE empty == [t EXCEPT !.credits[f] = 0]
           less  == [t EXCEPT !.credits[f] = @ - 1]
<1>0. t.credits \in [Watched -> 0..FullCredits] /\ FullCredits \in Nat
  BY MonitorAssumption DEF State
<1>1. CASE t.credits[f] <= 1
  <2>1. [t.credits EXCEPT ![f] = 0] \in [Watched -> 0..FullCredits]
    BY <1>0
  <2>2. Keeps(t, empty) /\ empty \in State
    BY <2>1 DEF Keeps, Holds, State
  <2>3. Deduct(t, f) = Enforce(AlertTrigger(empty))
    BY <1>1 DEF Deduct
  <2> HIDE DEF empty
  <2> QED
    BY <2>2, <2>3, AlertThenEnforceKeeps, KeepsTwice
<1>2. CASE ~(t.credits[f] <= 1)
  <2>1. [t.credits EXCEPT ![f] = @ - 1] \in [Watched -> 0..FullCredits]
    <3>1. t.credits[f] - 1 \in 0..FullCredits
      BY <1>0, <1>2
    <3> QED
      BY <1>0, <3>1
  <2>2. Keeps(t, less)
    BY <2>1 DEF Keeps, Holds, State
  <2> QED
    BY <1>2, <2>2 DEF Deduct
<1> QED
  BY <1>1, <1>2

LEMMA RespondKeeps ==
    ASSUME NEW t \in State, NEW e, NEW suspicious, NEW kept, content \in [Files -> Versions]
    PROVE  Keeps(t, Respond(t, e, suspicious, kept))
<1> Keeps(t, t)
  BY KeepsItself
<1> Keeps(t, Scan(t, kept))
  BY ScanKeeps
<1> Keeps(t, AlertTrigger(t))
  BY AlertTriggerKeeps
<1> Keeps(t, Enforce(AlertTrigger(t)))
  BY AlertThenEnforceKeeps
<1> QED
  BY DEF Respond

\* A modification outside write mode leaves the vault in ALERT, also when the credits
\* of the file have just run out.
LEMMA HandleKeeps ==
    ASSUME NEW t \in State, NEW e \in Events, NEW suspicious, NEW kept, content \in [Files -> Versions]
    PROVE  /\ Keeps(t, Handle(t, e, suspicious, kept))
           /\ e.kind = "modify" /\ ~t.writeMode => Handle(t, e, suspicious, kept).status = "ALERT"
<1> DEFINE u == IF e.kind # "self" /\ ~t.writeMode THEN Deduct(t, e.file) ELSE t
<1>1. Keeps(t, u) /\ u \in State
  <2>1. e.file \in Watched
    BY DEF Events
  <2> QED
    BY <2>1, KeepsItself, DeductKeeps DEF Keeps, Holds
<1>2. Handle(t, e, suspicious, kept) = Respond(u, e, suspicious, kept)
  BY DEF Handle
<1> HIDE DEF u
<1>3. Keeps(u, Respond(u, e, suspicious, kept))
  BY <1>1, RespondKeeps
<1>4. e.kind = "modify" /\ ~t.writeMode => Respond(u, e, suspicious, kept) = Enforce(AlertTrigger(u))
  <2>1. u.writeMode => t.writeMode
    BY <1>1 DEF Keeps
  <2> QED
    BY <2>1 DEF Respond
<1> QED
  BY <1>1, <1>2, <1>3, <1>4, AlarmAlerts, KeepsTwice

LEMMA EscalateKeeps == \A t \in State : Keeps(t, Escalate(t))
<1> TAKE t \in State
<1>1. IsVault(Escalate(t))
  BY StateIsVault, EscalateShape
<1>2. Escalate(t).queue = t.queue /\ Escalate(t).writeMode = t.writeMode
  BY DEF Escalate, State
<1> QED
  BY <1>1, <1>2, SameQueueKeeps

-----------------------------------------------------------------------------
(* The steps, and the events that wait *)

\* The steps that neither hand events to the monitor nor take any from it.
LEMMA KeepingStep ==
    ASSUME Noticed, Holds(s, s'), UNCHANGED <<batch, turn>>, owed' \subseteq owed,
           turn = "start" => watch' = "none"
    PROVE  Noticed'
<1>1. s' \in State /\ \A e : Has(s.queue, e) => Has(s'.queue, e)
  BY DEF Holds
<1>2. \A f \in owed' : Has(batch, Ev("modify", f)) \/ Has(s'.queue, Ev("modify", f))
  BY <1>1 DEF Noticed
<1>3. (\A f \in owed : Has(batch, Ev("modify", f)) \/ Has(s.queue, Ev("modify", f)))'
  BY <1>2 DEF Has, Ev
<1> QED
  BY <1>1, <1>3 DEF Noticed, State, Events, Watched

\* The steps after which nothing is owed.
LEMMA NothingOwedStep ==
    ASSUME s' \in State, batch' \in Seq(Events), owed' = {},
           turn' # "events" => batch' = <<>>,
           turn' = "start" => watch' = "none"
    PROVE  Noticed'
BY DEF Noticed, State, Events, Watched

LEMMA StartupNotice ==
    ASSUME Inv, Noticed, Startup
    PROVE  Noticed'
<1>1. PICK kept \in Keepable :
        s' = IF exists
             THEN [Scan(s, kept) EXCEPT !.queue = Queued(<<>>, Listed(ForEach("access", Present)))]
             ELSE Scan(s, kept)
  BY DEF Startup
<1>2. Scan(s, kept) \in State
  BY ScanKeeps DEF Inv, Noticed, Keeps, Holds
<1>3. Queued(<<>>, Listed(ForEach("access", Present))) \in Seq(Events)
  <2>1. ForEach("access", Present) \in Seq(Events) /\ <<>> \in Seq(Events)
    BY ForEachType DEF Present, Kinds
  <2> QED
    BY <2>1, ListedType, QueuedType
<1>4. s' \in State
  BY <1>1, <1>2, <1>3 DEF State
<1> QED
  BY <1>4, NothingOwedStep DEF Startup, Noticed, ghost

\* The events go from the queue into the monitor's hands.
LEMMA WakeNotice ==
    ASSUME Noticed, Wake
    PROVE  Noticed'
<1>1. s.queue \in Seq(Events) /\ batch = <<>>
  BY DEF Noticed, Wake, State
<1>2. batch' = s.queue /\ turn' = "events" /\ owed' = owed
  BY DEF Wake, ghost
<1>3. s' \in State /\ s'.writeMode = s.writeMode
  BY DEF Noticed, Wake, State
<1>4. \A f \in owed : Has(s.queue, Ev("modify", f))
  BY <1>1 DEF Noticed, Has
<1>5. (\A f \in owed : Has(batch, Ev("modify", f)) \/ Has(s.queue, Ev("modify", f)))'
  BY <1>2, <1>4 DEF Has, Ev
<1> QED
  BY <1>1, <1>2, <1>3, <1>5 DEF Noticed, State, Events, Watched

\* The event that goes out of the monitor's hands is that of a file only if the file
\* is no longer owed its alert.
LEMMA HandleEventNotice ==
    ASSUME Inv, Noticed, HandleEvent
    PROVE  Noticed'
<1>1. batch \in Seq(Events) /\ batch # <<>> /\ s \in State /\ batch' = Tail(batch)
      /\ turn = "events" /\ turn' = "events"
  BY DEF Noticed, HandleEvent
<1>2. Head(batch) \in Events /\ Head(batch) = batch[1] /\ batch' \in Seq(Events)
      /\ \A i \in 1..Len(batch) : i # 1 => i - 1 \in 1..Len(batch') /\ batch'[i - 1] = batch[i]
  BY <1>1
<1>3. PICK suspicious \in Suspicion, kept \in Keepable : s' = Handle(s, Head(batch), suspicious, kept)
  BY DEF HandleEvent
<1>4. Keeps(s, s') /\ (Head(batch).kind = "modify" /\ ~s.writeMode => s'.status = "ALERT")
  BY <1>1, <1>2, <1>3, HandleKeeps DEF Inv
<1>5. owed' \subseteq owed
      /\ (Head(batch).kind = "modify" /\ (s'.status = "ALERT" \/ s.writeMode) => Head(batch).file \notin owed')
  BY DEF HandleEvent
<1>6. ASSUME NEW f \in owed', Has(batch, Ev("modify", f))
      PROVE  Has(batch', Ev("modify", f))
  <2>1. PICK i \in 1..Len(batch) : batch[i] = Ev("modify", f)
    BY <1>6 DEF Has
  <2>2. CASE i = 1
    <3>1. Head(batch).kind = "modify" /\ Head(batch).file = f
      BY <1>2, <2>1, <2>2 DEF Ev
    <3> QED
      BY <1>4, <1>5, <3>1
  <2>3. CASE i # 1
    BY <1>2, <2>1, <2>3 DEF Has
  <2> QED
    BY <2>2, <2>3
<1>7. \A f \in owed' : Has(s.queue, Ev("modify", f)) => Has(s'.queue, Ev("modify", f))
  BY <1>4 DEF Keeps, Holds
<1>8. \A f \in owed' : Has(batch', Ev("modify", f)) \/ Has(s'.queue, Ev("modify", f))
  BY <1>5, <1>6, <1>7 DEF Noticed
<1>9. (\A f \in owed : Has(batch, Ev("modify", f)) \/ Has(s.queue, Ev("modify", f)))'
  BY <1>8 DEF Has, Ev
<1>10. s' \in State
  BY <1>4 DEF Keeps, Holds
<1> QED
  BY <1>1, <1>2, <1>9, <1>10 DEF Noticed, State, Events, Watched

LEMMA EndTurnNotice ==
    ASSUME Noticed, EndTurn
    PROVE  Noticed'
<1>1. Keeps(s, s') /\ batch' = <<>> /\ batch = <<>> /\ turn' = "select" /\ owed' = owed
  BY EscalateKeeps DEF EndTurn, Noticed, ghost
<1>2. s' \in State
  BY <1>1 DEF Keeps, Holds
<1>3. \A f \in owed' : Has(batch', Ev("modify", f)) \/ Has(s'.queue, Ev("modify", f))
  BY <1>1 DEF Noticed, Keeps, Holds
<1>4. (\A f \in owed : Has(batch, Ev("modify", f)) \/ Has(s.queue, Ev("modify", f)))'
  BY <1>3 DEF Has, Ev
<1> QED
  BY <1>1, <1>2, <1>4 DEF Noticed, State, Events, Watched

LEMMA MonitorGoneNotice ==
    ASSUME Noticed, MonitorGone
    PROVE  Noticed'
BY NothingOwedStep DEF MonitorGone, Noticed, world

LEMMA CommandNotice ==
    ASSUME Inv, Noticed, CommandScan \/ Resolve \/ Lock \/ Unlock
    PROVE  Noticed' /\ Holds(s, s')
<1>1. UNCHANGED <<batch, turn>> /\ UNCHANGED <<world, owed>>
  BY DEF CommandScan, Resolve, Lock, Unlock, Command
<1>2. Keeps(s, s')
  <2>1. CASE CommandScan
    BY <2>1, ScanKeeps DEF CommandScan, Inv, Noticed
  <2>2. CASE Resolve
    <3> DEFINE cleared == [s EXCEPT !.status = "OK", !.flagged = {},
                                    !.triggered = FALSE, !.last = "never", !.idx = 0]
    <3>1. 0 \in 0..MaxIdx
      BY MonitorAssumption
    <3>2. Keeps(s, cleared) /\ cleared \in State
      BY <3>1 DEF Noticed, State, Keeps, Holds
    <3>3. s' = Enforce(cleared)
      BY <2>2 DEF Resolve
    <3> HIDE DEF cleared
    <3> QED
      BY <3>2, <3>3, EnforceKeeps, KeepsTwice
  <2>3. CASE Lock
    BY <2>3 DEF Lock, Noticed, State, Keeps, Holds
  <2>4. CASE Unlock
    BY <2>4 DEF Unlock, Noticed, State, Keeps, Holds
  <2> QED
    BY <2>1, <2>2, <2>3, <2>4
<1>3. turn = "start" => watch' = "none"
  BY <1>1 DEF Noticed, world
<1> QED
  BY <1>1, <1>2, <1>3, KeepingStep DEF Keeps

\* The events of an encryption are events, and write mode ends with it.
LEMMA RewriteNotice ==
    ASSUME Inv, Noticed, NEW from \in {"plain", "enc"}, NEW to \in {"plain", "enc"}, Rewrite(from, to)
    PROVE  Noticed' /\ Holds(s, s')
<1> DEFINE source == {f \in Present : f[2] = from}
           target(f) == <<f[1], to>>
           made(f) == (IF content[target(f)] = 0 THEN <<Ev("create", target(f))>> ELSE <<>>)
                      \o <<Ev("access", f), Ev("modify", target(f)), Ev("delete", f)>>
           after == [f \in Files |-> IF f \in source THEN 0
                                     ELSE IF <<f[1], from>> \in source THEN content[<<f[1], from>>]
                                     ELSE content[f]]
           order == InOrder(source)
           each  == [i \in 1..Len(order) |-> made(order[i])]
           work  == FlattenSeq(each)
           modes == ForEach("attrib", {f \in Files : after[f] # 0})
           a == SetWriteMode(s, TRUE)
           b == Emit(a, Listed(work))
           c == Emit(b, Listed(modes))
<1>1. s' = [c EXCEPT !.writeMode = FALSE]
  BY DEF Rewrite
<1>2. \A f \in source : made(f) \in Seq(Events)
  <2> TAKE f \in source
  <2>1. f \in Watched /\ target(f) \in Watched
    BY DEF Present, Files, Watched
  <2>2. Ev("create", target(f)) \in Events /\ Ev("access", f) \in Events
        /\ Ev("modify", target(f)) \in Events /\ Ev("delete", f) \in Events
    BY <2>1, EvType DEF Kinds
  <2> HIDE DEF source, target
  <2>3. <<Ev("access", f), Ev("modify", target(f)), Ev("delete", f)>> \in Seq(Events)
    BY <2>2
  <2>4. (IF content[target(f)] = 0 THEN <<Ev("create", target(f))>> ELSE <<>>) \in Seq(Events)
    BY <2>2
  <2> QED
    BY <2>3, <2>4, ConcatProperties
<1>3. order \in Seq(source)
  <2>1. source \subseteq Files
    BY DEF Present
  <2> QED
    BY <2>1, FilesFinite, SetToSeqType DEF InOrder
<1>4. each \in Seq(Seq(Events))
  <2> HIDE DEF source, order, made
  <2>1. \A i \in 1..Len(order) : made(order[i]) \in Seq(Events)
    BY <1>2, <1>3
  <2>2. Len(order) \in Nat
    BY <1>3
  <2> QED
    BY <2>1, <2>2
<1>5. work \in Seq(Events)
  <2> HIDE DEF each
  <2> QED
    BY <1>4, FlattenSeqType
<1>6. modes \in Seq(Events)
  BY ForEachType DEF Kinds
<1> HIDE DEF work, modes
<1>7. Holds(s, a) /\ a \in State
  BY SetWriteModeKeeps DEF Noticed, Holds
<1> HIDE DEF a
<1>8. Keeps(a, b) /\ b \in State
  BY <1>5, <1>7, ListedType, EmitKeeps DEF Keeps, Holds
<1> HIDE DEF b
<1>9. Keeps(b, c) /\ c \in State
  BY <1>6, <1>8, ListedType, EmitKeeps DEF Keeps, Holds
<1> HIDE DEF c
<1>10. s' \in State /\ s'.queue = c.queue /\ s'.writeMode = FALSE
  BY <1>1, <1>9 DEF State
<1>11. Keeps(s, s')
  <2>1. /\ \A e : Has(s.queue, e) => Has(c.queue, e)
        /\ watch # "live" => c.queue = s.queue
    BY <1>7, <1>8, <1>9 DEF Keeps, Holds
  <2> QED
    BY <1>10, <2>1 DEF Keeps, Holds
<1>12. UNCHANGED <<batch, turn>> /\ UNCHANGED <<watch, owed>>
  BY DEF Rewrite, Command
<1> QED
  BY <1>11, <1>12, KeepingStep DEF Noticed, Keeps

LEMMA RewriteFailsNotice ==
    ASSUME Noticed, RewriteFails
    PROVE  Noticed' /\ Holds(s, s')
<1>1. Holds(s, s')
  BY SetWriteModeKeeps DEF RewriteFails, Noticed
<1>2. UNCHANGED <<batch, turn>> /\ UNCHANGED <<watch, owed>>
  BY DEF RewriteFails, Command, world
<1> QED
  BY <1>1, <1>2, KeepingStep DEF Noticed

LEMMA RestartNotice ==
    ASSUME Noticed, Restart
    PROVE  Noticed'
<1>1. Refilled \in [Watched -> 0..FullCredits] /\ <<>> \in Seq(Events)
  BY MonitorAssumption DEF Refilled
<1>2. s' = [s EXCEPT !.writeMode = FALSE, !.queue = <<>>, !.credits = Refilled]
  BY DEF Restart
<1>3. s' \in State
  BY <1>1, <1>2 DEF Noticed, State
<1> QED
  BY <1>1, <1>3, NothingOwedStep DEF Restart

\* A write's own event is the last in the queue, and the queue is not empty: so it is
\* one of those that wait.
LEMMA WriteNotice ==
    ASSUME Noticed, NEW f \in Files, NEW c \in 1..MaxVersion, Write(f, c)
    PROVE  Noticed'
<1> DEFINE es == IF f \in Present THEN <<Ev("modify", f)>> ELSE <<Ev("create", f), Ev("modify", f)>>
<1>1. es \in Seq(Events) /\ es # <<>>
  <2>1. Ev("modify", f) \in Events /\ Ev("create", f) \in Events
    BY EvType DEF Kinds, Watched
  <2> QED
    BY <2>1
<1>2. s' = Emit(s, es) /\ UNCHANGED <<watch, batch, turn>>
  BY DEF Write, Touch
<1>3. owed' = owed \/ /\ owed' = owed \cup {f} /\ watch = "live"
                      /\ Last(s'.queue) = Ev("modify", f)
  BY DEF Write
<1> HIDE DEF es
<1>4. Keeps(s, s') /\ (watch = "live" => s'.queue # <<>>)
  BY <1>1, <1>2, EmitKeeps DEF Noticed
<1>5. CASE owed' = owed
  BY <1>2, <1>4, <1>5, KeepingStep DEF Noticed, Keeps
<1>6. CASE /\ owed' = owed \cup {f} /\ watch = "live"
           /\ Last(s'.queue) = Ev("modify", f)
  <2>1. s'.queue \in Seq(Events) /\ s' \in State
        /\ \A e : Has(s.queue, e) => Has(s'.queue, e)
    BY <1>4, <1>6 DEF Keeps, Holds, State
  <2>2. Has(s'.queue, Ev("modify", f))
    <3>1. Len(s'.queue) \in 1..Len(s'.queue)
      BY <1>4, <1>6, <2>1
    <3>2. s'.queue[Len(s'.queue)] = Ev("modify", f)
      BY <1>6 DEF Last
    <3> QED
      BY <3>1, <3>2 DEF Has
  <2>3. \A g \in owed' : Has(batch', Ev("modify", g)) \/ Has(s'.queue, Ev("modify", g))
    BY <1>2, <1>6, <2>1, <2>2 DEF Noticed
  <2>4. (\A g \in owed : Has(batch, Ev("modify", g)) \/ Has(s.queue, Ev("modify", g)))'
    BY <2>3 DEF Has, Ev
  <2>5. turn # "start"
    BY <1>6 DEF Noticed
  <2> QED
    BY <1>2, <2>1, <2>4, <2>5 DEF Noticed, State, Events, Watched
<1> QED
  BY <1>3, <1>5, <1>6

\* The other strangers owe nobody an alert.
LEMMA OthersNotice ==
    ASSUME Noticed, Others
    PROVE  Noticed'
<1>1. ASSUME NEW es \in Seq(Events), es # <<>>, Touch(es), owed' = owed
      PROVE  Noticed'
  <2>1. Keeps(s, s')
    BY <1>1, EmitKeeps DEF Touch, Noticed
  <2> QED
    BY <1>1, <2>1, KeepingStep DEF Touch, Noticed, Keeps
<1>2. ASSUME NEW f \in Files, NEW k \in Kinds
      PROVE  <<Ev(k, f)>> \in Seq(Events) /\ <<Ev(k, f)>> # <<>>
  <2>1. Ev(k, f) \in Events
    BY EvType DEF Watched
  <2> QED
    BY <2>1, OneEvent
<1>3. ASSUME NEW f \in Files, Read(f) \/ Chmod(f) \/ Unlink(f)
      PROVE  Noticed'
  <2>1. owed' = owed /\ (\/ Touch(<<Ev("access", f)>>)
                         \/ Touch(<<Ev("attrib", f)>>)
                         \/ Touch(<<Ev("delete", f)>>))
    BY <1>3 DEF Read, Chmod, Unlink
  <2> QED
    BY <1>1, <1>2, <2>1 DEF Kinds
<1>4. ASSUME NEW f \in Files, NEW c \in 1..MaxVersion, Arrive(f, c)
      PROVE  Noticed'
  <2>1. owed' = owed /\ Touch(<<Ev("arrive", f)>>)
    BY <1>4 DEF Arrive
  <2> QED
    BY <1>1, <1>2, <2>1 DEF Kinds
<1>5. CASE RemoveDir
  <2>1. <<Ev("self", Self)>> \in Seq(Events) /\ <<Ev("self", Self)>> # <<>>
    <3>1. Ev("self", Self) \in Events
      BY EvType DEF Kinds, Watched
    <3> QED
      BY <3>1, OneEvent
  <2>2. s' = Emit(s, <<Ev("self", Self)>>) /\ UNCHANGED <<batch, turn>> /\ owed' = owed
        /\ (watch = "none" => watch' = "none")
    BY <1>5 DEF RemoveDir
  <2>3. Keeps(s, s')
    BY <2>1, <2>2, EmitKeeps DEF Noticed
  <2> QED
    BY <2>2, <2>3, KeepingStep DEF Noticed, Keeps
<1>6. CASE MakeDir
  <2>1. UNCHANGED <<batch, turn>> /\ UNCHANGED <<s, watch, owed>>
    BY <1>6 DEF MakeDir
  <2> QED
    BY <2>1, KeepingStep, KeepsItself DEF Noticed, Keeps
<1> QED
  BY <1>3, <1>4, <1>5, <1>6, WriteNotice DEF Others

LEMMA TimeNotice ==
    ASSUME Inv, Noticed, Refill \/ IntervalEnds
    PROVE  Noticed'
<1>1. IsVault(s')
  BY RefillStep, IntervalEndsStep DEF Inv
<1>2. s'.queue = s.queue /\ s'.writeMode = s.writeMode
  BY DEF Noticed, State, Refill, IntervalEnds
<1>3. Keeps(s, s')
  BY <1>1, <1>2, SameQueueKeeps DEF Noticed
<1>4. UNCHANGED <<batch, turn>> /\ UNCHANGED <<watch, owed>>
  BY DEF Refill, IntervalEnds, world, ghost
<1> QED
  BY <1>3, <1>4, KeepingStep DEF Noticed, Keeps

LEMMA NoticedStep == Inv /\ Noticed /\ [Next]_vars => Noticed'
<1> SUFFICES ASSUME Inv, Noticed, [Next]_vars PROVE Noticed'
  OBVIOUS
<1>1. CASE UNCHANGED vars
  <2>1. UNCHANGED <<batch, turn>> /\ UNCHANGED <<s, watch, owed>>
    BY <1>1 DEF vars, world, ghost
  <2> QED
    BY <2>1, KeepingStep, KeepsItself DEF Noticed, Keeps
<1>2. CASE Monitor
  BY <1>2, StartupNotice, WakeNotice, HandleEventNotice, EndTurnNotice DEF Monitor
<1>3. CASE Commands
  BY <1>3, CommandNotice, RewriteNotice, RewriteFailsNotice, RestartNotice DEF Commands
<1> QED
  BY <1>1, <1>2, <1>3, MonitorGoneNotice, OthersNotice, TimeNotice DEF Next

LEMMA NoticedInit == Init => Noticed
<1> SUFFICES ASSUME Init PROVE Noticed
  OBVIOUS
<1>1. s.queue \in Seq(Events) /\ IsVault(s)
  BY InvInit DEF Init, Inv
<1>2. s \in State
  BY <1>1, StateIsVault
<1>3. batch \in Seq(Events)
  BY DEF Init
<1> QED
  BY <1>2, <1>3 DEF Init, Noticed

\* The variables that are neither the vault nor its events.
Rest ==
    /\ exists \in BOOLEAN /\ calm \in BOOLEAN
    /\ watch \in {"none", "live", "dead"}
    /\ turn \in {"start", "select", "events", "gone"}
    /\ steps \in 0..StepBound
    /\ owed \subseteq Files

LEMMA RestStep == Rest /\ [Next]_vars => Rest'
<1> SUFFICES ASSUME Rest, [Next]_vars PROVE Rest'
  OBVIOUS
<1>1. steps' = steps \/ (steps < StepBound /\ steps' = steps + 1)
  BY DEF Next, Monitor, Startup, Wake, HandleEvent, EndTurn, MonitorGone, Commands, CommandScan,
     Resolve, Lock, Unlock, Rewrite, RewriteFails, Restart, Command, Others, Read, Chmod, Write,
     Unlink, Arrive, Touch, RemoveDir, MakeDir, Refill, IntervalEnds, vars
<1>2. exists' \in {exists, TRUE, FALSE} /\ watch' \in {watch, "none", "live", "dead"}
  BY DEF Next, Monitor, Startup, Wake, HandleEvent, EndTurn, MonitorGone, Commands, CommandScan,
     Resolve, Lock, Unlock, Rewrite, RewriteFails, Restart, Command, Others, Read, Chmod, Write,
     Unlink, Arrive, Touch, RemoveDir, MakeDir, Refill, IntervalEnds, vars, world, AddWatches
<1>3. turn' \in {turn, "start", "select", "events", "gone"}
  BY DEF Next, Monitor, Startup, Wake, HandleEvent, EndTurn, MonitorGone, Commands, CommandScan,
     Resolve, Lock, Unlock, Rewrite, RewriteFails, Restart, Command, Others, Read, Chmod, Write,
     Unlink, Arrive, Touch, RemoveDir, MakeDir, Refill, IntervalEnds, vars
<1>4. owed' \subseteq Files
  BY DEF Rest, Next, Monitor, Startup, Wake, HandleEvent, EndTurn, MonitorGone, Commands, CommandScan,
     Resolve, Lock, Unlock, Rewrite, RewriteFails, Restart, Others, Read, Chmod, Write,
     Unlink, Arrive, RemoveDir, MakeDir, Refill, IntervalEnds, vars, ghost
<1>5. calm' = calm \/ calm' = FALSE \/ calm' = (s.queue = <<>>)
  BY DEF Next, Monitor, Startup, Wake, HandleEvent, EndTurn, MonitorGone, Commands, CommandScan,
     Resolve, Lock, Unlock, Rewrite, RewriteFails, Restart, Others, Read, Chmod, Write,
     Unlink, Arrive, Touch, RemoveDir, MakeDir, Refill, IntervalEnds, vars, ghost
<1>6. calm' \in BOOLEAN
  BY <1>5, Zenon DEF Rest
<1>7. steps' \in 0..StepBound
  BY <1>1, MonitorAssumption DEF Rest
<1> QED
  BY <1>2, <1>3, <1>4, <1>6, <1>7 DEF Rest

-----------------------------------------------------------------------------
(* The theorems *)

\* The inductive invariant of the monitor, its commands and its strangers.
THEOREM Invariance == Spec => []Inv
<1>1. Inv /\ [Next]_vars => Inv'
  BY InvStep
<1> QED
  BY <1>1, InvInit, PTL DEF Spec

\* A file that a scan has found changed keeps its vault in ALERT until somebody
\* resolves it, unless a lockout has put an end to the alert.
THEOREM FlagsCorrect == Spec => []FlagsMeanAlert
<1>1. Inv => FlagsMeanAlert
  BY DEF Inv, Sound, FlagsMeanAlert
<1> QED
  BY <1>1, Invariance, PTL

\* An alert that comes up in a vault that was OK starts a schedule of its own.
THEOREM AlertsStartAnew == Spec => NewAlertsAreNew
<1>1. Inv /\ [Next]_vars => [NewAlert]_vars
  BY InvStep DEF NewAlert
<1>2. [NewAlert]_vars <=> [s.status = "OK" /\ s'.status = "ALERT" /\ ~lapsed => s'.last = "never" /\ s'.idx = 0]_vars
  BY DEF NewAlert
<1> QED
  BY <1>1, <1>2, Invariance, PTL DEF Spec, NewAlertsAreNew

\* Only EndTurn takes the monitor from its events back to select, and it escalates.
THEOREM AlertsReported == Spec => AlertsAreReported
<1> DEFINE Reported == turn = "events" /\ turn' = "select" /\ s'.status = "ALERT" => s'.last = "recent"
<1>1. ASSUME Inv, [Next]_vars
      PROVE  Reported
  <2>1. CASE EndTurn
    BY <1>1, <2>1, EscalateShape DEF EndTurn, Inv
  <2>2. CASE UNCHANGED turn
    BY <2>2
  <2>3. CASE turn # "events"
    BY <2>3
  <2>4. Startup \/ Wake \/ HandleEvent \/ MonitorGone => turn # "events" \/ UNCHANGED turn
    BY DEF Startup, Wake, HandleEvent, MonitorGone
  <2>5. Commands => turn # "events"
    BY DEF Commands, CommandScan, Resolve, Lock, Unlock, Rewrite, RewriteFails, Restart, Command
  <2>6. Others => UNCHANGED turn
    BY DEF Others, Touch, Read, Chmod, Unlink, Write, Arrive, RemoveDir, MakeDir
  <2>7. Refill \/ IntervalEnds \/ UNCHANGED vars => UNCHANGED turn
    BY DEF Refill, IntervalEnds, vars
  <2> QED
    BY <1>1, <2>1, <2>2, <2>3, <2>4, <2>5, <2>6, <2>7 DEF Next, Monitor
<1>2. Inv /\ [Next]_vars => [Reported]_vars
  BY <1>1
<1> QED
  BY <1>2, Invariance, PTL DEF Spec, AlertsAreReported

\* Every variable keeps its type: the queue is one of events, whatever is queued,
\* merged, dropped and read, and in whatever order a directory is listed.
THEOREM Typing == Spec => []TypeOK
<1>1. Init => Rest
  <2> SUFFICES ASSUME Init PROVE Rest
    OBVIOUS
  <2>1. steps \in 0..StepBound
    BY MonitorAssumption DEF Init
  <2>2. exists = TRUE /\ calm = FALSE /\ watch = "none" /\ turn \in {"start", "select"} /\ owed = {}
    BY DEF Init
  <2> QED
    BY <2>1, <2>2 DEF Rest
<1>2. Inv /\ Noticed /\ Rest => TypeOK
  BY DEF Inv, Noticed, Rest, TypeOK
<1> QED
  BY <1>1, <1>2, Invariance, NoticedInit, NoticedStep, RestStep, PTL DEF Spec

\* The event of a write that an alert is owed for is never lost before it is handled,
\* as long as the monitor lives, and is not handled without the alert, unless a failed
\* encryption has left write mode on in between.
THEOREM WritesAnswered == Spec => []WritesNoticed
<1>1. Noticed => WritesNoticed
  <2> SUFFICES ASSUME Noticed, NEW f \in owed
               PROVE  \E i \in 1..Len(batch \o s.queue) : (batch \o s.queue)[i] = Ev("modify", f)
    BY DEF WritesNoticed
  <2>1. batch \in Seq(Events) /\ s.queue \in Seq(Events)
    BY DEF Noticed, State
  <2>2. CASE Has(batch, Ev("modify", f))
    BY <2>1, <2>2, HasConcat DEF Has
  <2>3. CASE Has(s.queue, Ev("modify", f))
    <3>1. PICK i \in 1..Len(s.queue) : s.queue[i] = Ev("modify", f)
      BY <2>3 DEF Has
    <3>2. Len(batch) + i \in 1..Len(batch \o s.queue)
          /\ (batch \o s.queue)[Len(batch) + i] = s.queue[i]
      BY <2>1, ConcatProperties
    <3> QED
      BY <3>1, <3>2
  <2> QED
    BY <2>2, <2>3 DEF Noticed
<1> QED
  BY <1>1, Invariance, NoticedInit, NoticedStep, PTL DEF Spec

\* What a directory that was removed while it was watched can still come to: the
\* process ends, or its watch stays dead and nothing new gets into the queue.
Forgotten == \/ turn' = "start"
             \/ watch' = "dead" /\ s'.queue \in {s.queue, <<>>}

\* monitor_add_vault_watches looks at inotify_wd only: a directory that is removed and made
\* again is not watched, and none of its events reaches the monitor, until the program
\* is started anew.
THEOREM DeadWatchStaysDead == Spec => [][watch = "dead" => Forgotten]_vars
<1>1. ASSUME Inv, Noticed, Next, watch = "dead"
      PROVE  Forgotten
  <2>1. s \in State /\ turn # "start" /\ content \in [Files -> Versions]
    BY <1>1 DEF Inv, Noticed
  <2>2. ASSUME Holds(s, s'), watch' = "dead" PROVE Forgotten
    BY <1>1, <2>2 DEF Holds, Forgotten
  <2>3. CASE Wake
    <3>1. s'.queue = <<>>
      BY <2>1, <2>3 DEF Wake, State
    <3> QED
      BY <1>1, <2>3, <3>1 DEF Wake, world, Forgotten
  <2>4. CASE HandleEvent
    <3>1. Head(batch) \in Events
      BY <1>1, <2>4 DEF HandleEvent, Noticed
    <3>2. Holds(s, s')
      BY <2>1, <2>4, <3>1, HandleKeeps DEF HandleEvent, Keeps
    <3> QED
      BY <1>1, <2>2, <2>4, <3>2 DEF HandleEvent, world
  <2>5. CASE EndTurn
    <3>1. Holds(s, s')
      BY <2>1, <2>5, EscalateKeeps DEF EndTurn, Keeps
    <3>2. watch' = "dead"
      BY <1>1, <2>5 DEF EndTurn, AddWatches
    <3> QED
      BY <2>2, <3>1, <3>2
  <2>6. CASE MonitorGone
    BY <1>1, <2>6 DEF MonitorGone, world, Forgotten
  <2>7. CASE CommandScan \/ Resolve \/ Lock \/ Unlock
    <3>1. watch' = "dead"
      BY <1>1, <2>7 DEF CommandScan, Resolve, Lock, Unlock, world
    <3> QED
      BY <1>1, <2>2, <2>7, <3>1, CommandNotice
  <2>8. ASSUME NEW from \in {"plain", "enc"}, NEW to \in {"plain", "enc"}, Rewrite(from, to)
        PROVE  Forgotten
    <3>1. watch' = "dead"
      BY <1>1, <2>8 DEF Rewrite
    <3> QED
      BY <1>1, <2>2, <2>8, <3>1, RewriteNotice
  <2>9. CASE RewriteFails
    <3>1. watch' = "dead"
      BY <1>1, <2>9 DEF RewriteFails, world
    <3> QED
      BY <1>1, <2>2, <2>9, <3>1, RewriteFailsNotice
  <2>10. CASE Restart
    BY <2>10 DEF Restart, Forgotten
  <2>11. CASE Others
    <3>1. (\E es : s' = Emit(s, es)) \/ s' = s
      BY <2>11 DEF Others, Read, Chmod, Unlink, Write, Arrive, Touch, RemoveDir, MakeDir
    <3>2. watch' = "dead"
      BY <1>1, <2>11 DEF Others, Read, Chmod, Unlink, Write, Arrive, Touch, RemoveDir, MakeDir
    <3> QED
      BY <1>1, <3>1, <3>2 DEF Emit, Forgotten
  <2>12. CASE Refill \/ IntervalEnds
    <3>1. s'.queue = s.queue /\ watch' = watch
      BY <2>1, <2>12 DEF Refill, IntervalEnds, State, world
    <3> QED
      BY <1>1, <3>1 DEF Forgotten
  <2>13. ~Startup
    BY <2>1 DEF Startup
  <2> QED
    BY <1>1, <2>3, <2>4, <2>5, <2>6, <2>7, <2>8, <2>9, <2>10, <2>11, <2>12, <2>13
    DEF Next, Monitor, Commands
<1>2. Inv /\ Noticed /\ [Next]_vars => [watch = "dead" => Forgotten]_vars
  BY <1>1
<1> QED
  BY <1>2, Invariance, NoticedInit, NoticedStep, PTL DEF Spec
=============================================================================
