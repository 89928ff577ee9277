-------------------------- MODULE VaultStoreProofs --------------------------
(***************************************************************************)
(* Theorems about VaultStore, for any contents and extensions and any      *)
(* number of commands and failures.                                        *)
(***************************************************************************)
EXTENDS VaultStore, TLAPS

-----------------------------------------------------------------------------
(* Names and values *)

LEMMA Pairs ==
    /\ \A p \in Cells : p[1] \in Places /\ p[2] \in Exts /\ p = <<p[1], p[2]>>
    /\ \A place \in Places, e \in Exts : <<place, e>> \in Cells
BY DEF Cells

LEMMA Extensions ==
    /\ "enc" \in Exts /\ "dec" \in Exts /\ "tmp_copy" \in Exts /\ "" \in Exts
    /\ \A e \in UserExts : e \in Exts /\ e # "tmp_copy" /\ e # "dec"
BY StoreAssumption DEF Exts

LEMMA NamedFacts ==
    ASSUME NEW p \in Named
    PROVE  /\ p \in Cells /\ p[2] # "tmp_copy"
           /\ InVault(p) \in Named /\ InVault(p)[2] = p[2]
BY DEF Named, Cells, InVault, Places

LEMMA Derived ==
    ASSUME NEW p \in Cells
    PROVE  /\ Tmp(p) \in Cells /\ Tmp(p)[1] = p[1] /\ Tmp(p)[2] = "tmp_copy"
           /\ Enc(p) \in Cells /\ Enc(p)[1] = p[1] /\ Enc(p)[2] = "enc"
           /\ Dec(p) \in Cells /\ Dec(p)[1] = p[1] /\ Dec(p)[2] = "dec"
BY Pairs, Extensions DEF Tmp, Enc, Dec

LEMMA ValueFacts ==
    /\ None \in Values /\ Torn \in Values /\ None # Torn
    /\ None \notin Wholes /\ Torn \notin Wholes
    /\ \A v \in Values : v \in Wholes \/ v = None \/ v = Torn
    /\ \A v \in Wholes : v \in Values /\ v[1] \in Contents /\ v[2] \in 0..MaxSeals
    /\ \A v \in Values : Data(v) \subseteq Contents
    /\ Data(None) = {} /\ Data(Torn) = {}
    /\ \A v \in Wholes : Data(v) = {v[1]}
    /\ \A c \in Contents : <<c, 0>> \in Wholes /\ Data(<<c, 0>>) = {c}
BY StoreAssumption DEF Values, Wholes, Data

\* Sealing changes no content, and makes what is whole neither torn nor missing.
LEMMA Sealing ==
    ASSUME NEW v \in Values, v # None
    PROVE  /\ Seal(v) \in Values   => Data(Seal(v)) = Data(v)
           /\ Unseal(v) \in Values => Data(Unseal(v)) = Data(v)
           /\ v # Torn => Seal(v) # Torn /\ Unseal(v) # Torn
           /\ Seal(v) # None /\ Unseal(v) # None
<1>1. CASE v = Torn
  BY <1>1, ValueFacts DEF Seal, Unseal
<1>2. CASE v # Torn
  <2>1. v \in Contents \X (0..MaxSeals)
    BY <1>2, ValueFacts DEF Wholes
  <2>2. Seal(v) \in Contents \X Int /\ Unseal(v) \in Contents \X Int
    BY <1>2, <2>1, StoreAssumption DEF Seal, Unseal
  <2>3. Seal(v) \notin {None, Torn} /\ Unseal(v) \notin {None, Torn} /\ v \notin {None, Torn}
    BY <1>2, <2>2, StoreAssumption
  <2>4. Data(Seal(v)) = {v[1]} /\ Data(Unseal(v)) = {v[1]} /\ Data(v) = {v[1]}
    BY <1>2, <2>3 DEF Data, Seal, Unseal
  <2> QED
    BY <2>3, <2>4
<1> QED
  BY <1>1, <1>2

LEMMA Written ==
    ASSUME FileType, NEW p \in Cells, NEW v \in Values, Write(p, v)
    PROVE  /\ file' \in [Cells -> Values]
           /\ file'[p] = v
           /\ \A q \in Cells : q # p => file'[q] = file[q]
BY DEF FileType, Write

Kinds == {"none", "add", "copy", "secure", "encrypt", "decrypt"}
Steps == {"idle", "copy", "rename", "seal", "fill", "unlink", "last"}
Job   == [cmd : Kinds, src : Cells, dst : Cells, data : Values, at : Steps]

LEMMA IdleJob == Idle \in Job /\ Idle.at = "idle"
BY Pairs, Extensions, ValueFacts DEF Idle, Job, Kinds, Steps, Places

LEMMA NewJob ==
    ASSUME NEW cmd \in Kinds, NEW s \in Cells, NEW d \in Cells, NEW step \in Steps, NEW v \in Values,
           job' = [cmd |-> cmd, src |-> s, dst |-> d, at |-> step, data |-> v]
    PROVE  /\ job' \in Job
           /\ job'.cmd = cmd /\ job'.src = s /\ job'.dst = d /\ job'.at = step /\ job'.data = v
BY DEF Job

LEMMA NextStep ==
    ASSUME job \in Job, NEW step \in Steps, job' = [job EXCEPT !.at = step]
    PROVE  /\ job' \in Job /\ job'.at = step
           /\ job'.cmd = job.cmd /\ job'.src = job.src /\ job'.dst = job.dst /\ job'.data = job.data
BY DEF Job

LEMMA NextStepWith ==
    ASSUME job \in Job, NEW step \in Steps, NEW v \in Values,
           job' = [job EXCEPT !.at = step, !.data = v]
    PROVE  /\ job' \in Job /\ job'.at = step /\ job'.data = v
           /\ job'.cmd = job.cmd /\ job'.src = job.src /\ job'.dst = job.dst
<1>1. job = [cmd |-> job.cmd, src |-> job.src, dst |-> job.dst, data |-> job.data, at |-> job.at]
  BY DEF Job
<1>2. job' = [cmd |-> job.cmd, src |-> job.src, dst |-> job.dst, data |-> v, at |-> step]
  BY <1>1
<1> QED
  BY <1>2 DEF Job

LEMMA Renamed ==
    ASSUME FileType, NEW p \in Cells, NEW q \in Cells, p # q,
           file' = [file EXCEPT ![p] = file[q], ![q] = None]
    PROVE  /\ file' \in [Cells -> Values]
           /\ file'[p] = file[q] /\ file'[q] = None
           /\ \A r \in Cells : r # p /\ r # q => file'[r] = file[r]
<1> DEFINE g == [file EXCEPT ![p] = file[q]]
<1>1. g \in [Cells -> Values] /\ g[p] = file[q] /\ \A r \in Cells : r # p => g[r] = file[r]
  BY DEF FileType
<1>2. file' = [g EXCEPT ![q] = None]
  OBVIOUS
<1> HIDE DEF g
<1> QED
  BY <1>1, <1>2, ValueFacts

-----------------------------------------------------------------------------
(* The steps *)

Opening  == \E cmd \in {"add", "copy", "secure"}, s \in Cells, d \in Named :
                (cmd = "secure" => d = InVault(s)) /\ CopyOpen(cmd, s, d)
Putting  == \E e \in UserExts, c \in Contents : Put(e, c)
Crypting == \E cmd \in {"encrypt", "decrypt"}, p \in Cells : CryptOpen(cmd, p)
Removing == \E p \in Cells : RemoveFile(p)

LEMMA NextCases ==
    Next => \/ Opening \/ Putting \/ CopyWrite \/ CopyRename \/ Crypting
            \/ SealOpen \/ Fill \/ UnlinkCopy \/ UnlinkSource \/ Removing \/ VaultDecrypt \/ Crash
<1>1. ASSUME NEW cmd \in {"add", "secure"}, NEW p \in Named, CopyOpen(cmd, p, InVault(p))
      PROVE  Opening
  BY <1>1, NamedFacts DEF Opening
<1>2. ASSUME NEW p \in Cells, NEW d \in Named, CopyOpen("copy", p, d)
      PROVE  Opening
  BY <1>2 DEF Opening
<1> QED
  BY <1>1, <1>2 DEF Next, Putting, Crypting, Removing

\* An error ends a command and changes no file.
LEMMA Aborted ==
    ASSUME NEW f, Abort(f)
    PROVE  /\ UNCHANGED <<file, owed, replaced>> /\ smooth' = FALSE
           /\ job' = Idle /\ verdict' = "error" /\ faults < FaultBound /\ faults' = faults + 1
BY DEF Abort, Fails, Stop, History

-----------------------------------------------------------------------------
(* The type invariant *)

LEMMA FileStep == TypeOK /\ [Next]_vars => FileType'
<1> SUFFICES ASSUME FileType, job \in Job, [Next]_vars PROVE FileType'
  BY DEF TypeOK, JobType, Job, Kinds, Steps
<1>0. job.src \in Cells /\ job.dst \in Cells /\ job.data \in Values /\ Target \in Cells
  BY Derived DEF Job, Target
<1>1. CASE Opening
  <2>1. PICK cmd \in {"add", "copy", "secure"}, src \in Cells, dst \in Named :
            (cmd = "secure" => dst = InVault(src)) /\ CopyOpen(cmd, src, dst)
    BY <1>1 DEF Opening
  <2>2. dst \in Cells
    BY NamedFacts
  <2> QED
    BY <2>1, <2>2, Derived, Written, ValueFacts DEF CopyOpen, FileType
<1>2. CASE Putting
  BY <1>2, Pairs, Extensions, Written, ValueFacts DEF Putting, Put, FileType, Places
<1>3. CASE CopyWrite
  <2>1. file[job.src] \in Values
    BY <1>0 DEF FileType
  <2> QED
    BY <1>0, <1>3, <2>1, Derived, Written, Aborted DEF CopyWrite, FileType
<1>4. CASE CopyRename
  <2>1. CASE Abort("rename")
    BY <2>1, Aborted DEF FileType
  <2>2. CASE file' = [file EXCEPT ![job.dst] = file[Tmp(job.dst)], ![Tmp(job.dst)] = None]
    <3>1. CASE job.dst # Tmp(job.dst)
      BY <1>0, <2>2, <3>1, Derived, Renamed DEF FileType
    <3>2. CASE job.dst = Tmp(job.dst)
      BY <1>0, <2>2, <3>2, ValueFacts DEF FileType
    <3> QED
      BY <3>1, <3>2
  <2> QED
    BY <1>4, <2>1, <2>2 DEF CopyRename
<1>5. CASE Crypting
  BY <1>5, Derived, Written, ValueFacts DEF Crypting, CryptOpen, Truncate, FileType
<1>6. CASE SealOpen
  BY <1>0, <1>6, Written, Aborted, ValueFacts DEF SealOpen, Truncate, FileType
<1>7. CASE Fill
  BY <1>0, <1>7, Written, Aborted DEF Fill, FileType
<1>8. CASE UnlinkCopy
  BY <1>0, <1>8, Written, ValueFacts DEF UnlinkCopy, Unlink, FileType
<1>9. CASE UnlinkSource
  BY <1>0, <1>9, Written, ValueFacts DEF UnlinkSource, Unlink, FileType
<1>10. CASE Removing
  BY <1>10, Written, ValueFacts DEF Removing, RemoveFile, FileType
<1>11. CASE VaultDecrypt
  BY <1>11, Written, ValueFacts, Pairs, Extensions DEF VaultDecrypt, FileType, Places
<1>12. CASE Crash \/ UNCHANGED vars
  BY <1>12 DEF Crash, vars, FileType
<1> QED
  BY <1>1, <1>2, <1>3, <1>4, <1>5, <1>6, <1>7, <1>8, <1>9, <1>10, <1>11, <1>12, NextCases

LEMMA JobStep == TypeOK /\ [Next]_vars => JobType'
<1> SUFFICES ASSUME FileType, job \in Job, job.at = "idle" => job = Idle, [Next]_vars
             PROVE  job' \in Job /\ (job'.at = "idle" => job' = Idle)
  BY DEF TypeOK, JobType, Job, Kinds, Steps
<1>1. CASE Opening
  <2>1. PICK cmd \in {"add", "copy", "secure"}, src \in Cells, dst \in Named :
            (cmd = "secure" => dst = InVault(src)) /\ CopyOpen(cmd, src, dst)
    BY <1>1 DEF Opening
  <2>2. dst \in Cells /\ cmd \in Kinds /\ "copy" \in Steps
    BY NamedFacts DEF Kinds, Steps
  <2> QED
    BY <2>1, <2>2, NewJob, IdleJob, ValueFacts DEF CopyOpen, Stop
<1>2. CASE Putting \/ Removing \/ VaultDecrypt \/ UNCHANGED vars
  BY <1>2, IdleJob DEF Putting, Put, Removing, RemoveFile, VaultDecrypt, Start, vars
<1>3. CASE CopyWrite
  BY <1>3, NextStep, Aborted, IdleJob DEF CopyWrite, Go, Steps
<1>4. CASE CopyRename
  BY <1>4, NextStep, Aborted, IdleJob DEF CopyRename, Go, Stop, Steps
<1>5. CASE Crypting
  <2>1. PICK cmd \in {"encrypt", "decrypt"}, p \in Cells : CryptOpen(cmd, p)
    BY <1>5 DEF Crypting
  <2>2. cmd \in Kinds /\ "fill" \in Steps
    BY DEF Kinds, Steps
  <2> QED
    BY <2>1, <2>2, NewJob DEF CryptOpen
<1>6. CASE SealOpen
  <2>1. CASE Abort("open")
    BY <2>1, Aborted, IdleJob
  <2>2. CASE job' = [job EXCEPT !.at = "fill", !.data = Seal(file[job.dst])] /\ Seal(file[job.dst]) \in Values
    <3>1. "fill" \in Steps
      BY DEF Steps
    <3> QED
      BY <2>2, <3>1, NextStepWith
  <2> QED
    BY <1>6, <2>1, <2>2 DEF SealOpen
<1>7. CASE Fill
  BY <1>7, NextStep, Aborted, IdleJob DEF Fill, Go, Stop, Steps
<1>8. CASE UnlinkCopy
  BY <1>8, NextStep DEF UnlinkCopy, Go, Steps
<1>9. CASE UnlinkSource \/ Crash
  BY <1>9, IdleJob DEF UnlinkSource, Crash, Stop
<1> QED
  BY <1>1, <1>2, <1>3, <1>4, <1>5, <1>6, <1>7, <1>8, <1>9, NextCases

LEMMA HistoryStep == TypeOK /\ [Next]_vars => HistoryType'
<1> SUFFICES ASSUME FileType, HistoryType, job \in Job, [Next]_vars PROVE HistoryType'
  BY DEF TypeOK, JobType, Job, Kinds, Steps
<1>0. \A p \in Cells : Data(file[p]) \subseteq Contents
  BY ValueFacts DEF FileType
<1>1. job.src \in Cells /\ job.dst \in Cells /\ Target \in Cells
  BY Derived DEF Job, Target
<1> USE DEF HistoryType, History
<1>2. CASE Opening
  BY <1>2 DEF Opening, CopyOpen, Stop
<1>3. CASE Putting
  BY <1>3 DEF Putting, Put
<1>4. CASE CopyWrite \/ CopyRename
  BY <1>0, <1>1, <1>4, Aborted DEF CopyWrite, CopyRename, Go, Stop, Replace
<1>5. CASE Crypting
  <2>1. PICK cmd \in {"encrypt", "decrypt"}, p \in Cells : CryptOpen(cmd, p)
    BY <1>5 DEF Crypting
  <2>2. Enc(p) \in Cells /\ Dec(p) \in Cells
    BY Derived
  <2> QED
    BY <1>0, <2>1, <2>2 DEF CryptOpen, Truncate, Replace
<1>6. CASE SealOpen
  BY <1>0, <1>1, <1>6, Aborted DEF SealOpen, Truncate, Replace
<1>7. CASE Fill
  BY <1>7, Aborted DEF Fill, Go, Stop
<1>8. CASE UnlinkCopy \/ UnlinkSource \/ Crash
  BY <1>8 DEF UnlinkCopy, UnlinkSource, Crash, Go, Stop
<1>9. CASE Removing
  BY <1>9 DEF Removing, RemoveFile
<1>10. CASE VaultDecrypt
  BY <1>0, <1>10, Pairs, Extensions DEF VaultDecrypt, Replace, Places
<1>11. CASE UNCHANGED vars
  BY <1>11 DEF vars
<1> QED
  BY <1>2, <1>3, <1>4, <1>5, <1>6, <1>7, <1>8, <1>9, <1>10, <1>11, NextCases

LEMMA SmoothStep == smooth \in BOOLEAN /\ [Next]_vars => smooth' \in BOOLEAN
BY NextCases DEF Opening, CopyOpen, Start, Putting, Put, CopyWrite, CopyRename, Abort, Fails, Works,
       Crypting, CryptOpen, SealOpen, Fill, UnlinkCopy, UnlinkSource, Unlink, Removing, RemoveFile,
       VaultDecrypt, Crash, vars

LEMMA FaultsStep ==
    [Next]_vars => faults' = faults \/ (faults < FaultBound /\ faults' = faults + 1)
BY NextCases DEF Opening, CopyOpen, Start, Putting, Put, CopyWrite, CopyRename, Abort, Fails, Works,
       Crypting, CryptOpen, SealOpen, Fill, UnlinkCopy, UnlinkSource, Unlink, Removing, RemoveFile,
       VaultDecrypt, Crash, vars

LEMMA UsesStep ==
    [Next]_vars => uses' = uses \/ (uses < MaxUses /\ uses' = uses + 1)
BY NextCases DEF Opening, CopyOpen, Start, Putting, Put, CopyWrite, CopyRename,
       Crypting, CryptOpen, SealOpen, Fill, UnlinkCopy, UnlinkSource, Removing, RemoveFile,
       VaultDecrypt, Crash, vars

LEMMA TypeStep == TypeOK /\ [Next]_vars => TypeOK'
<1> SUFFICES ASSUME TypeOK, [Next]_vars PROVE TypeOK'
  OBVIOUS
<1>1. smooth' \in BOOLEAN
  BY SmoothStep DEF TypeOK, CountType
<1>2. uses' \in 0..MaxUses /\ faults' \in 0..FaultBound
  BY FaultsStep, UsesStep, StoreAssumption DEF TypeOK, CountType
<1> QED
  BY <1>1, <1>2, FileStep, JobStep, HistoryStep DEF TypeOK, CountType

LEMMA InitType == Init => TypeOK
<1> SUFFICES ASSUME Init PROVE TypeOK
  OBVIOUS
<1>1. FileType
  <2>1. PICK given \in [UserExts -> (Contents \X {0}) \cup {None}] :
            file = [p \in Cells |-> IF p \in {"out"} \X UserExts THEN given[p[2]] ELSE None]
    BY DEF Init
  <2>2. \A e \in UserExts : given[e] \in Values
    BY ValueFacts, StoreAssumption DEF Values, Wholes
  <2>3. \A p \in {"out"} \X UserExts : p[2] \in UserExts
    OBVIOUS
  <2> QED
    BY <2>1, <2>2, <2>3, ValueFacts DEF FileType
<1>2. JobType
  BY IdleJob DEF Init, JobType, Job, Kinds, Steps
<1>3. HistoryType
  BY <1>1, ValueFacts DEF Init, HistoryType, Held, FileType
<1>4. CountType
  BY StoreAssumption DEF Init, CountType
<1> QED
  BY <1>1, <1>2, <1>3, <1>4 DEF TypeOK

\* Every variable keeps its type; a command that has ended leaves no job.
THEOREM TypeCorrect == Spec => []TypeOK
BY InitType, TypeStep, PTL DEF Spec

-----------------------------------------------------------------------------
(* Where a command is, and what it then finds in its files *)

Copying == \/ job.at \in {"copy", "rename", "seal", "unlink", "last"}
           \/ job.at = "fill" /\ job.cmd = "secure"

PairInv ==
    /\ Copying => /\ job.src # Tmp(job.dst) /\ job.dst[2] # "tmp_copy"
                  /\ job.cmd = "secure" => job.dst = InVault(job.src)
                  /\ (job.src = job.dst /\ job.at = "last") \/ file[job.src] # None
    /\ job.at \in {"seal", "unlink", "last"} => job.cmd = "secure"

PlaceInv ==
    /\ job.at = "copy"   => file[Tmp(job.dst)] = Torn
    /\ job.at = "rename" => file[Tmp(job.dst)] = file[job.src]
    /\ job.at = "seal"   => file[job.dst] = file[job.src]
    /\ job.at = "fill"   => file[Target] = Torn

\* What is sealed is what source and copy hold, until the first of them goes.
SealInv ==
    /\ job.cmd = "secure" /\ job.at \in {"fill", "unlink", "last"} =>
          /\ Data(file[job.src]) \subseteq Data(job.data)
          /\ Data(file[job.dst]) \subseteq Data(job.data)
          /\ job.data # None
          /\ job.src # job.dst => job.data = Seal(file[job.src])
          /\ job.dst[2] = "enc" => Data(job.data) \subseteq replaced
    /\ job.at \in {"unlink", "last"} /\ job.dst[2] # "enc" => file[Enc(job.dst)] = job.data
    /\ job.at = "last" /\ smooth => file[job.dst] = None

Inv == TypeOK /\ PairInv /\ PlaceInv /\ SealInv

LEMMA Settled == job' = Idle => PairInv' /\ PlaceInv' /\ SealInv'
BY IdleJob DEF PairInv, Copying, PlaceInv, SealInv, Idle

\* The names that a copying command meets: a file copied to itself, and one named
\* .enc and its sealed form, are the same.
LEMMA Distinct ==
    ASSUME job \in Job, PairInv, Copying
    PROVE  /\ job.src # Tmp(job.dst) /\ job.dst # Tmp(job.dst)
           /\ job.dst = Enc(job.dst) <=> job.dst[2] = "enc"
           /\ job.cmd = "secure" => (job.src = Enc(job.dst) => job.dst[2] = "enc")
           /\ job.src \in Cells /\ job.dst \in Cells
           /\ Tmp(job.dst) \in Cells /\ Enc(job.dst) \in Cells
<1>1. job.src \in Cells /\ job.dst \in Cells
  BY DEF Job
<1>2. job.dst = <<job.dst[1], job.dst[2]>>
  BY <1>1, Pairs
<1>3. job.dst = Enc(job.dst) <=> job.dst[2] = "enc"
  BY <1>1, <1>2, Derived DEF Enc
<1>4. job.cmd = "secure" => job.dst[2] = job.src[2]
  BY DEF PairInv, InVault
<1> QED
  BY <1>1, <1>3, <1>4, Derived DEF PairInv

LEMMA PlaceStep == Inv /\ [Next]_vars => PairInv' /\ PlaceInv' /\ SealInv'
<1> SUFFICES ASSUME Inv, FileType, job \in Job, job.data \in Values, [Next]_vars
             PROVE  PairInv' /\ PlaceInv' /\ SealInv'
  BY DEF Inv, TypeOK, JobType, Job, Kinds, Steps
<1>1. CASE Opening
  <2>1. PICK cmd \in {"add", "copy", "secure"}, src \in Cells, dst \in Named :
            (cmd = "secure" => dst = InVault(src)) /\ CopyOpen(cmd, src, dst)
    BY <1>1 DEF Opening
  <2>2. dst \in Cells /\ dst[2] # "tmp_copy" /\ Tmp(dst) \in Cells
    BY NamedFacts, Derived
  <2>3. CASE job' = Idle
    BY <2>3, Settled
  <2>4. CASE /\ file[Tmp(dst)] = None /\ Write(Tmp(dst), Torn)
             /\ job' = [cmd |-> cmd, src |-> src, dst |-> dst, at |-> "copy", data |-> None]
    <3>1. file[src] # None /\ src # Tmp(dst)
      BY <2>1, <2>4 DEF CopyOpen, Start
    <3>2. file'[Tmp(dst)] = Torn /\ file'[src] = file[src]
      BY <2>2, <2>4, <3>1, Written, ValueFacts
    <3>3. job'.src = src /\ job'.dst = dst /\ job'.at = "copy" /\ job'.cmd = cmd
      BY <2>4
    <3> QED
      BY <2>1, <2>2, <3>1, <3>2, <3>3 DEF PairInv, Copying, PlaceInv, SealInv
  <2> QED
    BY <2>1, <2>3, <2>4 DEF CopyOpen, Stop
<1>2. CASE Putting \/ Removing \/ VaultDecrypt \/ Crash \/ UnlinkSource
  BY <1>2, Settled DEF Putting, Put, Removing, RemoveFile, VaultDecrypt, Start, Crash, UnlinkSource, Stop
<1>3. CASE CopyWrite
  <2>1. CASE Abort("write")
    BY <2>1, Aborted, Settled
  <2>2. CASE Write(Tmp(job.dst), file[job.src]) /\ Go("rename")
    <3>1. Copying /\ "rename" \in Steps /\ job.at = "copy"
      BY <1>3 DEF CopyWrite, Copying, Steps
    <3>2. /\ job'.at = "rename" /\ job'.cmd = job.cmd /\ job'.src = job.src /\ job'.dst = job.dst
      BY <2>2, <3>1, NextStep DEF Go
    <3>3. file[job.src] \in Values
      BY <3>1, Distinct DEF Inv, FileType
    <3>4. file'[Tmp(job.dst)] = file[job.src] /\ file'[job.src] = file[job.src]
      BY <2>2, <3>1, <3>3, Distinct, Written DEF Inv
    <3> QED
      BY <3>1, <3>2, <3>4 DEF Inv, PairInv, Copying, PlaceInv, SealInv
  <2> QED
    BY <1>3, <2>1, <2>2 DEF CopyWrite
<1>4. CASE CopyRename
  <2>1. CASE job' = Idle
    BY <2>1, Settled
  <2>2. CASE /\ file' = [file EXCEPT ![job.dst] = file[Tmp(job.dst)], ![Tmp(job.dst)] = None]
             /\ job.cmd = "secure" /\ Go("seal")
    <3>1. Copying /\ "seal" \in Steps /\ job.at = "rename"
      BY <1>4 DEF CopyRename, Copying, Steps
    <3>2. /\ job'.at = "seal" /\ job'.cmd = job.cmd /\ job'.src = job.src /\ job'.dst = job.dst
      BY <2>2, <3>1, NextStep DEF Go
    <3>3. file'[job.dst] = file[job.src] /\ file'[job.src] = file[job.src]
      <4>1. file[Tmp(job.dst)] = file[job.src]
        BY <3>1 DEF Inv, PlaceInv
      <4> QED
        BY <2>2, <3>1, <4>1, Distinct, Renamed DEF Inv
    <3> QED
      BY <2>2, <3>1, <3>2, <3>3 DEF Inv, PairInv, Copying, PlaceInv, SealInv
  <2> QED
    BY <1>4, <2>1, <2>2, Aborted DEF CopyRename, Stop
<1>5. CASE Crypting
  <2>1. PICK cmd \in {"encrypt", "decrypt"}, p \in Cells : CryptOpen(cmd, p)
    BY <1>5 DEF Crypting
  <2>2. PICK v \in Values :
          /\ Write(IF cmd = "decrypt" THEN Dec(p) ELSE Enc(p), Torn)
          /\ job' = [cmd |-> cmd, src |-> p, dst |-> p, at |-> "fill", data |-> v]
    BY <2>1 DEF CryptOpen, Truncate
  <2>3. job'.cmd = cmd /\ job'.dst = p /\ job'.at = "fill"
    BY <2>2
  <2>4. file'[IF cmd = "decrypt" THEN Dec(p) ELSE Enc(p)] = Torn
    BY <2>2, Derived, Written, ValueFacts
  <2> QED
    BY <2>3, <2>4 DEF PairInv, Copying, PlaceInv, SealInv, Target
<1>6. CASE SealOpen
  <2>1. CASE Abort("open")
    BY <2>1, Aborted, Settled
  <2>2. CASE /\ Seal(file[job.dst]) \in Values /\ Truncate(Target, job.dst)
             /\ job' = [job EXCEPT !.at = "fill", !.data = Seal(file[job.dst])]
    <3>1. Copying /\ "fill" \in Steps /\ job.at = "seal" /\ job.cmd = "secure" /\ Target = Enc(job.dst)
      BY <1>6 DEF SealOpen, Copying, Steps, Inv, PairInv, Target
    <3>2. /\ job'.at = "fill" /\ job'.cmd = job.cmd /\ job'.src = job.src /\ job'.dst = job.dst
          /\ job'.data = Seal(file[job.dst])
      BY <2>2, <3>1, NextStepWith
    <3>3. file[job.dst] = file[job.src]
      BY <3>1 DEF Inv, PlaceInv
    <3>4. file'[Enc(job.dst)] = Torn /\ \A q \in Cells : q # Enc(job.dst) => file'[q] = file[q]
      BY <2>2, <3>1, Distinct, Written, ValueFacts DEF Inv, Truncate
    <3>5. Target' = Enc(job.dst)
      BY <3>1, <3>2 DEF Target
    <3>6. file[job.dst] \in Values /\ file[job.dst] # None
      BY <3>1, <3>3, Distinct DEF Inv, PairInv, FileType
    <3>7. Data(job'.data) = Data(file[job.dst]) /\ job'.data # None
      BY <2>2, <3>2, <3>6, Sealing
    <3>8. Data(file'[job.src]) \subseteq Data(job'.data) /\ Data(file'[job.dst]) \subseteq Data(job'.data)
      BY <3>1, <3>3, <3>4, <3>7, Distinct, ValueFacts DEF Inv
    <3>9. job.src # job.dst => file'[job.src] = file[job.src]
      BY <3>1, <3>4, Distinct DEF Inv
    <3>10. job.dst[2] = "enc" => Data(job'.data) \subseteq replaced'
      BY <2>2, <3>1, <3>7, Distinct DEF Inv, Truncate, Replace
    <3>11. PairInv'
      <4>1. file'[job.src] # None
        BY <3>1, <3>3, <3>4, <3>6, Distinct, ValueFacts DEF Inv
      <4> QED
        BY <3>1, <3>2, <4>1 DEF Inv, PairInv, Copying
    <3>12. PlaceInv'
      BY <3>2, <3>4, <3>5 DEF PlaceInv
    <3>13. SealInv'
      BY <3>2, <3>3, <3>7, <3>8, <3>9, <3>10 DEF SealInv
    <3> QED
      BY <3>11, <3>12, <3>13
  <2> QED
    BY <1>6, <2>1, <2>2 DEF SealOpen
<1>7. CASE Fill
  <2>1. CASE job' = Idle
    BY <2>1, Settled
  <2>2. CASE Write(Target, job.data) /\ job.cmd = "secure" /\ Go("unlink") /\ UNCHANGED History
    <3>1. Copying /\ "unlink" \in Steps /\ job.at = "fill" /\ Target = Enc(job.dst)
      BY <1>7, <2>2 DEF Fill, Copying, Steps, Target
    <3>2. /\ job'.at = "unlink" /\ job'.cmd = "secure" /\ job'.src = job.src /\ job'.dst = job.dst
          /\ job'.data = job.data
      BY <2>2, <3>1, NextStep DEF Go
    <3>3. file'[Enc(job.dst)] = job.data /\ \A q \in Cells : q # Enc(job.dst) => file'[q] = file[q]
      BY <2>2, <3>1, Distinct, Written DEF Inv
    <3>4. /\ Data(file[job.src]) \subseteq Data(job.data) /\ Data(file[job.dst]) \subseteq Data(job.data)
          /\ job.dst[2] = "enc" => Data(job.data) \subseteq replaced
          /\ job.src # job.dst => job.data = Seal(file[job.src])
          /\ file[job.src] # None /\ job.data # None
      BY <2>2, <3>1 DEF Inv, SealInv, PairInv
    <3>5. Data(file'[job.src]) \subseteq Data(job.data) /\ Data(file'[job.dst]) \subseteq Data(job.data)
      BY <3>1, <3>3, <3>4, Distinct DEF Inv
    <3>6. job.src # job.dst => file'[job.src] = file[job.src]
      BY <2>2, <3>1, <3>3, Distinct DEF Inv
    <3>7. PairInv'
      <4>1. file'[job.src] # None
        BY <3>1, <3>3, <3>4, Distinct DEF Inv
      <4> QED
        BY <3>1, <3>2, <4>1 DEF Inv, PairInv, Copying
    <3>8. PlaceInv'
      BY <3>2 DEF PlaceInv
    <3>9. SealInv'
      BY <2>2, <3>2, <3>3, <3>4, <3>5, <3>6 DEF SealInv, History
    <3> QED
      BY <3>7, <3>8, <3>9
  <2> QED
    BY <1>7, <2>1, <2>2, Aborted DEF Fill, Stop
<1>8. CASE UnlinkCopy
  <2>1. Copying /\ "last" \in Steps /\ job.at = "unlink" /\ job.cmd = "secure"
    BY <1>8 DEF UnlinkCopy, Copying, Steps, Inv, PairInv
  <2>2. /\ job'.at = "last" /\ job'.cmd = "secure" /\ job'.src = job.src /\ job'.dst = job.dst
        /\ job'.data = job.data /\ replaced' = replaced
    BY <1>8, <2>1, NextStep DEF UnlinkCopy, Go, History
  <2>3. /\ \A q \in Cells : q # job.dst => file'[q] = file[q]
        /\ file'[job.dst] = None \/ (file' = file /\ ~smooth')
    BY <1>8, <2>1, Distinct, Written, ValueFacts DEF Inv, UnlinkCopy, Unlink, Fails
  <2>4. /\ job.src # job.dst => file'[job.src] = file[job.src]
        /\ job.dst[2] # "enc" => file'[Enc(job.dst)] = file[Enc(job.dst)]
        /\ Data(file'[job.dst]) \subseteq Data(file[job.dst])
        /\ Data(file'[job.src]) \subseteq Data(file[job.src])
    BY <2>1, <2>3, Distinct, ValueFacts DEF Inv
  <2> QED
    BY <2>1, <2>2, <2>3, <2>4 DEF Inv, PairInv, Copying, PlaceInv, SealInv
<1>9. CASE UNCHANGED vars
  BY <1>9 DEF vars, Inv, PairInv, Copying, PlaceInv, SealInv, Target
<1> QED
  BY <1>1, <1>2, <1>3, <1>4, <1>5, <1>6, <1>7, <1>8, <1>9, NextCases

LEMMA InvStep == Inv /\ [Next]_vars => Inv'
BY TypeStep, PlaceStep DEF Inv

LEMMA InvInit == Init => Inv
BY InitType, IdleJob DEF Init, Inv, PairInv, Copying, PlaceInv, SealInv, Idle

LEMMA InvHolds == Spec => []Inv
BY InvInit, InvStep, PTL DEF Spec

-----------------------------------------------------------------------------
(* What is lost *)

\* The contents of a cell are still to be had when that cell is untouched.
LEMMA StillHeld ==
    ASSUME NEW p \in Cells, NEW c \in Data(file'[p])
    PROVE  c \in Held(file')
BY DEF Held

\* A step that writes one cell loses at most what that cell held.
LEMMA OneCell ==
    ASSUME FileType, NEW p \in Cells, NEW v \in Values, Write(p, v), NEW c \in Held(file)
    PROVE  c \in Held(file') \/ c \in Data(file[p])
<1>1. PICK q \in Cells : c \in Data(file[q])
  BY DEF Held
<1> QED
  BY <1>1, Written, StillHeld

LEMMA LostStep == Inv /\ NothingElseIsLost /\ [Next]_vars => NothingElseIsLost'
<1> SUFFICES ASSUME Inv, NothingElseIsLost, FileType, job \in Job, [Next]_vars,
                    NEW c \in owed', c \notin replaced'
             PROVE  c \in Held(file')
  BY DEF Inv, TypeOK, JobType, Job, Kinds, Steps, NothingElseIsLost
<1>0. c \in owed /\ c \notin replaced => c \in Held(file)
  BY DEF NothingElseIsLost
<1>1. CASE Opening
  <2>1. PICK cmd \in {"add", "copy", "secure"}, src \in Cells, dst \in Named :
            (cmd = "secure" => dst = InVault(src)) /\ CopyOpen(cmd, src, dst)
    BY <1>1 DEF Opening
  <2>2. c \in Held(file)
    BY <1>0, <2>1 DEF CopyOpen, History
  <2>3. Tmp(dst) \in Cells
    BY NamedFacts, Derived
  <2>4. CASE Write(Tmp(dst), Torn) /\ file[Tmp(dst)] = None
    BY <2>2, <2>3, <2>4, OneCell, ValueFacts
  <2> QED
    BY <2>1, <2>2, <2>4 DEF CopyOpen, Held
<1>2. CASE Putting
  <2>1. PICK e \in UserExts, d \in Contents : Put(e, d)
    BY <1>2 DEF Putting
  <2>2. CASE c = d
    <3>1. <<"out", e>> \in Cells
      BY Pairs, Extensions DEF Places
    <3>2. file'[<<"out", e>>] = <<d, 0>>
      BY <2>1, <3>1, Written, ValueFacts DEF Put
    <3> QED
      BY <2>2, <3>1, <3>2, StillHeld, ValueFacts
  <2> QED
    BY <2>1, <2>2 DEF Put
<1>3. CASE Removing
  BY <1>3 DEF Removing, RemoveFile
<1>4. CASE CopyWrite
  <2>1. Copying /\ file[Tmp(job.dst)] = Torn
    BY <1>4 DEF CopyWrite, Copying, Inv, PlaceInv
  <2>2. c \in Held(file)
    BY <1>0, <1>4, Aborted DEF CopyWrite, Go, History
  <2>3. file[job.src] \in Values
    BY <2>1, Distinct DEF Inv, FileType
  <2>4. CASE Write(Tmp(job.dst), file[job.src])
    BY <2>1, <2>2, <2>3, <2>4, Distinct, OneCell, ValueFacts DEF Inv
  <2> QED
    BY <1>4, <2>2, <2>4, Aborted DEF CopyWrite, Held
<1>5. CASE CopyRename
  <2>1. Copying /\ file[Tmp(job.dst)] = file[job.src]
    BY <1>5 DEF CopyRename, Copying, Inv, PlaceInv
  <2>2. CASE Abort("rename")
    BY <1>0, <2>2, Aborted DEF Held
  <2>3. CASE /\ file' = [file EXCEPT ![job.dst] = file[Tmp(job.dst)], ![Tmp(job.dst)] = None]
             /\ Replace(job.dst, Data(file[job.src])) /\ UNCHANGED owed
    <3>1. PICK q \in Cells : c \in Data(file[q])
      BY <1>0, <2>3 DEF Held, Replace
    <3>2. file'[job.src] = file[job.src]
      BY <2>1, <2>3, Distinct, Renamed DEF Inv
    <3>3. CASE q = job.dst \/ q = Tmp(job.dst)
      BY <2>1, <2>3, <3>1, <3>2, <3>3, Distinct, StillHeld DEF Inv, Replace
    <3>4. CASE q # job.dst /\ q # Tmp(job.dst)
      BY <2>1, <2>3, <3>1, <3>4, Distinct, Renamed, StillHeld DEF Inv
    <3> QED
      BY <3>3, <3>4
  <2> QED
    BY <1>5, <2>2, <2>3 DEF CopyRename
<1>6. ASSUME NEW t \in Cells, NEW p \in Cells, Truncate(t, p)
      PROVE  c \in Held(file')
  <2>1. c \in Held(file)
    BY <1>0, <1>6 DEF Truncate, Replace
  <2>2. CASE c \in Data(file[t])
    <3>1. t # p /\ c \in Data(file[p])
      BY <1>6, <2>2 DEF Truncate, Replace
    <3> QED
      BY <1>6, <3>1, Written, StillHeld, ValueFacts DEF Truncate
  <2> QED
    BY <1>6, <2>1, <2>2, OneCell, ValueFacts DEF Truncate
<1>7. CASE Crypting
  BY <1>6, <1>7, Derived DEF Crypting, CryptOpen
<1>8. CASE SealOpen
  <2>1. Target \in Cells /\ job.dst \in Cells
    BY Derived DEF Job, Target
  <2> QED
    BY <1>0, <1>6, <1>8, <2>1, Aborted DEF SealOpen, Held
<1>9. CASE Fill
  <2>1. Target \in Cells /\ job.data \in Values /\ file[Target] = Torn
    BY <1>9, Derived DEF Fill, Job, Target, Inv, PlaceInv
  <2>2. c \in Held(file)
    BY <1>0, <1>9, Aborted DEF Fill, History
  <2>3. CASE Write(Target, job.data)
    BY <2>1, <2>2, <2>3, OneCell, ValueFacts
  <2> QED
    BY <1>9, <2>2, <2>3, Aborted DEF Fill, Held
<1>10. ASSUME NEW p \in {job.src, job.dst}, Write(p, None), job.at \in {"unlink", "last"},
              UNCHANGED History
       PROVE  c \in Held(file')
  <2>1. Copying /\ job.cmd = "secure" /\ p \in Cells /\ p[2] = job.dst[2]
    BY <1>10, Distinct DEF Copying, Inv, PairInv, InVault
  <2>2. c \in Held(file) /\ c \notin replaced
    BY <1>0, <1>10 DEF History
  <2>3. CASE c \in Data(file[p])
    <3>1. c \in Data(job.data) /\ job.dst[2] # "enc"
      BY <1>10, <2>1, <2>2, <2>3 DEF Inv, SealInv
    <3>2. file[Enc(job.dst)] = job.data /\ Enc(job.dst) \in Cells /\ Enc(job.dst) # p
      BY <1>10, <2>1, <3>1, Distinct, Derived DEF Inv, SealInv
    <3>3. file'[Enc(job.dst)] = job.data
      BY <1>10, <2>1, <3>2, Written, ValueFacts
    <3> QED
      BY <3>1, <3>2, <3>3, StillHeld
  <2>4. CASE c \notin Data(file[p])
    BY <1>10, <2>1, <2>2, <2>4, OneCell, ValueFacts
  <2> QED
    BY <2>3, <2>4
<1>11. CASE UnlinkCopy
  BY <1>0, <1>10, <1>11 DEF UnlinkCopy, Unlink, Held, History
<1>14. CASE UnlinkSource
  BY <1>0, <1>10, <1>14 DEF UnlinkSource, Unlink, Held, History
<1>12. CASE VaultDecrypt
  <2>1. <<"vault", "">> \in Cells
    BY Pairs, Extensions DEF Places
  <2>2. c \in Held(file) /\ c \notin Data(file[<<"vault", "">>])
    BY <1>0, <1>12 DEF VaultDecrypt, Replace
  <2> QED
    BY <1>12, <2>1, <2>2, OneCell, ValueFacts DEF VaultDecrypt
<1>13. CASE Crash \/ UNCHANGED vars
  BY <1>0, <1>13 DEF Crash, vars, History, Held
<1> QED
  BY <1>1, <1>2, <1>3, <1>4, <1>5, <1>7, <1>8, <1>9, <1>11, <1>12, <1>13, <1>14, NextCases

\* Whatever fails and wherever a command dies, what the user gave is in some
\* file, unless he removed it or a command wrote over it.
THEOREM OnlyReplacedIsLost == Spec => []NothingElseIsLost
<1>1. Init => NothingElseIsLost
  BY DEF Init, NothingElseIsLost
<1> QED
  BY <1>1, LostStep, InvHolds, PTL DEF Spec

-----------------------------------------------------------------------------
(* What is left when nothing fails *)

CalmInv ==
    faults = 0 =>
        /\ \A p \in Cells : file[p] = Torn =>
              \/ job.at = "copy" /\ p = Tmp(job.dst)
              \/ job.at = "fill" /\ p = Target
        /\ \A p \in Cells : p[2] = "tmp_copy" /\ file[p] # None =>
              job.at \in {"copy", "rename"} /\ p = Tmp(job.dst)
        /\ job.at = "fill" => job.data # Torn

LEMMA CalmStep == Inv /\ CalmInv /\ [Next]_vars => CalmInv'
<1> SUFFICES ASSUME Inv, CalmInv, FileType, job \in Job, [Next]_vars, faults' = 0 PROVE CalmInv'
  BY DEF Inv, TypeOK, JobType, Job, Kinds, Steps, CalmInv
<1>0. faults = 0 /\ faults' = faults
  BY FaultsStep, StoreAssumption DEF Inv, TypeOK, CountType
<1> USE DEF CalmInv
<1>1. \A f : ~Fails(f) /\ ~Abort(f)
  BY <1>0 DEF Fails, Abort
<1>2. CASE Opening
  <2>1. PICK cmd \in {"add", "copy", "secure"}, src \in Cells, dst \in Named :
            (cmd = "secure" => dst = InVault(src)) /\ CopyOpen(cmd, src, dst)
    BY <1>2 DEF Opening
  <2>2. dst \in Cells /\ Tmp(dst) \in Cells
    BY NamedFacts, Derived
  <2>3. job = Idle
    BY <2>1 DEF CopyOpen, Start
  <2>4. CASE UNCHANGED file /\ job' = Idle
    BY <1>0, <2>3, <2>4 DEF Idle
  <2>5. CASE Write(Tmp(dst), Torn)
             /\ job' = [cmd |-> cmd, src |-> src, dst |-> dst, at |-> "copy", data |-> None]
    <3>1. job'.at = "copy" /\ job'.dst = dst
      BY <2>5
    <3>2. /\ file'[Tmp(dst)] = Torn
          /\ \A q \in Cells : q # Tmp(dst) => file'[q] = file[q]
      BY <2>2, <2>5, Written, ValueFacts
    <3> QED
      BY <1>0, <2>3, <3>1, <3>2 DEF Idle
  <2> QED
    BY <2>1, <2>4, <2>5 DEF CopyOpen, Stop
<1>3. CASE Putting
  <2>1. PICK e \in UserExts, c \in Contents : Put(e, c)
    BY <1>3 DEF Putting
  <2>2. /\ <<"out", e>> \in Cells /\ e # "tmp_copy"
        /\ <<c, 0>> \in Values /\ <<c, 0>> # Torn
    BY Pairs, Extensions, ValueFacts DEF Places
  <2>3. /\ file'[<<"out", e>>] = <<c, 0>>
        /\ \A q \in Cells : q # <<"out", e>> => file'[q] = file[q]
    BY <2>1, <2>2, Written DEF Put
  <2>4. job' = job /\ job.at = "idle" /\ <<"out", e>>[2] = e
    BY <2>1, IdleJob DEF Put
  <2>5. \A q \in Cells : file'[q] # Torn /\ (q[2] = "tmp_copy" => file'[q] = None)
    BY <1>0, <2>2, <2>3, <2>4
  <2> QED
    BY <2>4, <2>5
<1>4. CASE CopyWrite
  <2>1. Copying /\ "rename" \in Steps /\ job.at = "copy"
    BY <1>4 DEF CopyWrite, Copying, Steps
  <2>2. Write(Tmp(job.dst), file[job.src]) /\ Go("rename")
    BY <1>1, <1>4 DEF CopyWrite
  <2>3. job'.at = "rename" /\ job'.dst = job.dst
    BY <2>1, <2>2, NextStep DEF Go
  <2>4. file[job.src] \in Values /\ file[job.src] # Torn
    BY <1>0, <2>1, Distinct DEF Inv, FileType
  <2> QED
    BY <1>0, <2>1, <2>2, <2>3, <2>4, Distinct, Written DEF Inv
<1>5. CASE CopyRename
  <2>1. Copying /\ job.at = "rename" /\ job.dst[2] # "tmp_copy"
    BY <1>5, Extensions DEF CopyRename, Copying, Inv, PairInv
  <2>2. file' = [file EXCEPT ![job.dst] = file[Tmp(job.dst)], ![Tmp(job.dst)] = None]
    BY <1>1, <1>5 DEF CopyRename
  <2>3. job'.at \in {"idle", "seal"}
    BY <1>1, <1>5, NextStep, IdleJob DEF CopyRename, Go, Stop, Steps
  <2>4. file[Tmp(job.dst)] # Torn
    BY <1>0, <2>1, Distinct DEF Inv
  <2> QED
    BY <1>0, <2>1, <2>2, <2>3, <2>4, Distinct, Renamed, ValueFacts DEF Inv
<1>6. CASE Crypting
  <2>1. PICK cmd \in {"encrypt", "decrypt"}, p \in Cells : CryptOpen(cmd, p)
    BY <1>6 DEF Crypting
  <2> DEFINE t == IF cmd = "decrypt" THEN Dec(p) ELSE Enc(p)
             v == IF cmd = "decrypt" THEN Unseal(file[p]) ELSE Seal(file[p])
  <2>2. job = Idle /\ file[p] # None
    BY <2>1 DEF CryptOpen, Start
  <2>3. file[p] # Torn /\ file[p] \in Values
    BY <1>0, <2>2 DEF Idle, FileType
  <2>4. t \in Cells /\ t[2] # "tmp_copy"
    BY Derived
  <2>5. v # Torn
    BY <2>2, <2>3, Sealing
  <2>6. Write(t, Torn) /\ job' = [cmd |-> cmd, src |-> p, dst |-> p, at |-> "fill", data |-> v]
    BY <2>1 DEF CryptOpen, Truncate
  <2>7. job'.at = "fill" /\ job'.data = v /\ Target' = t
    BY <2>6 DEF Target
  <2> HIDE DEF t, v
  <2>8. \A q \in Cells : q # t => file'[q] = file[q]
    BY <2>4, <2>6, Written, ValueFacts
  <2>9. file'[t] = Torn
    BY <2>4, <2>6, Written, ValueFacts
  <2> QED
    BY <1>0, <2>2, <2>4, <2>5, <2>7, <2>8, <2>9 DEF Idle
<1>7. CASE SealOpen
  <2>1. Copying /\ "fill" \in Steps /\ job.at = "seal" /\ job.cmd = "secure" /\ Target = Enc(job.dst)
    BY <1>7 DEF SealOpen, Copying, Steps, Inv, PairInv, Target
  <2>2. /\ Seal(file[job.dst]) \in Values /\ Write(Target, Torn)
        /\ job' = [job EXCEPT !.at = "fill", !.data = Seal(file[job.dst])]
    BY <1>1, <1>7 DEF SealOpen, Truncate
  <2>3. job'.at = "fill" /\ job'.data = Seal(file[job.dst]) /\ job'.dst = job.dst /\ job'.cmd = job.cmd
    BY <2>1, <2>2, NextStepWith
  <2>4. Target' = Target
    BY <2>1, <2>3 DEF Target
  <2>5. file[job.dst] \in Values /\ file[job.dst] # None /\ file[job.dst] # Torn
    BY <1>0, <2>1, Distinct DEF Inv, FileType, PlaceInv, PairInv
  <2>6. job'.data # Torn
    BY <2>3, <2>5, Sealing
  <2>7. Target[2] # "tmp_copy" /\ Target \in Cells
    BY <2>1, Distinct, Derived DEF Inv
  <2> QED
    BY <1>0, <2>1, <2>2, <2>3, <2>4, <2>6, <2>7, Written, ValueFacts
<1>8. CASE Fill
  <2>1. /\ Target \in Cells /\ Target[2] # "tmp_copy" /\ job.at = "fill"
        /\ job.data \in Values /\ job.data # Torn
    BY <1>0, <1>8, Derived DEF Fill, Target, Job
  <2>2. Write(Target, job.data)
    BY <1>1, <1>8 DEF Fill
  <2>3. job'.at \in {"idle", "unlink"}
    BY <1>1, <1>8, NextStep, IdleJob DEF Fill, Go, Stop, Steps
  <2> QED
    BY <1>0, <2>1, <2>2, <2>3, Written
<1>9. ASSUME NEW p \in Cells, Write(p, None), job.at \notin {"copy", "rename", "fill"},
             job'.at \notin {"copy", "rename", "fill"}
      PROVE  CalmInv'
  BY <1>0, <1>9, Written, ValueFacts
<1>10. CASE UnlinkCopy
  BY <1>1, <1>9, <1>10, NextStep DEF UnlinkCopy, Unlink, Go, Steps, Job
<1>11. CASE UnlinkSource
  BY <1>1, <1>9, <1>11, IdleJob DEF UnlinkSource, Unlink, Stop, Job
<1>12. CASE Removing
  BY <1>9, <1>12, IdleJob DEF Removing, RemoveFile
<1>13. CASE VaultDecrypt
  BY <1>9, <1>13, IdleJob, Pairs, Extensions DEF VaultDecrypt, Start, Places
<1>14. CASE Crash
  BY <1>1, <1>14 DEF Crash
<1>15. CASE UNCHANGED vars
  BY <1>15 DEF vars, Target
<1> QED
  BY <1>2, <1>3, <1>4, <1>5, <1>6, <1>7, <1>8, <1>10, <1>11, <1>12, <1>13, <1>14, <1>15, NextCases

\* As long as nothing fails, commands leave neither torn nor temporary files.
THEOREM CalmIsTidy == Spec => []CalmLeavesNothing
<1>1. Init => CalmInv
  <2> SUFFICES ASSUME Init PROVE CalmInv
    OBVIOUS
  <2>1. PICK given \in [UserExts -> (Contents \X {0}) \cup {None}] :
            file = [p \in Cells |-> IF p \in {"out"} \X UserExts THEN given[p[2]] ELSE None]
    BY DEF Init
  <2>2. \A e \in UserExts : given[e] # Torn
    BY ValueFacts
  <2>3. \A p \in {"out"} \X UserExts : p[2] \in UserExts /\ p[2] # "tmp_copy"
    BY Extensions
  <2>4. \A p \in Cells : file[p] # Torn /\ (p[2] = "tmp_copy" => file[p] = None)
    BY <2>1, <2>2, <2>3, ValueFacts
  <2> QED
    BY <2>4, IdleJob DEF Init, CalmInv
<1>2. Inv /\ CalmInv => CalmLeavesNothing
  BY IdleJob DEF CalmInv, CalmLeavesNothing
<1> QED
  BY <1>1, <1>2, CalmStep, InvHolds, PTL DEF Spec

-----------------------------------------------------------------------------
(* The end of a secure-copy *)

\* A secure-copy in which nothing failed leaves the file sealed in the vault, and
\* in the clear nowhere.
THEOREM StoredFilesAreSealed == Spec => StoredIsSealed
<1> DEFINE Stored ==
        job.at = "last" /\ verdict' = "stored" /\ smooth' /\ job.dst[2] # "enc" =>
            /\ file'[Enc(job.dst)] = job.data
            /\ job.src # job.dst => job.data = Seal(file[job.src])
            /\ file'[job.src] = None /\ file'[job.dst] = None
<1>1. Inv /\ [Next]_vars => [Stored]_vars
  <2> SUFFICES ASSUME Inv, FileType, job \in Job, Next, job.at = "last", verdict' = "stored", smooth',
                      job.dst[2] # "enc"
               PROVE  /\ file'[Enc(job.dst)] = job.data
                      /\ job.src # job.dst => job.data = Seal(file[job.src])
                      /\ file'[job.src] = None /\ file'[job.dst] = None
    BY DEF Inv, TypeOK, JobType, Job, Kinds, Steps
  <2>1. UnlinkSource
    BY NextCases, IdleJob DEF Opening, CopyOpen, Start, Putting, Put, CopyWrite, CopyRename, Crypting,
           CryptOpen, SealOpen, Fill, UnlinkCopy, Removing, RemoveFile, VaultDecrypt, Crash, Stop
  <2>2. Copying /\ job.cmd = "secure"
    BY DEF Copying, Inv, PairInv
  <2>3. Write(job.src, None) /\ smooth' = smooth
    BY <2>1 DEF UnlinkSource, Unlink, Fails, Works
  <2>4. /\ file[Enc(job.dst)] = job.data /\ file[job.dst] = None
        /\ job.src # job.dst => job.data = Seal(file[job.src])
    BY <2>2, <2>3 DEF Inv, SealInv
  <2>5. Enc(job.dst) # job.src /\ Enc(job.dst) \in Cells /\ job.src \in Cells /\ job.dst \in Cells
    BY <2>2, Distinct DEF Inv
  <2>6. file'[job.src] = None /\ \A q \in Cells : q # job.src => file'[q] = file[q]
    BY <2>3, <2>5, Written, ValueFacts
  <2> QED
    BY <2>4, <2>5, <2>6
<1> QED
  BY <1>1, InvHolds, PTL DEF Spec, StoredIsSealed

-----------------------------------------------------------------------------
(* The refinement of VaultShelf *)

LEMMA PlainCells ==
    \A p \in Plain : /\ p \in Cells /\ p[2] \in UserExts
                     /\ p[2] # "enc" /\ p[2] # "tmp_copy" /\ p[2] # "dec"
BY Extensions DEF Plain, Cells, Exts

\* A step that writes no file of the user's is none of the shelf's.
LEMMA Aside ==
    ASSUME FileType, NEW p \in Cells \ Plain, NEW v \in Values, Write(p, v)
    PROVE  Shelf!Elsewhere
BY Written, PlainCells DEF Shelf!Elsewhere

LEMMA Removal ==
    ASSUME FileType, NEW p \in Cells, Write(p, None)
    PROVE  Shelf!Next
<1>1. /\ file'[p] = None
      /\ \A q \in Cells : q # p => file'[q] = file[q]
  BY Written, ValueFacts
<1>2. CASE p \in Plain
  BY <1>1, <1>2, PlainCells DEF Shelf!Next, Shelf!Remove, Shelf!Becomes
<1>3. CASE p \notin Plain
  BY <1>1, <1>3, PlainCells DEF Shelf!Next, Shelf!Elsewhere
<1> QED
  BY <1>2, <1>3

LEMMA RefinementStep == Inv /\ [Next]_vars => Shelf!Next
<1> SUFFICES ASSUME Inv, FileType, job \in Job, [Next]_vars PROVE Shelf!Next
  BY DEF Inv, TypeOK, JobType, Job, Kinds, Steps
<1>1. \A p \in Cells : p[2] \in {"enc", "dec", "tmp_copy"} => p \notin Plain
  BY PlainCells
<1>2. ASSUME Shelf!Elsewhere PROVE Shelf!Next
  BY <1>2 DEF Shelf!Next
<1>3. CASE UNCHANGED file
  BY <1>2, <1>3 DEF Shelf!Elsewhere
<1>4. CASE Opening
  <2>1. PICK cmd \in {"add", "copy", "secure"}, src \in Cells, dst \in Named :
            (cmd = "secure" => dst = InVault(src)) /\ CopyOpen(cmd, src, dst)
    BY <1>4 DEF Opening
  <2>2. Tmp(dst) \in Cells \ Plain
    BY <1>1, NamedFacts, Derived
  <2> QED
    BY <1>2, <1>3, <2>1, <2>2, Aside, ValueFacts DEF CopyOpen
<1>5. CASE Putting
  <2>1. PICK e \in UserExts, c \in Contents : Put(e, c)
    BY <1>5 DEF Putting
  <2> DEFINE p == <<"out", e>>
  <2>2. p \in Cells /\ <<c, 0>> \in Wholes
    BY Pairs, Extensions, ValueFacts DEF Places
  <2>3. /\ file'[p] = <<c, 0>>
        /\ \A q \in Cells : q # p => file'[q] = file[q]
    BY <2>1, <2>2, Written, ValueFacts DEF Put
  <2>4. CASE p \in Plain
    <3>1. p \in {q \in Plain : q[1] = "out"}
      BY <2>4
    <3>2. Shelf!Put(p, <<c, 0>>)
      BY <2>3, PlainCells DEF Shelf!Put, Shelf!Becomes
    <3> QED
      BY <2>2, <3>1, <3>2 DEF Shelf!Next
  <2>5. CASE p \notin Plain
    BY <1>2, <2>3, <2>5, PlainCells DEF Shelf!Elsewhere
  <2> QED
    BY <2>4, <2>5
<1>6. CASE CopyWrite
  <2>1. Copying
    BY <1>6 DEF CopyWrite, Copying
  <2>2. file[job.src] \in Values /\ Tmp(job.dst) \in Cells \ Plain
    BY <1>1, <2>1, Distinct, Derived DEF Inv, FileType
  <2> QED
    BY <1>2, <1>3, <1>6, <2>2, Aside, Aborted DEF CopyWrite
<1>7. CASE CopyRename
  <2>1. Copying /\ file[Tmp(job.dst)] = file[job.src] /\ job.at = "rename"
    BY <1>7 DEF CopyRename, Copying, Inv, PlaceInv
  <2>2. CASE file' = [file EXCEPT ![job.dst] = file[Tmp(job.dst)], ![Tmp(job.dst)] = None]
    <3>1. /\ file'[job.dst] = file[job.src]
          /\ \A q \in Cells : q # job.dst /\ q # Tmp(job.dst) => file'[q] = file[q]
      BY <2>1, <2>2, Distinct, Renamed DEF Inv
    <3>2. Tmp(job.dst) \notin Plain
      BY <1>1, <2>1, Distinct, Derived DEF Inv
    <3>3. CASE job.dst \in Plain
      <4>1. job.src \in DOMAIN file /\ file[job.src] # None
        BY <2>1, Distinct DEF Inv, PairInv, FileType
      <4>2. Shelf!Copy(job.src, job.dst)
        BY <3>1, <3>2, <4>1, PlainCells DEF Shelf!Copy, Shelf!Becomes
      <4> QED
        BY <3>3, <4>1, <4>2 DEF Shelf!Next
    <3>4. CASE job.dst \notin Plain
      BY <1>2, <3>1, <3>2, <3>4, PlainCells DEF Shelf!Elsewhere
    <3> QED
      BY <3>3, <3>4
  <2> QED
    BY <1>3, <1>7, <2>2, Aborted DEF CopyRename
<1>8. CASE Crypting
  BY <1>1, <1>2, <1>8, Derived, Aside, ValueFacts DEF Crypting, CryptOpen, Truncate
<1>9. Target \in Cells \ Plain
  BY <1>1, Derived DEF Job, Target
<1>10. CASE SealOpen
  BY <1>2, <1>3, <1>9, <1>10, Aside, Aborted, ValueFacts DEF SealOpen, Truncate
<1>11. CASE Fill
  <2>1. job.data \in Values
    BY DEF Job
  <2> QED
    BY <1>2, <1>3, <1>9, <1>11, <2>1, Aside, Aborted DEF Fill
<1>12. CASE UnlinkCopy \/ UnlinkSource
  <2>1. job.src \in Cells /\ job.dst \in Cells
    BY DEF Job
  <2> QED
    BY <1>3, <1>12, <2>1, Removal DEF UnlinkCopy, UnlinkSource, Unlink
<1>13. CASE Removing
  BY <1>13, Removal DEF Removing, RemoveFile
<1>14. CASE VaultDecrypt
  BY <1>14, Removal, Pairs, Extensions DEF VaultDecrypt, Places
<1>15. CASE Crash \/ UNCHANGED vars
  BY <1>3, <1>15 DEF Crash, vars
<1> QED
  BY <1>4, <1>5, <1>6, <1>7, <1>8, <1>10, <1>11, <1>12, <1>13, <1>14, <1>15, NextCases

LEMMA RefinementInit == Init => Shelf!Init
<1> SUFFICES ASSUME Init PROVE Shelf!Init
  OBVIOUS
<1>1. PICK given \in [UserExts -> (Contents \X {0}) \cup {None}] :
          file = [p \in Cells |-> IF p \in {"out"} \X UserExts THEN given[p[2]] ELSE None]
  BY DEF Init
<1>2. \A e \in UserExts : given[e] \in Wholes \cup {None}
  BY StoreAssumption DEF Wholes
<1>3. \A p \in Plain : file[p] \in Wholes \cup {None} /\ (p[1] # "out" => file[p] = None)
  BY <1>1, <1>2, PlainCells
<1> QED
  BY <1>3 DEF Shelf!Init

\* A file under a name the user gave becomes, in one step, what another file holds
\* at that moment, is the user's own, or goes; no other step changes it.  What is
\* not whole gets there only if the user has it copied there.
THEOREM StoreImplementsShelf == Spec => ShelfSpec
<1>1. Inv /\ [Next]_vars => [Shelf!Next]_file
  BY RefinementStep
<1>2. (Shelf!Init /\ [][Shelf!Next]_file) => ShelfSpec
  BY DEF ShelfSpec, Shelf!Spec
<1> QED
  BY <1>1, <1>2, RefinementInit, InvHolds, PTL DEF Spec
=============================================================================
