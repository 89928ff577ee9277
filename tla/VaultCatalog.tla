---------------------------- MODULE VaultCatalog ----------------------------
(***************************************************************************)
(* The vault catalog of the C core: the flat array g_catalog in memory,    *)
(* the catalog.dat image on disk, password checks and lockout, alerts, and *)
(* the life of the process that owns them (c_src/vault_catalog.c,          *)
(* vault_crypto.c sections on authentication, alert_trigger and            *)
(* alert_resolve of vault_monitor.c, init and shutdown of vault_ffi.c).    *)
(*                                                                         *)
(* The vault_*_ffi calls run under g_monitor.lock, and so does the monitor *)
(* thread, so each call is one action here.  The two callers that work     *)
(* without the lock, the Ctrl+C handler and vault_sandbox_ffi, are the     *)
(* subject of module VaultProcess.  An early return that changes nothing   *)
(* is a stuttering step.                                                   *)
(***************************************************************************)
EXTENDS Naturals, Sequences

CONSTANTS
    Names,        \* the names validate_name accepts
    Dirs,         \* the directories validate_path accepts, default ones included
    Prefixes,     \* pairs <<s, t>>: s is what a cut may leave of t, a name or path
    Passwords,    \* the passwords auth_set_password accepts (8 to 255 chars)
    NoName,       \* the empty name and path of a zeroed slot
    NoPassword,   \* has_pass = false
    BrokenSalt,   \* has_pass, but pass_hash was not derived with the stored salt
    MaxVaults,    \* MAX_VAULTS
    MaxAttempts,  \* MAX_PASS_ATTEMPTS
    IdBound,      \* ids stay below this bound (UINT32_MAX in the code)
    AttemptBound, \* wrong passwords in a row are counted up to this bound
    Faults,       \* what may fail: "save", "torn", "load", "derive"
    FaultBound    \* and how often in one behaviour

ASSUME CatalogAssumption ==
    /\ NoPassword \notin Passwords /\ BrokenSalt \notin Passwords
    /\ NoPassword # BrokenSalt
    /\ NoName \notin Names /\ NoName \notin Dirs
    /\ Prefixes \subseteq (Names \cup Dirs) \X (Names \cup Dirs)
    /\ \A q \in Prefixes : /\ q[2] \in Names => q[1] \in Names
                           /\ q[2] \in Dirs => q[1] \in Dirs
    /\ MaxVaults \in Nat /\ IdBound \in Nat
    /\ MaxAttempts \in Nat \ {0}
    /\ AttemptBound \in Nat /\ MaxAttempts <= AttemptBound
    /\ FaultBound \in Nat

VARIABLES
    up,      \* the process runs
    loaded,  \* its vault_ffi_init succeeded
    vaults,  \* g_catalog.vaults[0 .. count-1]
    nextId,  \* g_catalog.next_id
    disk,    \* catalog.dat
    clean,   \* no save failed, and no change was left unsaved, since the
             \* last complete save or load (a history variable)
    faults   \* how many calls of the system have failed

vars == <<up, loaded, vaults, nextId, disk, clean, faults>>

-----------------------------------------------------------------------------
(* Records *)

Types    == {"NORMAL", "PROTECTED"}
Statuses == {"OK", "LOCKED", "ALERT"}
Hashes   == Passwords \cup {NoPassword, BrokenSalt}

\* struct Vault.  hash stands for has_pass, salt and pass_hash together;
\* alerted for alert.first_triggered # 0.
Vault == [id      : Nat,
          name    : Names \cup {NoName},
          type    : Types,
          path    : Dirs \cup {NoName},
          status  : Statuses,
          hash    : Hashes,
          failed  : Nat,
          alerted : BOOLEAN]

\* A slot that catalog_load never reached: static storage is zero.
Blank == [id |-> 0, name |-> NoName, type |-> "NORMAL", path |-> NoName,
          status |-> "OK", hash |-> NoPassword, failed |-> 0, alerted |-> FALSE]

\* Faulty variant: the id is the number of slots in use plus one.
NewVaultByCount(id, n, t, d, p) ==
    [id |-> Len(vaults) + 1, name |-> n, type |-> t, path |-> d, status |-> "OK",
     hash |-> p, failed |-> 0, alerted |-> FALSE]

NewVault(id, n, t, d, p) ==
    [id |-> id, name |-> n, type |-> t, path |-> d, status |-> "OK",
     hash |-> p, failed |-> 0, alerted |-> FALSE]

\* Faulty variants: the counter is rebuilt from the array; the last record is
\* not written.
ImageRecounted(vs, n) == [kind |-> "good", vaults |-> vs, nextId |-> Len(vs) + 1, cut |-> 0]
ImageDropsLast(vs, n) == [kind |-> "good", vaults |-> SubSeq(vs, 1, Len(vs) - 1),
                          nextId |-> n, cut |-> 0]

\* catalog.dat: absent, a complete image, an image cut inside record cut+1, or
\* one cut inside its header.
Image(vs, n)    == [kind |-> "good", vaults |-> vs, nextId |-> n, cut |-> 0]
Torn(vs, n, k)  == [kind |-> "torn", vaults |-> vs, nextId |-> n, cut |-> k]
Headless(vs, n) == [kind |-> "headless", vaults |-> vs, nextId |-> n, cut |-> 0]
NoImage         == [kind |-> "none", vaults |-> <<>>, nextId |-> 1, cut |-> 0]

DiskImage == {d \in [kind : {"none", "good", "torn", "headless"},
                       vaults : Seq(Vault), nextId : Nat, cut : Nat] :
                 d.kind = "torn" => d.cut + 1 \in DOMAIN d.vaults}

-----------------------------------------------------------------------------
(* Helpers, one for each piece of code the calls share *)

\* vault_find_by_id returns the first slot with the id.
Found(i) == /\ i \in DOMAIN vaults
            /\ \A j \in 1..(i - 1) : vaults[j].id # vaults[i].id

\* Faulty variant: the search starts at the second slot.
NameFreeSkipsFirst(n) == \A i \in DOMAIN vaults \ {1} : vaults[i].name # n

\* vault_find_by_name(n) = NULL.
NameFree(n) == \A i \in DOMAIN vaults : vaults[i].name # n

\* The memmove that closes the gap left by slot i.
Without(vs, i) == [j \in 1..(Len(vs) - 1) |-> IF j < i THEN vs[j] ELSE vs[j + 1]]

\* Faulty variant: the last attempt before the limit does not lock.
AuthFailLate(v) == [v EXCEPT !.failed = v.failed + 1,
                             !.status = IF v.failed + 1 > MaxAttempts THEN "LOCKED" ELSE v.status]

\* auth_verify_password: the password matched, or it did not.
AuthOk(v)   == [v EXCEPT !.failed = 0]
AuthFail(v) == [v EXCEPT !.failed = v.failed + 1,
                         !.status = IF v.failed + 1 >= MaxAttempts THEN "LOCKED" ELSE v.status]

\* The guard of delete, rename and resolve: only PROTECTED vaults ask.
Authorised(v, p) == v.type = "PROTECTED" => p = v.hash

\* Faulty variant: the alert record is cleared, the status is not.
ResolvedRecordOnly(v) == [v EXCEPT !.alerted = FALSE]

\* alert_trigger, alert_resolve and vault_unlock on the vault's own fields.
Raised(v)   == [v EXCEPT !.status = "ALERT", !.alerted = TRUE]
Resolved(v) == [v EXCEPT !.status = "OK", !.alerted = FALSE]
Unlocked(v) == [v EXCEPT !.status = "OK", !.failed = 0]

\* A call of the system fails.
Fails(f) == f \in Faults /\ faults < FaultBound /\ faults' = faults + 1

\* catalog_save of the array vs and counter n: complete; fopen or rename fails
\* and the old image stays; or fwrite comes up short, which nobody checks,
\* and the rename puts the cut image in place.
CatalogSave(vs, n) ==
    \/ disk' = Image(vs, n) /\ clean' = TRUE /\ faults' = faults
    \/ Fails("save") /\ disk' = disk /\ clean' = FALSE
    \/ /\ Fails("torn")
       /\ disk' = Headless(vs, n) \/ \E k \in 0..(Len(vs) - 1) : disk' = Torn(vs, n, k)
       /\ clean' = FALSE

\* Faulty variant: the catalog is not saved.
PutUnsaved(i, v) == /\ vaults' = [vaults EXCEPT ![i] = v]
                    /\ UNCHANGED <<disk, clean, faults>>

\* Slot i becomes v and the catalog is saved.
Put(i, v) == /\ vaults' = [vaults EXCEPT ![i] = v]
             /\ CatalogSave(vaults', nextId)

-----------------------------------------------------------------------------
(* Calls *)

Init == /\ up = FALSE /\ loaded = FALSE
        /\ vaults = <<>> /\ nextId = 0
        /\ disk = NoImage
        /\ clean = FALSE
        /\ faults = 0

\* IF     there is room and the name is free
\* THEN   a slot is filled with the next id, counted, and the catalog saved.
Create(n, t, d, p) ==
    /\ up
    /\ Len(vaults) < MaxVaults /\ nextId < IdBound
    /\ NameFree(n)
    /\ vaults' = Append(vaults, NewVault(nextId, n, t, d,
                                         IF t = "PROTECTED" THEN p ELSE NoPassword))
    /\ nextId' = nextId + 1
    /\ CatalogSave(vaults', nextId')
    /\ UNCHANGED <<up, loaded>>

\* Faulty variant: the slot is counted before the password is set.
CreateCountedFirst(n) ==
    /\ up
    /\ Len(vaults) < MaxVaults /\ nextId < IdBound
    /\ NameFree(n)
    /\ \E d \in Dirs : vaults' = Append(vaults, NewVault(nextId, n, "PROTECTED", d, NoPassword))
    /\ nextId' = nextId + 1
    /\ UNCHANGED <<up, loaded, disk, clean, faults>>

\* A PROTECTED vault whose password auth_set_password refuses (too short, or
\* no key): the id is spent, the slot is not counted, nothing is saved.
CreateRejected(n) ==
    /\ up
    /\ Len(vaults) < MaxVaults /\ nextId < IdBound
    /\ NameFree(n)
    /\ nextId' = nextId + 1
    /\ UNCHANGED <<up, loaded, vaults, disk, clean, faults>>

Delete(i, p) ==
    /\ up /\ Found(i)
    /\ Authorised(vaults[i], p)
    /\ vaults' = Without(vaults, i)
    /\ CatalogSave(vaults', nextId)
    /\ UNCHANGED <<up, loaded, nextId>>

\* Faulty variant: the new name is written over the path.
RenameWritesPath(i, n, p) ==
    /\ up /\ Found(i)
    /\ NameFree(n)
    /\ Authorised(vaults[i], p)
    /\ Put(i, [AuthOk(vaults[i]) EXCEPT !.path = n])
    /\ UNCHANGED <<up, loaded, nextId>>

\* The new name is checked before the password.
Rename(i, n, p) ==
    /\ up /\ Found(i)
    /\ NameFree(n)
    /\ Authorised(vaults[i], p)
    /\ Put(i, [AuthOk(vaults[i]) EXCEPT !.name = n])
    /\ UNCHANGED <<up, loaded, nextId>>

Unlock(i, p) ==
    /\ up /\ Found(i)
    /\ vaults[i].status = "LOCKED"
    /\ p = vaults[i].hash
    /\ Put(i, Unlocked(AuthOk(vaults[i])))
    /\ UNCHANGED <<up, loaded, nextId>>

ChangePassword(i, old, new) ==
    /\ up /\ Found(i)
    /\ old = vaults[i].hash
    /\ Put(i, [AuthOk(vaults[i]) EXCEPT !.hash = new])
    /\ UNCHANGED <<up, loaded, nextId>>

\* RAND_bytes has replaced the salt when derive_key fails: the call returns an
\* error, saves nothing, and leaves a hash that belongs to the old salt.
ChangePasswordFails(i, old) ==
    /\ Fails("derive")
    /\ up /\ Found(i)
    /\ old = vaults[i].hash
    /\ vaults' = [vaults EXCEPT ![i] = [AuthOk(vaults[i]) EXCEPT !.hash = BrokenSalt]]
    /\ clean' = FALSE
    /\ UNCHANGED <<up, loaded, nextId, disk>>

Resolve(i, p) ==
    /\ up /\ Found(i)
    /\ Authorised(vaults[i], p)
    /\ Put(i, Resolved(AuthOk(vaults[i])))
    /\ UNCHANGED <<up, loaded, nextId>>

\* auth_verify_password succeeds in a call that then saves nothing: encrypt,
\* decrypt, sandbox, a password change whose new password is refused.
Authenticate(i, p) ==
    /\ up /\ Found(i)
    /\ p = vaults[i].hash
    /\ vaults' = [vaults EXCEPT ![i] = AuthOk(vaults[i])]
    /\ UNCHANGED <<up, loaded, nextId, disk, clean, faults>>

\* Any call that checks a password is given a wrong one.  Only the attempt that
\* locks the vault is saved; the status is not asked first.
WrongPassword(i) ==
    /\ up /\ Found(i)
    /\ vaults[i].hash # NoPassword
    /\ vaults[i].failed < AttemptBound
    /\ IF vaults[i].failed + 1 >= MaxAttempts
       THEN Put(i, AuthFail(vaults[i]))
       ELSE /\ vaults' = [vaults EXCEPT ![i] = AuthFail(vaults[i])]
            /\ UNCHANGED <<disk, clean, faults>>
    /\ UNCHANGED <<up, loaded, nextId>>

\* alert_trigger, from the monitor thread or an engine validation.
Alert(i) ==
    /\ up /\ i \in DOMAIN vaults
    /\ Put(i, Raised(vaults[i]))
    /\ UNCHANGED <<up, loaded, nextId>>

\* A scan, which may find a file modified, raises an alert then, and saves in
\* either case.  So does a successful vault_apply_engine, which changes
\* nothing that is saved.
Scan(i) ==
    /\ up /\ Found(i)
    /\ \E v \in {vaults[i], Raised(vaults[i])} : Put(i, v)
    /\ UNCHANGED <<up, loaded, nextId>>

-----------------------------------------------------------------------------
(* The process *)

\* fread keeps the bytes it got before the file ended, over what was zero: the
\* low bytes of a 4-byte number, the beginning of a name or path.
LowBytes(n)  == {0, n % 256, n % 65536, n % 16777216, n}
CutString(t) == {NoName, t} \cup {q[1] : q \in {r \in Prefixes : r[2] = t}}

\* What the record at the cut holds once read: the fields before the cut, in
\* the order of the file, and a part of the one it falls in.  has_pass comes
\* early, the salt and hash late.
AtCut(v) ==
    LET h  == IF v.hash = NoPassword THEN NoPassword ELSE BrokenSalt
        r1 == [Blank EXCEPT !.id = v.id]
        r2 == [r1 EXCEPT !.name = v.name]
        r3 == [r2 EXCEPT !.type = v.type]
        r4 == [r3 EXCEPT !.status = v.status]
        r5 == [r4 EXCEPT !.hash = h]
        r6 == [r5 EXCEPT !.path = v.path]
        r7 == [r6 EXCEPT !.failed = v.failed]
    IN  {[Blank EXCEPT !.id = i] : i \in LowBytes(v.id)}
        \cup {[r1 EXCEPT !.name = s] : s \in CutString(v.name)}
        \cup {r3, r4, r5}
        \cup {[r5 EXCEPT !.path = s] : s \in CutString(v.path)}
        \cup {[r6 EXCEPT !.failed = f] : f \in LowBytes(v.failed)}
        \cup {[r7 EXCEPT !.alerted = v.alerted], v}

\* The array catalog_load leaves behind when the file ends inside record k+1:
\* count is that of the header, the slots behind the cut are zero.
UpToCut(vs, k, w) == [i \in DOMAIN vs |-> IF i <= k THEN vs[i]
                                          ELSE IF i = k + 1 THEN w ELSE Blank]

\* catalog_load and the part of vault_ffi_init that depends on it: the image,
\* or a fresh catalog when there is none; an error and a partial array when
\* the image is cut; an error and as many zeroed slots as were counted when it
\* is cut in the header, whose count comes before next_id; an error and an
\* all-zero catalog when it cannot be opened.  main carries on in every case.
Start ==
    /\ ~up /\ up' = TRUE
    /\ \/ /\ disk.kind \in {"none", "good"}
          /\ vaults' = disk.vaults /\ nextId' = disk.nextId
          /\ loaded' = TRUE /\ clean' = TRUE /\ faults' = faults
       \/ /\ disk.kind = "torn"
          /\ \E w \in AtCut(disk.vaults[disk.cut + 1]) : vaults' = UpToCut(disk.vaults, disk.cut, w)
          /\ nextId' = disk.nextId
          /\ loaded' = FALSE /\ clean' = FALSE /\ faults' = faults
       \/ /\ disk.kind = "headless"
          /\ \E c \in LowBytes(Len(disk.vaults)), n \in LowBytes(disk.nextId) :
                /\ n # 0 => c = Len(disk.vaults)
                /\ vaults' = [i \in 1..c |-> Blank] /\ nextId' = n
          /\ loaded' = FALSE /\ clean' = FALSE /\ faults' = faults
       \/ /\ Fails("load")
          /\ vaults' = <<>> /\ nextId' = 0
          /\ loaded' = FALSE /\ clean' = FALSE
    /\ UNCHANGED disk

\* The memory of a process that is gone.
Gone == up' = FALSE /\ loaded' = FALSE /\ vaults' = <<>> /\ nextId' = 0

\* quit, exit, end of input: the catalog is saved, whatever the load said,
\* and wiped.  The result of the save is not looked at.
Quit == /\ up
        /\ CatalogSave(vaults, nextId)
        /\ Gone

Crash == /\ up
         /\ Gone
         /\ clean' = FALSE
         /\ UNCHANGED <<disk, faults>>

Next ==
    \/ \E n \in Names, t \in Types, d \in Dirs, p \in Passwords : Create(n, t, d, p)
    \/ \E n \in Names : CreateRejected(n)
    \/ \E i \in 1..MaxVaults, p \in Passwords : Delete(i, p)
    \/ \E i \in 1..MaxVaults, n \in Names, p \in Passwords : Rename(i, n, p)
    \/ \E i \in 1..MaxVaults, p \in Passwords : Unlock(i, p)
    \/ \E i \in 1..MaxVaults, old \in Passwords, new \in Passwords : ChangePassword(i, old, new)
    \/ \E i \in 1..MaxVaults, p \in Passwords : ChangePasswordFails(i, p)
    \/ \E i \in 1..MaxVaults, p \in Passwords : Resolve(i, p)
    \/ \E i \in 1..MaxVaults, p \in Passwords : Authenticate(i, p)
    \/ \E i \in 1..MaxVaults : WrongPassword(i)
    \/ \E i \in 1..MaxVaults : Alert(i)
    \/ \E i \in 1..MaxVaults : Scan(i)
    \/ Start
    \/ Quit
    \/ Crash

Spec == Init /\ [][Next]_vars

-----------------------------------------------------------------------------
(* Properties *)

\* Every field holds a value of its C type, in memory and in the image.
TypeOK == /\ up \in BOOLEAN /\ loaded \in BOOLEAN /\ clean \in BOOLEAN
          /\ vaults \in Seq(Vault) /\ nextId \in Nat
          /\ disk \in DiskImage
          /\ faults \in 0..FaultBound

\* The slots that hold a vault, rather than a zeroed record.
Named(vs) == {i \in DOMAIN vs : vs[i].name # NoName}

\* A slot that a cut image left zeroed behind its name, which a later rename
\* may set again: it has no directory.
Hollow(v) == v.id = 0 /\ v.path = NoName

\* Every vault is the one vault_find_by_id returns for its id, in memory and in
\* what was saved, and the next id is beyond them all: through deletions,
\* refused creations, failed and cut saves, crashes and reloads.  One vault is
\* excepted: after a cut between count and the end of next_id the counter is 0
\* behind slots that are zeroed, so the first creation repeats their id 0 and
\* the vault it made is not found by it.
IdsReach(vs, n) ==
    /\ \A i \in Named(vs) : \A j \in 1..(i - 1) : vs[j].id = vs[i].id => Hollow(vs[j])
    /\ \A i \in DOMAIN vs : vs[i].id < n \/ Hollow(vs[i])
UniqueIds == IdsReach(vaults, nextId) /\ IdsReach(disk.vaults, disk.nextId)

\* Every vault that has a directory is the one vault_find_by_name returns for
\* its name, in memory and in what was saved.  A record that a cut image ended
\* in before the directory may have the beginning of another vault's name, or
\* all of it, and is then never found: it has no directory.
NamesReach(vs) == \A i \in DOMAIN vs : vs[i].path # NoName =>
                     \A j \in 1..(i - 1) : vs[j].name # vs[i].name
UniqueNames == NamesReach(vaults) /\ NamesReach(disk.vaults)

\* While images are written whole, a vault has a password if and only if it
\* is PROTECTED, in memory and on disk, although auth_set_password can fail
\* after the slot was filled.
PasswordMatchesType(vs) ==
    \A i \in DOMAIN vs : vs[i].type = "PROTECTED" <=> vs[i].hash # NoPassword
CredentialsInv == "torn" \notin Faults =>
    PasswordMatchesType(vaults) /\ PasswordMatchesType(disk.vaults)

\* MAX_PASS_ATTEMPTS wrong passwords in a row leave a vault LOCKED, or in
\* ALERT if one was raised since: no call brings it back to OK while the
\* failures still count.
LockedOut(vs) == \A i \in DOMAIN vs :
                    vs[i].failed >= MaxAttempts => vs[i].status \in {"LOCKED", "ALERT"}
LockoutInv == "torn" \notin Faults => LockedOut(vaults) /\ LockedOut(disk.vaults)

\* A vault in ALERT has an open alert record, in memory and on disk, so that
\* alert_check_escalation finds when it began.
AlertHasRecord(vs) == \A i \in DOMAIN vs : vs[i].status = "ALERT" => vs[i].alerted
AlertInv == "torn" \notin Faults => AlertHasRecord(vaults) /\ AlertHasRecord(disk.vaults)

\* Write-through: as long as no save has failed, the image equals memory in
\* everything but the failure counters and ids spent on refused creations.
Durable(vs) == [i \in DOMAIN vs |-> [vs[i] EXCEPT !.failed = 0]]
WriteThrough ==
    up /\ clean => /\ disk.kind \in {"none", "good"}
                   /\ Durable(vaults) = Durable(disk.vaults)
                   /\ disk.nextId <= nextId

\* An id that catalog.dat has given to a vault is never given to another one,
\* by a process whose load succeeded: not after a save that failed, a crash, or
\* a creation that was refused.  (Type and path never change.)
SameVault(v, w) == v.type = w.type /\ v.path = w.path
DiskIdentity ==
    [][up /\ loaded /\ "torn" \notin Faults =>
         \A i \in DOMAIN disk.vaults, j \in DOMAIN disk'.vaults :
            disk.vaults[i].id = disk'.vaults[j].id => SameVault(disk.vaults[i], disk'.vaults[j])]_vars

\* The catalog implements the registry of module VaultRegistry: while no
\* process runs, what a start will find stands for what calls see.
ById(vs) == [id \in {vs[i].id : i \in DOMAIN vs} |->
               LET v == vs[CHOOSE i \in DOMAIN vs : vs[i].id = id]
               IN  [name |-> v.name, type |-> v.type, path |-> v.path]]

Registry == INSTANCE VaultRegistry WITH
    Ids      <- 0..IdBound,
    Entries  <- [name : Names, type : Types, path : Dirs],
    live     <- IF up THEN ById(vaults) ELSE ById(disk.vaults),
    durable  <- ById(disk.vaults),
    attached <- up => loaded

RegistrySpec == Registry!Spec
=============================================================================
