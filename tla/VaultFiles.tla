----------------------------- MODULE VaultFiles -----------------------------
(***************************************************************************)
(* The files of one protected vault and the calls that rewrite them:       *)
(* vault_encrypt_ffi and vault_decrypt_ffi (c_src/vault_ffi.c) with        *)
(* encrypt_file and decrypt_file (c_src/vault_crypto.c), one call of the   *)
(* system after the other, each of which may fail or be the last before    *)
(* the process dies; and what happens to the vault between them: files     *)
(* added and removed (src/vault.rs), the password changed.                 *)
(*                                                                         *)
(* The file x is kept as x or as x.enc; both may exist.  A call reads the  *)
(* directory once, skips hidden files, which Names leaves out, and holds   *)
(* g_monitor.lock to its end.  The mode bits of the files are left out.    *)
(***************************************************************************)
EXTENDS Naturals, FiniteSets

CONSTANTS
    Names,       \* the names files may have without .enc
    Contents,    \* what a user may store
    NoFile,      \* no such file
    Torn,        \* part of a file
    MaxKey,      \* the password is changed less often than this
    Faults,      \* what may fail: "opendir", "source", "target", "read", "write",
                 \* "close", "unlink", "derive", "save", "crash"
    FaultBound   \* and how often in one behaviour

ASSUME FilesAssumption ==
    /\ IsFiniteSet(Names)
    /\ NoFile \notin Contents /\ Torn \notin Contents /\ NoFile # Torn
    /\ MaxKey \in Nat \ {0}
    /\ FaultBound \in Nat

VARIABLES
    plain,      \* x, for each name x
    enc,        \* x.enc, for each name x
    key,        \* which password and salt are in force, 0 if none opens the vault
    fresh,      \* the next key no salt has been drawn for
    savedKey,   \* those in catalog.dat
    writeMode,  \* v->write_mode
    op,         \* the call in progress
    todo,       \* the directory entries it has yet to reach
    cur, stage, \* the one it is at, and where
    faults,     \* how many calls of the system have failed
    smooth,     \* none has since this call began (a history variable)
    found,      \* the files as this call found them (history)
    latest,     \* what the user last stored under each name (history)
    safe        \* the names that still ought to be recoverable (history)

files == <<plain, enc>>
keys  == <<key, fresh, savedKey>>
job   == <<op, todo, cur, stage>>
ghost == <<smooth, found, latest, safe>>
vars  == <<files, keys, writeMode, job, faults, ghost>>

Stored == Contents \cup {NoFile, Torn}

\* A file under GCM opens with the key it was made with and with no other.
Sealed(k, c) == [key |-> k, data |-> c]
Ciphers == [key : 0..MaxKey, data : Stored]
NoEnc   == Sealed(0, NoFile)
TornEnc == Sealed(0, Torn)

\* What the user stored under f can be had, as it is or with the password.
RecoverableWith(k, f) == plain[f] = latest[f] \/ enc[f] = Sealed(k, latest[f])
Recoverable(f) == RecoverableWith(key, f)

Fails(f) == f \in Faults /\ faults < FaultBound /\ faults' = faults + 1 /\ smooth' = FALSE
Works    == faults' = faults /\ smooth' = smooth

\* The two forms of every file; between calls nobody remembers them.
Present  == [plain |-> plain, enc |-> enc]
NoRecord == [plain |-> [f \in Names |-> NoFile], enc |-> [f \in Names |-> NoEnc]]

Set(fun, f, v) == fun' = [fun EXCEPT ![f] = v]

-----------------------------------------------------------------------------
(* The loop over the directory *)

\* Faulty variant: a file that exists in both forms is passed over.
SourceSkipsBoth(o) ==
    LET both == {f \in Names : plain[f] # NoFile /\ enc[f] # NoEnc}
    IN  IF o = "encrypt" THEN {f \in Names : plain[f] # NoFile} \ both
                         ELSE {f \in Names : enc[f] # NoEnc} \ both

\* Which entries a call visits: encryption skips *.enc, decryption all others.
Source(o) == IF o = "encrypt" THEN {f \in Names : plain[f] # NoFile}
                              ELSE {f \in Names : enc[f] # NoEnc}

\* The password was right.  vault_set_write_mode opens the directory first, and
\* does nothing if it cannot; the call then opens it again, and returns with
\* write mode on if that fails.
Start(o) ==
    /\ op = "idle" /\ key # 0
    /\ \/ /\ op' = o /\ todo' = Source(o) /\ found' = Present
          /\ \/ writeMode' = TRUE /\ faults' = faults /\ smooth' = TRUE
             \/ Fails("opendir") /\ UNCHANGED writeMode
       \/ /\ Fails("opendir") /\ writeMode' \in {writeMode, TRUE}
          /\ UNCHANGED <<op, todo, found>>
    /\ UNCHANGED <<files, keys, cur, stage, latest, safe>>

\* A file that cannot be opened is passed over.
Skip(f) == todo' = todo \ {f} /\ UNCHANGED <<cur, stage>>

\* The next entry, in whatever order readdir has them.
Begin(o, f) == op = o /\ stage = "next" /\ f \in todo
Enter(f)    == todo' = todo \ {f} /\ cur' = f /\ stage' = "write"

\* Faulty variant: the file is visited again.
LeaveRetries == stage' = "next" /\ todo' = todo \cup {cur} /\ UNCHANGED cur

\* What was under f's target is gone, and can be had from the source if that is good.
TargetGone(f, good) == safe' = IF good THEN safe ELSE safe \ {f}

Leave == stage' = "next" /\ UNCHANGED <<todo, cur>>

Finish ==
    /\ op # "idle" /\ stage = "next" /\ todo = {}
    /\ op' = "idle"
    /\ (Works /\ writeMode' = FALSE) \/ (Fails("opendir") /\ UNCHANGED writeMode)
    /\ found' = NoRecord
    /\ UNCHANGED <<files, keys, todo, cur, stage, latest, safe>>

-----------------------------------------------------------------------------
(* encrypt_file, then unlink of the plain file *)

\* Both files are opened, the target truncated, before either is looked at.  A
\* target that was opened goes if the source was not.  Nobody asks whether the
\* source is worth the target: a name whose source is not the latest is lost.
EncryptOpen(f) ==
    /\ Begin("encrypt", f)
    /\ \/ Works /\ Set(enc, f, TornEnc) /\ Enter(f) /\ TargetGone(f, plain[f] = latest[f])
       \/ Fails("source") /\ Set(enc, f, NoEnc) /\ Skip(f) /\ TargetGone(f, plain[f] = latest[f])
       \/ Fails("target") /\ UNCHANGED <<enc, safe>> /\ Skip(f)
    /\ UNCHANGED <<plain, keys, writeMode, op, found, latest>>

\* Faulty variant: the plain file goes even if the encryption failed.
EncryptWriteUnchecked ==
    /\ op = "encrypt" /\ stage = "write"
    /\ \/ Works /\ Set(enc, cur, Sealed(key, plain[cur])) /\ UNCHANGED safe
       \/ Fails("write") /\ Set(enc, cur, NoEnc) /\ UNCHANGED safe
    /\ stage' = "unlink" /\ UNCHANGED <<todo, cur>>
    /\ UNCHANGED <<plain, keys, writeMode, op, found, latest>>

\* Every fwrite is checked; a failed fread is taken for the end of the file, and
\* what fclose could not flush is missing from a file reported as complete: then
\* the name is lost.  The unlink of a target given up may fail too.
EncryptWrite ==
    /\ op = "encrypt" /\ stage = "write"
    /\ \/ /\ Works /\ Set(enc, cur, Sealed(key, plain[cur]))
          /\ stage' = "unlink" /\ UNCHANGED <<todo, cur, safe>>
       \/ Fails("write") /\ Set(enc, cur, NoEnc) /\ Leave /\ UNCHANGED safe
       \/ Fails("unlink") /\ UNCHANGED enc /\ Leave /\ UNCHANGED safe
       \/ /\ \/ Fails("read") /\ Set(enc, cur, Sealed(key, Torn))
             \/ Fails("close") /\ UNCHANGED enc
          /\ safe' = safe \ {cur}
          /\ stage' = "unlink" /\ UNCHANGED <<todo, cur>>
    /\ UNCHANGED <<plain, keys, writeMode, op, found, latest>>

EncryptUnlink ==
    /\ op = "encrypt" /\ stage = "unlink"
    /\ (Works /\ Set(plain, cur, NoFile)) \/ (Fails("unlink") /\ UNCHANGED plain)
    /\ Leave
    /\ UNCHANGED <<enc, keys, writeMode, op, found, latest, safe>>

-----------------------------------------------------------------------------
(* decrypt_file, then unlink of the .enc file *)

DecryptOpen(f) ==
    /\ Begin("decrypt", f)
    /\ \/ Works /\ Set(plain, f, Torn) /\ Enter(f) /\ TargetGone(f, enc[f] = Sealed(key, latest[f]))
       \/ /\ Fails("source") /\ Set(plain, f, NoFile) /\ Skip(f)
          /\ TargetGone(f, enc[f] = Sealed(key, latest[f]))
       \/ Fails("target") /\ UNCHANGED <<plain, safe>> /\ Skip(f)
    /\ UNCHANGED <<enc, keys, writeMode, op, found, latest>>

\* Faulty variant: what the .enc file holds is copied as it is.
DecryptWriteCopies ==
    /\ op = "decrypt" /\ stage = "write"
    /\ Works /\ Set(plain, cur, enc[cur])
    /\ stage' = "unlink" /\ UNCHANGED <<todo, cur, safe>>
    /\ UNCHANGED <<enc, keys, writeMode, op, found, latest>>

\* The tag is checked last.  A wrong key, a torn file or a failed write removes
\* the target, whatever it held before the call.
DecryptWrite ==
    /\ op = "decrypt" /\ stage = "write"
    /\ \/ /\ enc[cur].key = key
          /\ Works /\ Set(plain, cur, enc[cur].data)
          /\ stage' = "unlink" /\ UNCHANGED <<todo, cur, safe>>
       \/ /\ (enc[cur].key # key /\ Works) \/ Fails("write")
          /\ Set(plain, cur, NoFile) /\ Leave /\ UNCHANGED safe
       \/ Fails("unlink") /\ UNCHANGED plain /\ Leave /\ UNCHANGED safe
       \/ /\ enc[cur].key = key
          /\ Fails("close") /\ UNCHANGED plain /\ safe' = safe \ {cur}
          /\ stage' = "unlink" /\ UNCHANGED <<todo, cur>>
    /\ UNCHANGED <<enc, keys, writeMode, op, found, latest>>

DecryptUnlink ==
    /\ op = "decrypt" /\ stage = "unlink"
    /\ (Works /\ Set(enc, cur, NoEnc)) \/ (Fails("unlink") /\ UNCHANGED enc)
    /\ Leave
    /\ UNCHANGED <<plain, keys, writeMode, op, found, latest, safe>>

-----------------------------------------------------------------------------
(* Between calls *)

\* add_file refuses a name that exists, but looks for x only, not for x.enc.
AddFile(f, c) ==
    /\ op = "idle" /\ plain[f] = NoFile
    /\ Set(plain, f, c) /\ Set(latest, f, c)
    /\ safe' = safe \cup {f}
    /\ UNCHANGED <<enc, keys, writeMode, job, faults, smooth, found>>

\* remove_file, of x or of x.enc.  The user has given up what it held.
RemoveFile(f) ==
    /\ op = "idle"
    /\ \/ plain[f] # NoFile /\ Set(plain, f, NoFile) /\ UNCHANGED enc
       \/ enc[f] # NoEnc /\ Set(enc, f, NoEnc) /\ UNCHANGED plain
    /\ safe' = safe \ {f} /\ Set(latest, f, NoFile)
    /\ UNCHANGED <<keys, writeMode, job, faults, smooth, found>>

\* The new salt replaces the old one at once: files under the old key are lost.
\* With derive_key failing, the vault is left with a salt that no password fits;
\* with the save failing, the new password is in force until the process ends.
ChangePassword ==
    /\ op = "idle" /\ key # 0 /\ fresh <= MaxKey
    /\ fresh' = fresh + 1
    /\ \/ key' = fresh /\ savedKey' = fresh /\ Works
       \/ key' = fresh /\ Fails("save") /\ UNCHANGED savedKey
       \/ key' = 0 /\ Fails("derive") /\ UNCHANGED savedKey
    /\ safe' = {f \in safe : plain[f] = latest[f]}
    /\ UNCHANGED <<files, writeMode, job, found, latest>>

\* Any other call that saves the catalog saves the salt that is in memory.
CatalogSave ==
    /\ op = "idle" /\ savedKey # key
    /\ savedKey' = key
    /\ UNCHANGED <<files, key, fresh, writeMode, job, faults, ghost>>

\* The process is gone and started again, with the salt that was saved; write_mode
\* is not part of the image.
Crash ==
    /\ Fails("crash")
    /\ op' = "idle" /\ todo' = {} /\ stage' = "next" /\ writeMode' = FALSE
    /\ key' = savedKey /\ found' = NoRecord
    /\ safe' = {f \in safe : RecoverableWith(savedKey, f)}
    /\ UNCHANGED <<files, fresh, savedKey, cur, latest>>

-----------------------------------------------------------------------------

Init ==
    /\ plain = [f \in Names |-> NoFile] /\ enc = [f \in Names |-> NoEnc]
    /\ key = 1 /\ fresh = 2 /\ savedKey = 1 /\ writeMode = FALSE
    /\ op = "idle" /\ todo = {} /\ cur \in Names /\ stage = "next"
    /\ faults = 0 /\ smooth = TRUE /\ found = NoRecord
    /\ latest = [f \in Names |-> NoFile] /\ safe = {}

\* A step of the call in progress.
Progress ==
    \/ \E f \in Names : EncryptOpen(f) \/ DecryptOpen(f)
    \/ EncryptWrite \/ EncryptUnlink
    \/ DecryptWrite \/ DecryptUnlink
    \/ Finish

Next ==
    \/ Progress
    \/ \E o \in {"encrypt", "decrypt"} : Start(o)
    \/ \E f \in Names, c \in Contents : AddFile(f, c)
    \/ \E f \in Names : RemoveFile(f)
    \/ ChangePassword
    \/ CatalogSave
    \/ Crash

\* The loop runs until it has seen the directory.
Spec == Init /\ [][Next]_vars /\ WF_vars(Progress)

-----------------------------------------------------------------------------
(* Properties *)

FilesType ==
    /\ plain \in [Names -> Stored]
    /\ enc \in [Names -> Ciphers]
    /\ latest \in [Names -> Contents \cup {NoFile}]
FoundType == found \in [plain : [Names -> Stored], enc : [Names -> Ciphers]]
CountersType ==
    /\ key \in 0..MaxKey /\ savedKey \in 0..MaxKey /\ fresh \in 1..(MaxKey + 1)
    /\ faults \in 0..FaultBound
JobType ==
    /\ op \in {"idle", "encrypt", "decrypt"}
    /\ stage \in {"next", "write", "unlink"}
    /\ todo \subseteq Names /\ cur \in Names /\ safe \subseteq Names
FlagsType == writeMode \in BOOLEAN /\ smooth \in BOOLEAN

\* Every variable keeps its type.
TypeOK == FilesType /\ FoundType /\ CountersType /\ JobType /\ FlagsType

\* At every moment of an encryption or a decryption, and after it, completed,
\* failed in part or killed, what the user stored can be recovered with the
\* password, by the same call again if need be.  The exceptions are those that
\* leave safe, each where it happens.  Nothing need fail during the call for these: a
\* file that is encrypted when the password changes; a newer x beside an older
\* x.enc, or one under an old password, which a decryption replaces or removes;
\* a good x beside the torn x.enc of an encryption that was killed, which a
\* decryption removes, and a good x.enc beside a torn x, which an encryption
\* overwrites.  The others are a file whose fread, in an encryption, or fclose
\* failed, and a password not saved before a crash.
SafeFilesSurvive == \A f \in safe : Recoverable(f)

\* An encryption in which no call failed leaves no plain file, and every file
\* it found opens with the password.
EncryptSeals ==
    [][op = "encrypt" /\ op' = "idle" /\ smooth' =>
         \A f \in Names : plain'[f] = NoFile /\ (f \in safe => enc'[f] = Sealed(key, latest[f]))]_vars

\* A decryption in which no call failed opens every x.enc it found that its key
\* opens, in the place of whatever x was there, a newer one too; where the key
\* does not open x.enc, that stays and x is gone; a name without x.enc is left alone.
Opened(f)   == found.enc[f].key = key
InPlace(f)  == IF found.enc[f] = NoEnc THEN found.plain[f]
               ELSE IF Opened(f) THEN found.enc[f].data ELSE NoFile
LeftOver(f) == IF Opened(f) THEN NoEnc ELSE found.enc[f]
DecryptRestores ==
    [][op = "decrypt" /\ op' = "idle" /\ smooth' =>
         \A f \in Names : plain'[f] = InPlace(f) /\ enc'[f] = LeftOver(f)]_vars

\* A call comes to its end, whatever fails.
CallsEnd == op # "idle" ~> op = "idle"
=============================================================================
