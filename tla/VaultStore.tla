----------------------------- MODULE VaultStore -----------------------------
(***************************************************************************)
(* The file commands of the interpreter (src/vault.rs, src/crypto.rs):     *)
(* add-file, safe-copy, secure-copy, remove-file, encrypt and decrypt, one *)
(* call of the system after the other, with failures and a crash between   *)
(* any two of them.                                                        *)
(*                                                                         *)
(* A command makes up the names it writes to with with_extension, so that  *)
(* only files of one stem meet.  The module has one stem, and a file is    *)
(* its directory and its extension.  safe-copy takes any file and any name *)
(* but one the user makes up himself with .tmp_copy at its end.  Symbolic  *)
(* links, modes and the checks of paths are left out; passwords are right  *)
(* or the command does nothing.                                            *)
(***************************************************************************)
EXTENDS Integers

CONSTANTS
    Contents,    \* what the user's files hold
    UserExts,    \* the extensions the user gives to his files, "" for none
    Commands,    \* the commands he uses
    None, Torn,  \* no file; a file that was not written to its end
    MaxSeals,    \* how often a content is encrypted
    MaxUses,     \* commands and changes by the user in one behaviour
    Faults,      \* what may fail: "open", "write", "rename", "unlink", "crash"
    FaultBound   \* and how often in one behaviour

ASSUME StoreAssumption ==
    /\ None # Torn /\ {None, Torn} \cap (Contents \X Int) = {}
    /\ UserExts \cap {"tmp_copy", "dec"} = {}
    /\ MaxSeals \in Nat /\ MaxUses \in Nat /\ FaultBound \in Nat

VARIABLES
    file,      \* what each name holds
    job,       \* the command that runs
    verdict,   \* how the last one ended
    owed,      \* the contents the user gave and did not remove (history)
    replaced,  \* those of files that a command wrote over (history)
    smooth,    \* nothing failed in this command (history)
    uses, faults

vars == <<file, job, verdict, owed, replaced, smooth, uses, faults>>

Places == {"out", "vault"}
Exts   == UserExts \cup {"", "enc", "dec", "tmp_copy"}
Cells  == Places \X Exts
Plain  == Places \X (UserExts \ {"enc"})
Named  == Places \X (Exts \ {"tmp_copy"})

\* A content with the number of times it is encrypted.
Wholes == Contents \X (0..MaxSeals)
Values == Wholes \cup {None, Torn}

Tmp(p) == <<p[1], "tmp_copy">>
Enc(p) == <<p[1], "enc">>
Dec(p) == <<p[1], "dec">>

\* What was torn and then encrypted decrypts to what was torn.
Seal(v)   == IF v = Torn THEN Torn ELSE <<v[1], v[2] + 1>>
Unseal(v) == IF v = Torn THEN Torn ELSE <<v[1], v[2] - 1>>

Data(v) == IF v \in {None, Torn} THEN {} ELSE {v[1]}

Fails(f) == f \in Faults /\ faults < FaultBound /\ faults' = faults + 1 /\ smooth' = FALSE
Works    == UNCHANGED <<faults, smooth>>

Idle == [cmd |-> "none", src |-> <<"out", "">>, dst |-> <<"out", "">>, at |-> "idle", data |-> None]

Write(p, v)  == file' = [file EXCEPT ![p] = v]
History      == <<owed, replaced>>

\* Faulty variant: what the command was working on is not let go.
StopInPlace(result) == job' = [job EXCEPT !.at = "idle"] /\ verdict' = result

Stop(result) == job' = Idle /\ verdict' = result
Go(step)     == job' = [job EXCEPT !.at = step] /\ UNCHANGED verdict

\* The command stops with an error and leaves everything as it is.
Abort(f) == Fails(f) /\ Stop("error") /\ UNCHANGED <<file, History>>

\* What a command writes over is the user's to answer for, unless it is the
\* content the command is working on.
Replace(p, mine) == replaced' = replaced \cup (Data(file[p]) \ mine)

Start(cmd, s) ==
    /\ cmd \in Commands /\ job = Idle /\ uses < MaxUses /\ uses' = uses + 1
    /\ file[s] # None
    /\ smooth' = TRUE /\ UNCHANGED faults

-----------------------------------------------------------------------------
(* safe_copy *)

\* Faulty variant: the destination is opened, and written in place.
CopyOpenInPlace(cmd, s, d) ==
    /\ Start(cmd, s)
    /\ cmd = "add" => file[d] = None
    /\ job' = [cmd |-> cmd, src |-> s, dst |-> d, at |-> "copy", data |-> None]
    /\ Write(d, Torn) /\ verdict' = "none" /\ UNCHANGED History

\* The first calls of add_file, safe-copy and secure_store, up to create_new of
\* the temporary file, which fails if there is one.
CopyOpen(cmd, s, d) ==
    /\ Start(cmd, s)
    /\ cmd = "add" => file[d] = None
    /\ \/ /\ file[Tmp(d)] = None
          /\ Write(Tmp(d), Torn)
          /\ job' = [cmd |-> cmd, src |-> s, dst |-> d, at |-> "copy", data |-> None]
          /\ verdict' = "none"
       \/ file[Tmp(d)] # None /\ Stop("error") /\ UNCHANGED file
    /\ UNCHANGED History

\* read and write_all, until the end; after an error the file stays as it is.
CopyWrite ==
    /\ job.at = "copy"
    /\ \/ Write(Tmp(job.dst), file[job.src]) /\ Go("rename") /\ Works /\ UNCHANGED History
       \/ Abort("write")
    /\ UNCHANGED uses

\* Faulty variant: the temporary file is linked, not renamed.
CopyRenameKeeps ==
    /\ job.at = "rename"
    /\ \/ /\ file' = [file EXCEPT ![job.dst] = file[Tmp(job.dst)]]
          /\ Replace(job.dst, Data(file[job.src])) /\ UNCHANGED owed
          /\ IF job.cmd = "secure" THEN Go("seal") ELSE Stop("copied")
          /\ Works
       \/ Abort("rename")
    /\ UNCHANGED uses

CopyRename ==
    /\ job.at = "rename"
    /\ \/ /\ file' = [file EXCEPT ![job.dst] = file[Tmp(job.dst)], ![Tmp(job.dst)] = None]
          /\ Replace(job.dst, Data(file[job.src])) /\ UNCHANGED owed
          /\ IF job.cmd = "secure" THEN Go("seal") ELSE Stop("copied")
          /\ Works
       \/ Abort("rename")
    /\ UNCHANGED uses

-----------------------------------------------------------------------------
(* encrypt_file and decrypt_file of crypto.rs *)

\* fs::write truncates its target at once, and writes it in Fill.
Target == IF job.cmd = "decrypt" THEN Dec(job.dst) ELSE Enc(job.dst)

\* A file that is its own target is put at stake.
Truncate(t, p) ==
    /\ Write(t, Torn) /\ UNCHANGED owed
    /\ Replace(t, IF t = p THEN {} ELSE Data(file[p]))

\* In secure_store, on the copy: that of a file named .enc is its own target.
SealOpen ==
    /\ job.at = "seal"
    /\ \/ /\ Seal(file[job.dst]) \in Values
          /\ Truncate(Target, job.dst)
          /\ job' = [job EXCEPT !.at = "fill", !.data = Seal(file[job.dst])]
          /\ Works /\ UNCHANGED verdict
       \/ Abort("open")
    /\ UNCHANGED uses

\* As commands of their own; decrypt has checked the tag before it writes.
CryptOpen(cmd, p) ==
    /\ Start(cmd, p)
    /\ LET t == IF cmd = "decrypt" THEN Dec(p) ELSE Enc(p)
           v == IF cmd = "decrypt" THEN Unseal(file[p]) ELSE Seal(file[p])
       IN  /\ v \in Values
           /\ Truncate(t, p)
           /\ job' = [cmd |-> cmd, src |-> p, dst |-> p, at |-> "fill", data |-> v]
    /\ verdict' = "none"

\* Faulty variant: an error of encrypt_file does not end secure_store.
FillUnchecked ==
    /\ job.at = "fill"
    /\ \/ Write(Target, job.data) /\ Works
       \/ Fails("write") /\ UNCHANGED file
    /\ IF job.cmd = "secure" THEN Go("unlink") ELSE Stop("written")
    /\ UNCHANGED <<History, uses>>

Fill ==
    /\ job.at = "fill"
    /\ \/ /\ Write(Target, job.data) /\ Works /\ UNCHANGED History
          /\ IF job.cmd = "secure" THEN Go("unlink") ELSE Stop("written")
       \/ Abort("write")
    /\ UNCHANGED uses

-----------------------------------------------------------------------------
(* The end of secure_store: neither result is looked at. *)

Unlink(p) == (Write(p, None) /\ Works) \/ (Fails("unlink") /\ UNCHANGED file)

UnlinkCopy ==
    /\ job.at = "unlink"
    /\ Unlink(job.dst) /\ Go("last")
    /\ UNCHANGED <<History, uses>>

\* Faulty variant: the copy is removed a second time, and the source stays.
UnlinkCopyTwice ==
    /\ job.at = "last"
    /\ Unlink(job.dst) /\ Stop("stored")
    /\ UNCHANGED <<History, uses>>

UnlinkSource ==
    /\ job.at = "last"
    /\ Unlink(job.src) /\ Stop("stored")
    /\ UNCHANGED <<History, uses>>

-----------------------------------------------------------------------------
(* Between commands *)

Held(f) == UNION {Data(f[p]) : p \in Cells}

\* remove_file, or the user's own rm; what he destroys himself is not owed.
RemoveFile(p) ==
    /\ job = Idle /\ file[p] # None
    /\ Write(p, None) /\ owed' = owed \cap Held(file')
    /\ verdict' = "none" /\ uses < MaxUses /\ uses' = uses + 1
    /\ UNCHANGED <<job, replaced, smooth, faults>>

\* The user writes a file of his own.
Put(e, c) ==
    /\ job = Idle
    /\ Write(<<"out", e>>, <<c, 0>>)
    /\ owed' = (owed \cap Held(file')) \cup {c} /\ replaced' = replaced \ {c}
    /\ verdict' = "none" /\ uses < MaxUses /\ uses' = uses + 1
    /\ UNCHANGED <<job, smooth, faults>>

\* decrypt_file of the core, for vault-decrypt, meets a file in the format of
\* crypto.rs: it opens its target, the name without .enc, fails, and unlinks it.
VaultDecrypt ==
    /\ Start("vault-decrypt", <<"vault", "enc">>)
    /\ Write(<<"vault", "">>, None)
    /\ Replace(<<"vault", "">>, {}) /\ verdict' = "error"
    /\ UNCHANGED <<job, owed>>

Crash ==
    /\ job # Idle
    /\ Fails("crash") /\ Stop("none")
    /\ UNCHANGED <<file, History, uses>>

-----------------------------------------------------------------------------

Init ==
    /\ \E given \in [UserExts -> (Contents \X {0}) \cup {None}] :
          file = [p \in Cells |->
                    IF p \in {"out"} \X UserExts THEN given[p[2]] ELSE None]
    /\ job = Idle /\ verdict = "none"
    /\ owed = Held(file) /\ replaced = {}
    /\ smooth = TRUE /\ uses = 0 /\ faults = 0

InVault(p) == <<"vault", p[2]>>

Next ==
    \/ \E cmd \in {"add", "secure"}, p \in Named : CopyOpen(cmd, p, InVault(p))
    \/ \E p \in Cells, d \in Named : CopyOpen("copy", p, d)
    \/ \E e \in UserExts, c \in Contents : Put(e, c)
    \/ CopyWrite \/ CopyRename
    \/ \E cmd \in {"encrypt", "decrypt"}, p \in Cells : CryptOpen(cmd, p)
    \/ SealOpen \/ Fill
    \/ UnlinkCopy \/ UnlinkSource
    \/ \E p \in Cells : RemoveFile(p)
    \/ VaultDecrypt
    \/ Crash

Spec == Init /\ [][Next]_vars

-----------------------------------------------------------------------------
(* Properties *)

FileType == file \in [Cells -> Values]
JobType ==
    /\ job \in [cmd  : {"none", "add", "copy", "secure", "encrypt", "decrypt"},
                src  : Cells, dst : Cells, data : Values,
                at   : {"idle", "copy", "rename", "seal", "fill", "unlink", "last"}]
    /\ job.at = "idle" => job = Idle
HistoryType ==
    /\ verdict \in {"none", "error", "copied", "written", "stored"}
    /\ owed \subseteq Contents /\ replaced \subseteq Contents
CountType == smooth \in BOOLEAN /\ uses \in 0..MaxUses /\ faults \in 0..FaultBound

\* Every variable keeps its type; a command that has ended leaves no job.
TypeOK == FileType /\ JobType /\ HistoryType /\ CountType

\* Whatever fails and wherever a command dies, what the user gave is in some file
\* from which it can be had, unless he removed it or a command wrote over it.
\* Written over are a file of the name, or of the stem and .enc or .dec, that a
\* command writes, and a file that encrypt, decrypt or secure-copy writes in place.
NothingElseIsLost == owed \ replaced \subseteq Held(file)

\* A file under a name the user gave appears in one step, as what the file it was
\* copied from holds, and changes in no other way but by the user's own hand: it
\* is a part of something only if the user had a part copied, one that fs::write
\* left in a .enc or a .dec, or a failed copy in a .tmp_copy.
Shelf == INSTANCE VaultShelf WITH
    Names <- Plain, Outside <- {p \in Plain : p[1] = "out"},
    Values <- Wholes, Absent <- None, shelf <- file
ShelfSpec == Shelf!Spec

\* A temporary file is left, and blocks all later copies to its stem, and a torn
\* file is left, only by commands in which something failed.
CalmLeavesNothing ==
    job = Idle /\ faults = 0 =>
        \A p \in Cells : /\ file[p] # Torn
                        /\ p[2] = "tmp_copy" => file[p] = None

\* A secure-copy in which nothing failed has moved the file: sealed in the vault,
\* and in the clear nowhere; a file named .enc excepted, which is gone.  One that
\* was in the vault before is sealed in its place.
StoredIsSealed ==
    [][job.at = "last" /\ verdict' = "stored" /\ smooth' /\ job.dst[2] # "enc" =>
        /\ file'[Enc(job.dst)] = job.data
        /\ job.src # job.dst => job.data = Seal(file[job.src])
        /\ file'[job.src] = None /\ file'[job.dst] = None]_vars

\* README.md: secure-copy moves a file into the vault, and encrypts it.
NothingIsLost == owed \subseteq Held(file)
=============================================================================
