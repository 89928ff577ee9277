-------------------------- MODULE VaultFilesProofs --------------------------
(***************************************************************************)
(* Proofs about VaultFiles, for any names, contents, faults and number of  *)
(* passwords: what a user stored survives every call, and a call in which  *)
(* nothing failed does what it says.                                       *)
(***************************************************************************)
EXTENDS VaultFiles, FiniteSetTheorems, TLAPS

-----------------------------------------------------------------------------
(* The inductive invariant *)

\* The call has yet to write f's target, or is about to remove f's source.
Ahead(f)    == f \in todo \/ (stage = "write" /\ f = cur)
Removing(f) == stage = "unlink" /\ f = cur

\* A call needs a key; between calls nothing is under way; a file is visited once.
JobInv ==
    /\ op # "idle" => key # 0
    /\ op = "idle" => stage = "next" /\ todo = {}
    /\ stage # "next" => cur \notin todo

\* What the history says is worth keeping is there.
SafeInv == \A f \in safe : latest[f] \in Contents /\ Recoverable(f)

\* While x.enc is written, x is intact, and x is removed only when x.enc is.
EncryptInv ==
    op = "encrypt" => \A f \in safe :
        /\ stage = "write" /\ f = cur => plain[f] = latest[f]
        /\ Removing(f) => enc[f] = Sealed(key, latest[f])

DecryptInv ==
    op = "decrypt" => \A f \in safe :
        /\ stage = "write" /\ f = cur => enc[f] = Sealed(key, latest[f])
        /\ Removing(f) => plain[f] = latest[f]

\* As long as nothing failed, the files behind the call are done.
EncryptedInv ==
    op = "encrypt" /\ smooth => \A f \in Names :
        \/ Ahead(f) \/ Removing(f)
        \/ plain[f] = NoFile /\ (f \in safe => enc[f] = Sealed(key, latest[f]))

\* What a decryption has made of a name, as long as nothing failed.
Untouched(f) == enc[f] = found.enc[f] /\ enc[f] # NoEnc
Restored(f)  == plain[f] = InPlace(f) /\ enc[f] = LeftOver(f)
Visited(f) ==
    IF Ahead(f) THEN Untouched(f)
    ELSE IF Removing(f) THEN Untouched(f) /\ Opened(f) /\ plain[f] = InPlace(f)
    ELSE Restored(f)
DecryptedInv == op = "decrypt" /\ smooth => \A f \in Names : Visited(f)

Inv == TypeOK /\ JobInv /\ SafeInv /\ EncryptInv /\ DecryptInv /\ EncryptedInv /\ DecryptedInv

-----------------------------------------------------------------------------
(* Types *)

LEMMA SealedType ==
    ASSUME NEW k \in 0..MaxKey, NEW c \in Stored
    PROVE  Sealed(k, c) \in Ciphers
BY DEF Sealed, Ciphers

LEMMA SealedFields == \A k, c : Sealed(k, c).key = k /\ Sealed(k, c).data = c
BY DEF Sealed

LEMMA CipherType == \A e \in Ciphers : e.key \in 0..MaxKey /\ e.data \in Stored
BY DEF Ciphers

LEMMA StoredType == NoFile \in Stored /\ Torn \in Stored /\ Contents \subseteq Stored
BY DEF Stored

LEMMA NoEncType == NoEnc \in Ciphers /\ TornEnc \in Ciphers
BY FilesAssumption, StoredType, SealedType DEF NoEnc, TornEnc

\* A call remembers the files as they are when it starts, and nothing at its end.
LEMMA FoundKept == [Next]_vars => found' \in {found, Present, NoRecord}
BY DEF Next, Progress, EncryptOpen, EncryptWrite, EncryptUnlink, DecryptOpen, DecryptWrite,
       DecryptUnlink, Finish, Start, AddFile, RemoveFile, ChangePassword, CatalogSave, Crash,
       vars, ghost

LEMMA RecordTypes ==
    ASSUME FilesType
    PROVE  {Present, NoRecord} \subseteq [plain : [Names -> Stored], enc : [Names -> Ciphers]]
<1>1. Present \in [plain : [Names -> Stored], enc : [Names -> Ciphers]]
  BY DEF FilesType, Present
<1>2. [f \in Names |-> NoFile] \in [Names -> Stored] /\ [f \in Names |-> NoEnc] \in [Names -> Ciphers]
  BY StoredType, NoEncType
<1> QED
  BY <1>1, <1>2 DEF NoRecord

LEMMA TypeInit == Init => TypeOK
<1> SUFFICES ASSUME Init PROVE TypeOK
  OBVIOUS
<1>1. FilesType
  BY StoredType, NoEncType DEF Init, FilesType
<1>2. CountersType
  BY FilesAssumption DEF Init, CountersType
<1>3. JobType
  BY DEF Init, JobType
<1>4. FlagsType
  BY DEF Init, FlagsType
<1>5. FoundType
  BY <1>1, RecordTypes DEF Init, FoundType
<1> QED
  BY <1>1, <1>2, <1>3, <1>4, <1>5 DEF TypeOK

LEMMA TypeStep == TypeOK /\ [Next]_vars => TypeOK'
<1> SUFFICES ASSUME TypeOK, [Next]_vars PROVE TypeOK'
  OBVIOUS
<1>0. FoundType'
  BY FoundKept, RecordTypes DEF TypeOK, FoundType
<1> USE FilesAssumption, StoredType, SealedType, CipherType, NoEncType
    DEF TypeOK, FilesType, CountersType, JobType, FlagsType, Works, Fails, Set, TargetGone
<1>1. ASSUME NEW f \in Names, EncryptOpen(f) PROVE TypeOK'
  <2>1. FilesType'
    BY <1>1, ZenonT(60) DEF EncryptOpen, Begin, Enter, Skip, keys
  <2>2. CountersType'
    BY <1>1 DEF EncryptOpen, Begin, Enter, Skip, keys
  <2>3. JobType'
    BY <1>1 DEF EncryptOpen, Begin, Enter, Skip, keys
  <2>4. FlagsType'
    BY <1>1 DEF EncryptOpen, Begin, Enter, Skip, keys
  <2> QED
    BY <1>0, <2>1, <2>2, <2>3, <2>4
<1>2. CASE EncryptWrite
  <2>1. FilesType'
    <3>1. Sealed(key, plain[cur]) \in Ciphers /\ Sealed(key, Torn) \in Ciphers
      OBVIOUS
    <3> QED
      BY <1>2, <3>1 DEF EncryptWrite, Leave, keys
  <2>2. CountersType'
    BY <1>2 DEF EncryptWrite, Leave, keys
  <2>3. JobType'
    BY <1>2 DEF EncryptWrite, Leave, keys
  <2>4. FlagsType'
    BY <1>2 DEF EncryptWrite, Leave, keys
  <2> QED
    BY <1>0, <2>1, <2>2, <2>3, <2>4
<1>3. CASE EncryptUnlink
  <2>1. FilesType'
    BY <1>3 DEF EncryptUnlink, Leave, keys
  <2>2. CountersType'
    BY <1>3 DEF EncryptUnlink, Leave, keys
  <2>3. JobType'
    BY <1>3 DEF EncryptUnlink, Leave, keys
  <2>4. FlagsType'
    BY <1>3 DEF EncryptUnlink, Leave, keys
  <2> QED
    BY <1>0, <2>1, <2>2, <2>3, <2>4
<1>4. ASSUME NEW f \in Names, DecryptOpen(f) PROVE TypeOK'
  <2>1. FilesType'
    BY <1>4, ZenonT(60) DEF DecryptOpen, Begin, Enter, Skip, keys
  <2>2. CountersType'
    BY <1>4 DEF DecryptOpen, Begin, Enter, Skip, keys
  <2>3. JobType'
    BY <1>4 DEF DecryptOpen, Begin, Enter, Skip, keys
  <2>4. FlagsType'
    BY <1>4 DEF DecryptOpen, Begin, Enter, Skip, keys
  <2> QED
    BY <1>0, <2>1, <2>2, <2>3, <2>4
<1>5. CASE DecryptWrite
  <2>1. FilesType'
    BY <1>5 DEF DecryptWrite, Leave, keys
  <2>2. CountersType'
    BY <1>5 DEF DecryptWrite, Leave, keys
  <2>3. JobType'
    BY <1>5 DEF DecryptWrite, Leave, keys
  <2>4. FlagsType'
    BY <1>5 DEF DecryptWrite, Leave, keys
  <2> QED
    BY <1>0, <2>1, <2>2, <2>3, <2>4
<1>6. CASE DecryptUnlink
  <2>1. FilesType'
    BY <1>6 DEF DecryptUnlink, Leave, keys
  <2>2. CountersType'
    BY <1>6 DEF DecryptUnlink, Leave, keys
  <2>3. JobType'
    BY <1>6 DEF DecryptUnlink, Leave, keys
  <2>4. FlagsType'
    BY <1>6 DEF DecryptUnlink, Leave, keys
  <2> QED
    BY <1>0, <2>1, <2>2, <2>3, <2>4
<1>7. CASE Finish
  <2>1. FilesType'
    BY <1>7 DEF Finish, files, keys
  <2>2. CountersType'
    BY <1>7 DEF Finish, files, keys
  <2>3. JobType'
    BY <1>7 DEF Finish, files, keys
  <2>4. FlagsType'
    BY <1>7 DEF Finish, files, keys
  <2> QED
    BY <1>0, <2>1, <2>2, <2>3, <2>4
<1>8. ASSUME NEW o \in {"encrypt", "decrypt"}, Start(o) PROVE TypeOK'
  <2>1. FilesType'
    BY <1>8 DEF Start, Present, files, keys
  <2>2. CountersType'
    <3>1. UNCHANGED keys /\ (faults' = faults \/ Fails("opendir"))
      BY <1>8 DEF Start
    <3> QED
      BY <3>1 DEF keys
  <2>3. JobType'
    BY <1>8 DEF Start, files, keys, Source
  <2>4. FlagsType'
    BY <1>8 DEF Start, files, keys
  <2> QED
    BY <1>0, <2>1, <2>2, <2>3, <2>4
<1>9. ASSUME NEW f \in Names, NEW c \in Contents, AddFile(f, c) PROVE TypeOK'
  <2>1. FilesType'
    BY <1>9 DEF AddFile, keys, job
  <2>2. CountersType'
    BY <1>9 DEF AddFile, keys, job
  <2>3. JobType'
    BY <1>9 DEF AddFile, keys, job
  <2>4. FlagsType'
    BY <1>9 DEF AddFile, keys, job
  <2> QED
    BY <1>0, <2>1, <2>2, <2>3, <2>4
<1>10. ASSUME NEW f \in Names, RemoveFile(f) PROVE TypeOK'
  <2>1. FilesType'
    BY <1>10 DEF RemoveFile, keys, job
  <2>2. CountersType'
    BY <1>10 DEF RemoveFile, keys, job
  <2>3. JobType'
    BY <1>10 DEF RemoveFile, keys, job
  <2>4. FlagsType'
    BY <1>10 DEF RemoveFile, keys, job
  <2> QED
    BY <1>0, <2>1, <2>2, <2>3, <2>4
<1>11. CASE ChangePassword
  <2>1. FilesType'
    BY <1>11 DEF ChangePassword, files, job
  <2>2. CountersType'
    BY <1>11 DEF ChangePassword, files, job
  <2>3. JobType'
    BY <1>11 DEF ChangePassword, files, job
  <2>4. FlagsType'
    BY <1>11 DEF ChangePassword, files, job
  <2> QED
    BY <1>0, <2>1, <2>2, <2>3, <2>4
<1>12. CASE CatalogSave
  <2>1. FilesType'
    BY <1>12 DEF CatalogSave, files, job, ghost
  <2>2. CountersType'
    BY <1>12 DEF CatalogSave, files, job, ghost
  <2>3. JobType'
    BY <1>12 DEF CatalogSave, files, job, ghost
  <2>4. FlagsType'
    BY <1>12 DEF CatalogSave, files, job, ghost
  <2> QED
    BY <1>0, <2>1, <2>2, <2>3, <2>4
<1>13. CASE Crash
  <2>1. FilesType'
    BY <1>13 DEF Crash, files
  <2>2. CountersType'
    BY <1>13 DEF Crash, files
  <2>3. JobType'
    BY <1>13 DEF Crash, files
  <2>4. FlagsType'
    BY <1>13 DEF Crash, files
  <2> QED
    BY <1>0, <2>1, <2>2, <2>3, <2>4
<1>14. CASE UNCHANGED vars
  <2>1. FilesType'
    BY <1>14 DEF vars, files, keys, job, ghost
  <2>2. CountersType'
    BY <1>14 DEF vars, files, keys, job, ghost
  <2>3. JobType'
    BY <1>14 DEF vars, files, keys, job, ghost
  <2>4. FlagsType'
    BY <1>14 DEF vars, files, keys, job, ghost
  <2> QED
    BY <1>0, <2>1, <2>2, <2>3, <2>4
<1> QED
  BY <1>1, <1>2, <1>3, <1>4, <1>5, <1>6, <1>7, <1>8, <1>9, <1>10, <1>11, <1>12, <1>13, <1>14
     DEF Next, Progress

\* Every variable keeps its type in every reachable state.
THEOREM TypeCorrect == Spec => []TypeOK
BY TypeInit, TypeStep, PTL DEF Spec

-----------------------------------------------------------------------------
(* The invariant *)

LEMMA InvInit == Init => Inv
BY TypeInit DEF Init, Inv, JobInv, SafeInv, EncryptInv, DecryptInv, EncryptedInv, DecryptedInv

LEMMA DecryptedStep == Inv /\ [Next]_vars => DecryptedInv'
<1> SUFFICES ASSUME Inv, [Next]_vars, op' = "decrypt", smooth', NEW g \in Names
             PROVE  Visited(g)'
  BY DEF DecryptedInv
<1>0. /\ plain \in [Names -> Stored] /\ enc \in [Names -> Ciphers]
      /\ todo \subseteq Names /\ cur \in Names
      /\ op # "idle" => key # 0
      /\ stage # "next" => cur \notin todo
      /\ op = "decrypt" /\ smooth => Visited(g)
  BY DEF Inv, TypeOK, FilesType, JobType, JobInv, DecryptedInv
<1> USE SealedFields DEF Visited, Ahead, Removing, Untouched, Opened, InPlace, LeftOver, Restored
<1>1. ASSUME NEW f \in Names, DecryptOpen(f) PROVE Visited(g)'
  <2>1. /\ op = "decrypt" /\ smooth /\ stage = "next" /\ f \in todo
        /\ todo' = todo \ {f} /\ cur' = f /\ stage' = "write"
        /\ plain' = [plain EXCEPT ![f] = Torn]
        /\ UNCHANGED <<enc, key, found>>
    BY <1>1 DEF DecryptOpen, Begin, Enter, Works, Fails, Set, keys
  <2>2. CASE g = f
    BY <1>0, <2>1, <2>2
  <2>3. CASE g # f
    BY <1>0, <2>1, <2>3
  <2> QED
    BY <2>2, <2>3
<1>2. CASE DecryptWrite
  <2>1. /\ op = "decrypt" /\ smooth /\ stage = "write"
        /\ UNCHANGED <<enc, key, found, todo, cur>>
        /\ IF enc[cur].key = key
           THEN plain' = [plain EXCEPT ![cur] = enc[cur].data] /\ stage' = "unlink"
           ELSE plain' = [plain EXCEPT ![cur] = NoFile] /\ stage' = "next"
    BY <1>2 DEF DecryptWrite, Leave, Works, Fails, Set, keys
  <2>2. CASE g = cur
    BY <1>0, <2>1, <2>2
  <2>3. CASE g # cur
    BY <1>0, <2>1, <2>3
  <2> QED
    BY <2>2, <2>3
<1>3. CASE DecryptUnlink
  <2>1. /\ op = "decrypt" /\ smooth /\ stage = "unlink" /\ stage' = "next"
        /\ enc' = [enc EXCEPT ![cur] = NoEnc]
        /\ UNCHANGED <<plain, key, found, todo, cur>>
    BY <1>3 DEF DecryptUnlink, Leave, Works, Fails, Set, keys
  <2>2. CASE g = cur
    BY <1>0, <2>1, <2>2
  <2>3. CASE g # cur
    BY <1>0, <2>1, <2>3
  <2> QED
    BY <2>2, <2>3
<1>4. CASE Start("decrypt")
  <2>1. /\ key # 0 /\ found' = Present /\ todo' = Source("decrypt") /\ stage' = "next"
        /\ UNCHANGED <<plain, enc, key>>
    BY <1>4 DEF Start, Fails, files, keys, Inv, JobInv
  <2> QED
    BY <1>0, <2>1 DEF Present, Source, NoEnc
<1>5. CASE UNCHANGED vars
  BY <1>0, <1>5 DEF vars, files, keys, job, ghost
<1> QED
  BY <1>1, <1>2, <1>3, <1>4, <1>5
     DEF Next, Progress, EncryptOpen, EncryptWrite, EncryptUnlink, Finish, Start, Begin, AddFile,
         RemoveFile, ChangePassword, CatalogSave, Crash, job

LEMMA InvStep == Inv /\ [Next]_vars => Inv'
<1> SUFFICES ASSUME Inv, [Next]_vars PROVE Inv'
  OBVIOUS
<1> TypeOK'
  BY TypeStep DEF Inv
<1>0. DecryptedInv'
  BY DecryptedStep
<1> USE FilesAssumption, SealedFields, CipherType, StoredType
    DEF Inv, TypeOK, FilesType, JobType, CountersType, FlagsType, JobInv, SafeInv, EncryptInv,
        DecryptInv, EncryptedInv, Ahead, Removing, Recoverable, RecoverableWith,
        Works, Fails, Set, NoEnc, TornEnc, TargetGone
<1>1. ASSUME NEW f \in Names, EncryptOpen(f) PROVE Inv'
  <2>1. JobInv'
    BY <1>1 DEF EncryptOpen, Begin, Enter, Skip, keys
  <2>2. SafeInv'
    BY <1>1 DEF EncryptOpen, Begin, Enter, Skip, keys
  <2>3. EncryptInv'
    BY <1>1 DEF EncryptOpen, Begin, Enter, Skip, keys
  <2>4. DecryptInv'
    BY <1>1 DEF EncryptOpen, Begin, Enter, Skip, keys
  <2>5. EncryptedInv'
    <3> SUFFICES ASSUME smooth', NEW g \in Names
                 PROVE  \/ Ahead(g)' \/ Removing(g)'
                        \/ /\ plain'[g] = NoFile
                           /\ g \in safe' => enc'[g] = Sealed(key', latest'[g])
      BY <1>1 DEF EncryptOpen
    <3>1. /\ op = "encrypt" /\ stage = "next" /\ smooth
          /\ todo' = todo \ {f} /\ cur' = f /\ stage' = "write"
          /\ UNCHANGED <<plain, key, latest>> /\ safe' \subseteq safe
          /\ g # f => enc'[g] = enc[g]
      BY <1>1 DEF EncryptOpen, Begin, Enter, keys
    <3>2. CASE g = f
      BY <3>1, <3>2
    <3>3. CASE g # f
      BY <3>1, <3>3
    <3> QED
      BY <3>2, <3>3
  <2> QED
    BY <1>0, <2>1, <2>2, <2>3, <2>4, <2>5
<1>2. CASE EncryptWrite
  <2>1. JobInv'
    BY <1>2 DEF EncryptWrite, Leave, keys
  <2>2. SafeInv'
    BY <1>2 DEF EncryptWrite, Leave, keys
  <2>3. EncryptInv'
    BY <1>2 DEF EncryptWrite, Leave, keys
  <2>4. DecryptInv'
    BY <1>2 DEF EncryptWrite, Leave, keys
  <2>5. EncryptedInv'
    <3>1. SUFFICES ASSUME smooth', NEW g \in Names
                   PROVE  \/ Ahead(g)' \/ Removing(g)'
                          \/ /\ plain'[g] = NoFile
                             /\ g \in safe' => enc'[g] = Sealed(key', latest'[g])
      BY <1>2 DEF EncryptWrite
    <3>2. /\ op = "encrypt" /\ stage = "write" /\ smooth
          /\ stage' = "unlink"
          /\ UNCHANGED <<plain, key, latest, safe, todo, cur>>
          /\ g # cur => enc'[g] = enc[g]
      BY <1>2, <3>1 DEF EncryptWrite, keys
    <3>3. CASE g = cur
      BY <3>2, <3>3
    <3>4. CASE g # cur
      BY <3>2, <3>4
    <3> QED
      BY <3>3, <3>4
  <2> QED
    BY <1>0, <2>1, <2>2, <2>3, <2>4, <2>5
<1>3. CASE EncryptUnlink
  <2>1. JobInv'
    BY <1>3 DEF EncryptUnlink, Leave, keys
  <2>2. SafeInv'
    BY <1>3 DEF EncryptUnlink, Leave, keys
  <2>3. EncryptInv'
    BY <1>3 DEF EncryptUnlink, Leave, keys
  <2>4. DecryptInv'
    BY <1>3 DEF EncryptUnlink, Leave, keys
  <2>5. EncryptedInv'
    BY <1>3, ZenonT(60) DEF EncryptUnlink, Leave, keys
  <2> QED
    BY <1>0, <2>1, <2>2, <2>3, <2>4, <2>5
<1>4. ASSUME NEW f \in Names, DecryptOpen(f) PROVE Inv'
  <2>1. JobInv'
    BY <1>4 DEF DecryptOpen, Begin, Enter, Skip, keys
  <2>2. SafeInv'
    BY <1>4 DEF DecryptOpen, Begin, Enter, Skip, keys
  <2>3. EncryptInv'
    BY <1>4 DEF DecryptOpen, Begin, Enter, Skip, keys
  <2>4. DecryptInv'
    BY <1>4 DEF DecryptOpen, Begin, Enter, Skip, keys
  <2>5. EncryptedInv'
    BY <1>4 DEF DecryptOpen, Begin, Enter, Skip, keys
  <2> QED
    BY <1>0, <2>1, <2>2, <2>3, <2>4, <2>5
<1>5. CASE DecryptWrite
  <2>1. JobInv'
    BY <1>5 DEF DecryptWrite, Leave, keys
  <2>2. SafeInv'
    BY <1>5 DEF DecryptWrite, Leave, keys
  <2>3. EncryptInv'
    BY <1>5 DEF DecryptWrite, Leave, keys
  <2>4. DecryptInv'
    BY <1>5 DEF DecryptWrite, Leave, keys
  <2>5. EncryptedInv'
    BY <1>5 DEF DecryptWrite, Leave, keys
  <2> QED
    BY <1>0, <2>1, <2>2, <2>3, <2>4, <2>5
<1>6. CASE DecryptUnlink
  <2>1. JobInv'
    BY <1>6 DEF DecryptUnlink, Leave, keys
  <2>2. SafeInv'
    BY <1>6 DEF DecryptUnlink, Leave, keys
  <2>3. EncryptInv'
    BY <1>6 DEF DecryptUnlink, Leave, keys
  <2>4. DecryptInv'
    BY <1>6 DEF DecryptUnlink, Leave, keys
  <2>5. EncryptedInv'
    BY <1>6 DEF DecryptUnlink, Leave, keys
  <2> QED
    BY <1>0, <2>1, <2>2, <2>3, <2>4, <2>5
<1>7. CASE Finish
  BY <1>0, <1>7 DEF Finish, files, keys
<1>8. ASSUME NEW o \in {"encrypt", "decrypt"}, Start(o) PROVE Inv'
  <2>1. JobInv'
    BY <1>8 DEF Start, Source, Present, files, keys
  <2>2. SafeInv'
    BY <1>8 DEF Start, Source, Present, files, keys
  <2>3. EncryptInv'
    BY <1>8 DEF Start, Source, Present, files, keys
  <2>4. DecryptInv'
    BY <1>8 DEF Start, Source, Present, files, keys
  <2>5. EncryptedInv'
    BY <1>8 DEF Start, Source, Present, files, keys
  <2> QED
    BY <1>0, <2>1, <2>2, <2>3, <2>4, <2>5
<1>9. ASSUME NEW f \in Names, NEW c \in Contents, AddFile(f, c) PROVE Inv'
  <2>1. JobInv'
    BY <1>9 DEF AddFile, keys, job
  <2>2. SafeInv'
    BY <1>9 DEF AddFile, keys, job
  <2>3. EncryptInv'
    BY <1>9 DEF AddFile, keys, job
  <2>4. DecryptInv'
    BY <1>9 DEF AddFile, keys, job
  <2>5. EncryptedInv'
    BY <1>9 DEF AddFile, keys, job
  <2> QED
    BY <1>0, <2>1, <2>2, <2>3, <2>4, <2>5
<1>10. ASSUME NEW f \in Names, RemoveFile(f) PROVE Inv'
  <2>1. JobInv'
    BY <1>10 DEF RemoveFile, keys, job
  <2>2. SafeInv'
    BY <1>10 DEF RemoveFile, keys, job
  <2>3. EncryptInv'
    BY <1>10 DEF RemoveFile, keys, job
  <2>4. DecryptInv'
    BY <1>10 DEF RemoveFile, keys, job
  <2>5. EncryptedInv'
    BY <1>10 DEF RemoveFile, keys, job
  <2> QED
    BY <1>0, <2>1, <2>2, <2>3, <2>4, <2>5
<1>11. CASE ChangePassword
  BY <1>0, <1>11 DEF ChangePassword, files, job
<1>12. CASE CatalogSave
  BY <1>0, <1>12 DEF CatalogSave, files, job, ghost
<1>13. CASE Crash
  BY <1>0, <1>13 DEF Crash, files
<1>14. CASE UNCHANGED vars
  BY <1>0, <1>14 DEF vars, files, keys, job, ghost
<1> QED
  BY <1>1, <1>2, <1>3, <1>4, <1>5, <1>6, <1>7, <1>8, <1>9, <1>10, <1>11, <1>12, <1>13, <1>14
     DEF Next, Progress

LEMMA InvCorrect == Spec => []Inv
BY InvInit, InvStep, PTL DEF Spec

-----------------------------------------------------------------------------
(* The results *)

\* Whatever fails, and wherever the process dies, what ought to be recoverable is.
THEOREM FilesSurvive == Spec => []SafeFilesSurvive
<1>1. Inv => SafeFilesSurvive
  BY DEF Inv, SafeInv, SafeFilesSurvive
<1> QED
  BY <1>1, InvCorrect, PTL

\* An encryption in which nothing failed seals every file and leaves none plain.
THEOREM EncryptCorrect == Spec => EncryptSeals
<1> DEFINE Sealing == op = "encrypt" /\ op' = "idle" /\ smooth' =>
         \A f \in Names : plain'[f] = NoFile /\ (f \in safe => enc'[f] = Sealed(key, latest[f]))
<1>1. Inv /\ [Next]_vars => [Sealing]_vars
  <2> SUFFICES ASSUME Inv, Next, op = "encrypt", op' = "idle", smooth'
               PROVE  Sealing
    OBVIOUS
  <2>1. Finish
    BY DEF Next, Progress, EncryptOpen, EncryptWrite, EncryptUnlink, DecryptOpen, DecryptWrite,
           DecryptUnlink, Start, AddFile, RemoveFile, ChangePassword, CatalogSave, Crash, Fails
  <2> QED
    BY <2>1 DEF Finish, files, keys, Works, Fails, Inv, EncryptedInv, Ahead, Removing
<1> QED
  BY <1>1, InvCorrect, PTL DEF Spec, EncryptSeals

\* A decryption in which nothing failed opens every x.enc that its key opens, in the
\* place of whatever x there was, and touches nothing without x.enc.
THEOREM DecryptCorrect == Spec => DecryptRestores
<1> DEFINE Restoring == op = "decrypt" /\ op' = "idle" /\ smooth' =>
                          \A f \in Names : plain'[f] = InPlace(f) /\ enc'[f] = LeftOver(f)
<1>1. Inv /\ [Next]_vars => [Restoring]_vars
  <2> SUFFICES ASSUME Inv, Next, op = "decrypt", op' = "idle", smooth'
               PROVE  Restoring
    OBVIOUS
  <2>1. Finish
    BY DEF Next, Progress, EncryptOpen, EncryptWrite, EncryptUnlink, DecryptOpen, DecryptWrite,
           DecryptUnlink, Start, AddFile, RemoveFile, ChangePassword, CatalogSave, Crash, Fails
  <2> QED
    BY <2>1 DEF Finish, files, keys, Works, Fails, Inv, DecryptedInv, Visited, Ahead, Removing, Restored
<1> QED
  BY <1>1, InvCorrect, PTL DEF Spec, DecryptRestores

-----------------------------------------------------------------------------
(* The length of a call *)

\* The steps a call may still take before its last one: three for an entry of the
\* directory that it has yet to reach, less for the one it is at.
AtEntry(st)   == IF st = "write" THEN 2 ELSE IF st = "unlink" THEN 1 ELSE 0
StepsFor(t, st) == 3 * Cardinality(t) + AtEntry(st)
StepsLeft     == StepsFor(todo, stage)

LEMMA EntriesCounted ==
    ASSUME TypeOK
    PROVE  /\ Cardinality(Names) \in Nat /\ Cardinality(todo) \in 0..Cardinality(Names)
           /\ \A f \in todo : Cardinality(todo \ {f}) = Cardinality(todo) - 1
           /\ \A f \in Names \ todo : Cardinality(todo) < Cardinality(Names)
<1>1. IsFiniteSet(Names) /\ todo \subseteq Names
  BY FilesAssumption DEF TypeOK, JobType
<1>2. /\ IsFiniteSet(todo) /\ Cardinality(todo) <= Cardinality(Names)
      /\ Cardinality(Names) = Cardinality(todo) => todo = Names
  BY <1>1, FS_Subset
<1>3. Cardinality(todo) \in Nat /\ Cardinality(Names) \in Nat
  BY <1>1, <1>2, FS_CardinalityType
<1>4. ASSUME NEW f \in todo PROVE Cardinality(todo \ {f}) = Cardinality(todo) - 1
  BY <1>2, FS_RemoveElement
<1> QED
  BY <1>2, <1>3, <1>4

\* The next step of a call leaves out an entry, or takes it, or goes on with it.
LEMMA StepTaken ==
    ASSUME TypeOK, Next, op # "idle", op' = op
    PROVE  \/ \E f \in todo : todo' = todo \ {f} /\ stage = "next" /\ stage' \in {"next", "write"}
           \/ todo' = todo /\ stage = "write" /\ stage' \in {"next", "unlink"}
           \/ todo' = todo /\ stage = "unlink" /\ stage' = "next"
<1>1. ASSUME NEW f \in Names, EncryptOpen(f) \/ DecryptOpen(f)
      PROVE  \E g \in todo : todo' = todo \ {g} /\ stage = "next" /\ stage' \in {"next", "write"}
  BY <1>1 DEF EncryptOpen, DecryptOpen, Begin, Enter, Skip
<1>2. CASE EncryptWrite \/ DecryptWrite
  BY <1>2 DEF EncryptWrite, DecryptWrite, Leave
<1>3. CASE EncryptUnlink \/ DecryptUnlink
  BY <1>3 DEF EncryptUnlink, DecryptUnlink, Leave
<1>4. ~Finish /\ ~Crash
  BY DEF Finish, Crash
<1>5. Progress
  BY <1>4 DEF Next, Start, AddFile, RemoveFile, ChangePassword, CatalogSave
<1> QED
  BY <1>1, <1>2, <1>3, <1>4, <1>5 DEF Progress

\* No call takes more than three steps for a name and one to end, whatever fails and
\* in whatever order readdir has them: every step brings it nearer to its end, and
\* no failure sends it back.  That is all CallsEnd needs beside the fairness.
THEOREM CallsAreShort ==
    Spec => /\ [](StepsLeft \in 0..(3 * Cardinality(Names)))
            /\ [][op # "idle" /\ op' = op => StepsLeft' < StepsLeft]_vars
<1>1. Inv => StepsLeft \in 0..(3 * Cardinality(Names))
  <2> SUFFICES ASSUME Inv PROVE StepsLeft \in 0..(3 * Cardinality(Names))
    OBVIOUS
  <2>1. /\ Cardinality(Names) \in Nat /\ Cardinality(todo) \in 0..Cardinality(Names)
        /\ stage # "next" => Cardinality(todo) < Cardinality(Names)
    BY EntriesCounted DEF Inv, JobInv, TypeOK, JobType
  <2>2. AtEntry(stage) \in 0..2 /\ (stage = "next" => AtEntry(stage) = 0)
    BY DEF AtEntry
  <2> QED
    BY <2>1, <2>2 DEF StepsLeft, StepsFor
<1>2. Inv /\ [Next]_vars => [op # "idle" /\ op' = op => StepsLeft' < StepsLeft]_vars
  <2> SUFFICES ASSUME Inv, Next, op # "idle", op' = op PROVE StepsLeft' < StepsLeft
    OBVIOUS
  <2>1. TypeOK
    BY DEF Inv
  <2>2. Cardinality(todo) \in Nat
    BY <2>1, EntriesCounted
  <2>3. StepsLeft' = 3 * Cardinality(todo') + AtEntry(stage')
    BY DEF StepsLeft, StepsFor
  <2>4. CASE \E f \in todo : todo' = todo \ {f} /\ stage = "next" /\ stage' \in {"next", "write"}
    <3>1. Cardinality(todo') = Cardinality(todo) - 1
      BY <2>1, <2>4, EntriesCounted
    <3>2. AtEntry(stage') \in 0..2 /\ AtEntry(stage) = 0
      BY <2>4 DEF AtEntry
    <3> QED
      BY <2>2, <2>3, <3>1, <3>2 DEF StepsLeft, StepsFor
  <2>5. CASE todo' = todo /\ AtEntry(stage') < AtEntry(stage)
    <3>1. AtEntry(stage') \in 0..2 /\ AtEntry(stage) \in 0..2
      BY DEF AtEntry
    <3> QED
      BY <2>2, <2>3, <2>5, <3>1 DEF StepsLeft, StepsFor
  <2> QED
    BY <2>1, <2>4, <2>5, StepTaken DEF AtEntry
<1> QED
  BY <1>1, <1>2, InvCorrect, PTL DEF Spec
=============================================================================
