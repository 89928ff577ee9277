------------------------- MODULE VaultCatalogProofs -------------------------
(***************************************************************************)
(* Proofs about VaultCatalog, for any number of vaults, names, passwords,  *)
(* attempts and faults.                                                    *)
(***************************************************************************)
EXTENDS VaultCatalog, SequenceTheorems, TLAPS

-----------------------------------------------------------------------------
(* Typing of the helpers *)

LEMMA BlankType == Blank \in Vault
BY DEF Blank, Vault, Types, Statuses, Hashes

\* What a call does to one slot yields a vault with the same identity.
LEMMA SlotType ==
    ASSUME NEW v \in Vault
    PROVE  /\ AuthOk(v) \in Vault
           /\ AuthFail(v) \in Vault
           /\ Raised(v) \in Vault
           /\ Resolved(v) \in Vault
           /\ Unlocked(v) \in Vault
           /\ \A n \in Names : [v EXCEPT !.name = n] \in Vault
           /\ \A h \in Hashes : [v EXCEPT !.hash = h] \in Vault
<1> USE DEF Vault, Types, Statuses
<1>1. AuthOk(v) \in Vault
  BY DEF AuthOk
<1>2. AuthFail(v) \in Vault
  <2> DEFINE st == IF v.failed + 1 >= MaxAttempts THEN "LOCKED" ELSE v.status
  <2>1. st \in Statuses /\ v.failed + 1 \in Nat
    OBVIOUS
  <2>2. [v EXCEPT !.failed = v.failed + 1, !.status = st] \in Vault
    <3> HIDE DEF st
    <3> QED  BY <2>1
  <2> QED
    BY <2>2 DEF AuthFail
<1>3. Raised(v) \in Vault
  BY DEF Raised
<1>4. Resolved(v) \in Vault
  BY DEF Resolved
<1>5. Unlocked(v) \in Vault
  BY DEF Unlocked
<1>6. \A n \in Names : [v EXCEPT !.name = n] \in Vault
  OBVIOUS
<1>7. \A h \in Hashes : [v EXCEPT !.hash = h] \in Vault
  OBVIOUS
<1> QED
  BY <1>1, <1>2, <1>3, <1>4, <1>5, <1>6, <1>7

LEMMA PutType ==
    ASSUME NEW vs \in Seq(Vault), NEW i \in DOMAIN vs, NEW v \in Vault
    PROVE  /\ [vs EXCEPT ![i] = v] \in Seq(Vault)
           /\ DOMAIN [vs EXCEPT ![i] = v] = DOMAIN vs
BY ExceptSeq

LEMMA WithoutType ==
    ASSUME NEW vs \in Seq(Vault), NEW i \in DOMAIN vs
    PROVE  /\ Without(vs, i) \in Seq(Vault)
           /\ DOMAIN Without(vs, i) = 1..(Len(vs) - 1)
<1>1. Len(vs) \in Nat /\ DOMAIN vs = 1..Len(vs) /\ i \in 1..Len(vs)
  OBVIOUS
<1>2. Len(vs) - 1 \in Nat
  BY <1>1
<1>3. \A j \in 1..(Len(vs) - 1) : Without(vs, i)[j] \in Vault
  BY <1>1 DEF Without
<1>4. Without(vs, i) = [j \in 1..(Len(vs) - 1) |-> Without(vs, i)[j]]
  BY DEF Without
<1> QED
  BY <1>2, <1>3, <1>4, IsASeq

\* A save leaves an image.
LEMMA SaveType ==
    ASSUME TypeOK, NEW vs \in Seq(Vault), NEW n \in Nat, CatalogSave(vs, n)
    PROVE  /\ disk' \in DiskImage /\ clean' \in BOOLEAN /\ faults' \in 0..FaultBound
<1>1. CASE disk' = Image(vs, n) /\ clean' = TRUE /\ faults' = faults
  <2>1. Image(vs, n) \in DiskImage
    BY DEF Image, DiskImage
  <2> QED
    BY <1>1, <2>1 DEF TypeOK
<1>2. CASE Fails("save") /\ disk' = disk /\ clean' = FALSE
  <2>1. faults' \in 0..FaultBound
    BY <1>2, CatalogAssumption DEF TypeOK, Fails
  <2>2. disk' \in DiskImage
    BY <1>2 DEF TypeOK
  <2> QED
    BY <1>2, <2>1, <2>2
<1>3. ASSUME Fails("torn"), NEW k \in 0..(Len(vs) - 1), disk' = Torn(vs, n, k), clean' = FALSE
      PROVE  /\ disk' \in DiskImage /\ clean' \in BOOLEAN /\ faults' \in 0..FaultBound
  <2>1. k \in Nat /\ k + 1 \in DOMAIN vs
    OBVIOUS
  <2>2. Torn(vs, n, k) \in DiskImage
    BY <2>1 DEF Torn, DiskImage
  <2>3. faults' \in 0..FaultBound
    BY <1>3, CatalogAssumption DEF TypeOK, Fails
  <2> QED
    BY <1>3, <2>2, <2>3
<1>4. ASSUME Fails("torn"), disk' = Headless(vs, n), clean' = FALSE
      PROVE  /\ disk' \in DiskImage /\ clean' \in BOOLEAN /\ faults' \in 0..FaultBound
  <2>1. Headless(vs, n) \in DiskImage
    BY DEF Headless, DiskImage
  <2>2. faults' \in 0..FaultBound
    BY <1>4, CatalogAssumption DEF TypeOK, Fails
  <2> QED
    BY <1>4, <2>1, <2>2
<1> QED
  BY <1>1, <1>2, <1>3, <1>4 DEF CatalogSave

LEMMA PutStepType ==
    ASSUME TypeOK, NEW i \in DOMAIN vaults, NEW v \in Vault, Put(i, v)
    PROVE  /\ vaults' \in Seq(Vault)
           /\ disk' \in DiskImage /\ clean' \in BOOLEAN /\ faults' \in 0..FaultBound
<1>1. vaults' = [vaults EXCEPT ![i] = v] /\ CatalogSave(vaults', nextId)
  BY DEF Put
<1>2. vaults' \in Seq(Vault)
  BY <1>1, PutType DEF TypeOK
<1> QED
  BY <1>1, <1>2, SaveType DEF TypeOK

\* What a number cut by the end of the file may be.
LEMMA LowBytesType ==
    ASSUME NEW n \in Nat, NEW m \in LowBytes(n)
    PROVE  m \in Nat /\ m <= n
<1>1. /\ n % 256 \in Nat /\ n % 256 <= n
      /\ n % 65536 \in Nat /\ n % 65536 <= n
      /\ n % 16777216 \in Nat /\ n % 16777216 <= n
  OBVIOUS
<1> QED
  BY <1>1 DEF LowBytes

LEMMA CutStringType ==
    /\ \A t \in Names : CutString(t) \subseteq Names \cup {NoName}
    /\ \A t \in Dirs : CutString(t) \subseteq Dirs \cup {NoName}
    /\ CutString(NoName) = {NoName}
<1>1. ASSUME NEW q \in Prefixes
      PROVE  /\ q[2] \in Names => q[1] \in Names
             /\ q[2] \in Dirs => q[1] \in Dirs
             /\ q[2] # NoName
  <2>1. q \in (Names \cup Dirs) \X (Names \cup Dirs)
    BY CatalogAssumption
  <2>2. q[2] \in Names \/ q[2] \in Dirs
    BY <2>1
  <2>3. (q[2] \in Names => q[1] \in Names) /\ (q[2] \in Dirs => q[1] \in Dirs)
    BY CatalogAssumption
  <2>4. q[2] # NoName
    BY <2>2, CatalogAssumption
  <2> QED
    BY <2>3, <2>4
<1>2. ASSUME NEW t, NEW u \in CutString(t), u # NoName, u # t
      PROVE  \E q \in Prefixes : q[2] = t /\ u = q[1]
  BY <1>2 DEF CutString
<1>3. \A t : NoName \in CutString(t)
  BY DEF CutString
<1>4. ASSUME NEW t \in Names, NEW u \in CutString(t), u # NoName PROVE u \in Names
  <2>1. CASE u # t
    <3>1. PICK q \in Prefixes : q[2] = t /\ u = q[1]
      BY <1>2, <1>4, <2>1
    <3>2. q[2] \in Names => q[1] \in Names
      BY <1>1
    <3> QED
      BY <3>1, <3>2
  <2> QED
    BY <2>1
<1>5. ASSUME NEW t \in Dirs, NEW u \in CutString(t), u # NoName PROVE u \in Dirs
  <2>1. CASE u # t
    <3>1. PICK q \in Prefixes : q[2] = t /\ u = q[1]
      BY <1>2, <1>5, <2>1
    <3>2. q[2] \in Dirs => q[1] \in Dirs
      BY <1>1
    <3> QED
      BY <3>1, <3>2
  <2> QED
    BY <2>1
<1>6. ASSUME NEW u \in CutString(NoName) PROVE u = NoName
  BY <1>1, <1>2
<1> QED
  BY <1>3, <1>4, <1>5, <1>6

\* What a record cut by the end of the file may hold: all of the name once it
\* has part of the directory, all of the id once it has part of the name.
LEMMA AtCutType ==
    ASSUME NEW v \in Vault, NEW w \in AtCut(v)
    PROVE  /\ w \in Vault
           /\ w.id <= v.id
           /\ w.name = NoName \/ (w.id = v.id /\ v.name # NoName)
           /\ w.path = NoName \/ (w.name = v.name /\ v.path # NoName)
<1> DEFINE h  == IF v.hash = NoPassword THEN NoPassword ELSE BrokenSalt
           r1 == [Blank EXCEPT !.id = v.id]
           r2 == [r1 EXCEPT !.name = v.name]
           r3 == [r2 EXCEPT !.type = v.type]
           r4 == [r3 EXCEPT !.status = v.status]
           r5 == [r4 EXCEPT !.hash = h]
           r6 == [r5 EXCEPT !.path = v.path]
           r7 == [r6 EXCEPT !.failed = v.failed]
           r8 == [r7 EXCEPT !.alerted = v.alerted]
           Cut(u) == /\ u \in Vault
                     /\ u.id <= v.id
                     /\ u.name = NoName \/ (u.id = v.id /\ v.name # NoName)
                     /\ u.path = NoName \/ (u.name = v.name /\ v.path # NoName)
<1>h. h \in Hashes
  BY DEF Hashes
<1>v. v.id \in Nat /\ v.failed \in Nat /\ v.name \in Names \cup {NoName} /\ v.path \in Dirs \cup {NoName}
  BY DEF Vault
<1>1. w \in {[Blank EXCEPT !.id = i] : i \in LowBytes(v.id)}
           \cup {[r1 EXCEPT !.name = s] : s \in CutString(v.name)}
           \cup {r3, r4, r5}
           \cup {[r5 EXCEPT !.path = s] : s \in CutString(v.path)}
           \cup {[r6 EXCEPT !.failed = f] : f \in LowBytes(v.failed)}
           \cup {r8, v}
  BY DEF AtCut
<1>2. ASSUME NEW i \in LowBytes(v.id) PROVE Cut([Blank EXCEPT !.id = i])
  <2>1. i \in Nat /\ i <= v.id
    BY <1>v, LowBytesType
  <2> QED
    BY <2>1, BlankType DEF Vault, Blank
<1>3. r1 \in Vault /\ r1.id = v.id /\ r1.path = NoName
  BY <1>v, BlankType DEF Vault, Blank
<1> HIDE DEF r1, h
<1>4. ASSUME NEW s \in CutString(v.name) PROVE Cut([r1 EXCEPT !.name = s])
  <2>1. s \in Names \cup {NoName}
    BY <1>v, CutStringType
  <2> QED
    BY <2>1, <1>3, <1>v, CutStringType DEF Vault
<1>5. r2 \in Vault /\ r2.id = v.id /\ r2.name = v.name /\ r2.path = NoName
  BY <1>3, <1>v DEF Vault
<1> HIDE DEF r2
<1>6. r3 \in Vault /\ r3.id = v.id /\ r3.name = v.name /\ r3.path = NoName
  BY <1>5 DEF Vault
<1> HIDE DEF r3
<1>7. r4 \in Vault /\ r4.id = v.id /\ r4.name = v.name /\ r4.path = NoName
  BY <1>6 DEF Vault
<1> HIDE DEF r4
<1>8. r5 \in Vault /\ r5.id = v.id /\ r5.name = v.name /\ r5.path = NoName
  BY <1>h, <1>7 DEF Vault
<1> HIDE DEF r5
<1>9. ASSUME NEW s \in CutString(v.path) PROVE Cut([r5 EXCEPT !.path = s])
  <2>1. s \in Dirs \cup {NoName} /\ (s # NoName => v.path # NoName)
    BY <1>v, CutStringType
  <2> QED
    BY <2>1, <1>8, <1>v DEF Vault
<1>10. r6 \in Vault /\ r6.id = v.id /\ r6.name = v.name /\ r6.path = v.path
  BY <1>8 DEF Vault
<1> HIDE DEF r6
<1>11. ASSUME NEW f \in LowBytes(v.failed) PROVE Cut([r6 EXCEPT !.failed = f])
  <2>1. f \in Nat
    BY <1>v, LowBytesType
  <2> QED
    BY <2>1, <1>10, <1>v DEF Vault
<1>12. r7 \in Vault /\ r7.id = v.id /\ r7.name = v.name /\ r7.path = v.path
  BY <1>10 DEF Vault
<1> HIDE DEF r7
<1>13. r8 \in Vault /\ r8.id = v.id /\ r8.name = v.name /\ r8.path = v.path
  BY <1>12 DEF Vault
<1> HIDE DEF r8
<1>14. Cut(r3) /\ Cut(r4) /\ Cut(r5) /\ Cut(r8) /\ Cut(v)
  BY <1>6, <1>7, <1>8, <1>13, <1>v
<1> QED
  <2> HIDE DEF Cut
  <2>1. Cut(w)
    BY <1>1, <1>2, <1>4, <1>9, <1>11, <1>14
  <2> QED
    BY <2>1 DEF Cut

LEMMA CutType ==
    ASSUME NEW vs \in Seq(Vault), NEW k \in Nat, NEW v \in Vault, NEW w \in AtCut(v)
    PROVE  /\ UpToCut(vs, k, w) \in Seq(Vault)
           /\ DOMAIN UpToCut(vs, k, w) = DOMAIN vs
<1>1. w \in Vault
  BY AtCutType
<1>2. Len(vs) \in Nat /\ DOMAIN vs = 1..Len(vs)
  OBVIOUS
<1>3. \A j \in 1..Len(vs) : UpToCut(vs, k, w)[j] \in Vault
  BY <1>1, <1>2, BlankType DEF UpToCut
<1>4. UpToCut(vs, k, w) = [j \in 1..Len(vs) |-> UpToCut(vs, k, w)[j]]
  BY <1>2 DEF UpToCut
<1> QED
  BY <1>2, <1>3, <1>4, IsASeq

-----------------------------------------------------------------------------
(* Type correctness *)

LEMMA TypeInit == Init => TypeOK
<1>1. <<>> \in Seq(Vault)
  BY EmptySeq
<1>2. NoImage \in DiskImage
  BY <1>1 DEF NoImage, DiskImage
<1>3. 0 \in 0..FaultBound
  BY CatalogAssumption
<1>4. Init => up \in BOOLEAN /\ loaded \in BOOLEAN /\ clean \in BOOLEAN
  BY DEF Init
<1>5. Init => vaults \in Seq(Vault) /\ disk \in DiskImage
  BY <1>1, <1>2 DEF Init
<1>6. Init => nextId \in Nat /\ faults \in 0..FaultBound
  BY <1>3 DEF Init
<1> QED
  BY <1>4, <1>5, <1>6 DEF TypeOK

LEMMA TypeStep == TypeOK /\ [Next]_vars => TypeOK'
<1> SUFFICES ASSUME TypeOK, [Next]_vars PROVE TypeOK'
  OBVIOUS
<1>seq. /\ vaults \in Seq(Vault) /\ disk \in DiskImage /\ disk.vaults \in Seq(Vault)
        /\ nextId \in Nat /\ disk.nextId \in Nat
  BY DEF TypeOK, DiskImage
<1>1. ASSUME NEW n \in Names, NEW t \in Types, NEW d \in Dirs, NEW p \in Passwords,
             Create(n, t, d, p)
      PROVE  TypeOK'
  <2> DEFINE w == NewVault(nextId, n, t, d, IF t = "PROTECTED" THEN p ELSE NoPassword)
  <2>1. w \in Vault
    BY <1>seq DEF NewVault, Vault, Hashes, Statuses
  <2>2. vaults' = Append(vaults, w) /\ nextId' = nextId + 1 /\ CatalogSave(vaults', nextId')
    BY <1>1 DEF Create
  <2>3. vaults' \in Seq(Vault) /\ nextId' \in Nat
    <3> HIDE DEF w
    <3> QED  BY <2>1, <2>2, <1>seq, AppendProperties
  <2> QED
    BY <1>1, <2>2, <2>3, SaveType DEF Create, TypeOK
<1>2. ASSUME NEW n \in Names, CreateRejected(n)
      PROVE  TypeOK'
  BY <1>2 DEF CreateRejected, TypeOK
<1>3. ASSUME NEW i \in 1..MaxVaults, NEW p \in Passwords, Delete(i, p)
      PROVE  TypeOK'
  <2>1. i \in DOMAIN vaults /\ vaults' = Without(vaults, i) /\ CatalogSave(vaults', nextId)
    BY <1>3 DEF Delete, Found
  <2>2. vaults' \in Seq(Vault)
    BY <2>1, <1>seq, WithoutType
  <2> QED
    BY <1>3, <2>1, <2>2, <1>seq, SaveType DEF Delete, TypeOK
<1>4. ASSUME NEW i \in 1..MaxVaults, NEW n \in Names, NEW p \in Passwords, Rename(i, n, p)
      PROVE  TypeOK'
  <2>1. i \in DOMAIN vaults /\ vaults[i] \in Vault
    BY <1>4, <1>seq DEF Rename, Found
  <2>2. [AuthOk(vaults[i]) EXCEPT !.name = n] \in Vault
    BY <2>1, SlotType
  <2> QED
    BY <1>4, <2>1, <2>2, PutStepType DEF Rename, TypeOK
<1>5. ASSUME NEW i \in 1..MaxVaults, NEW p \in Passwords, Unlock(i, p)
      PROVE  TypeOK'
  <2>1. i \in DOMAIN vaults /\ vaults[i] \in Vault
    BY <1>5, <1>seq DEF Unlock, Found
  <2>2. Unlocked(AuthOk(vaults[i])) \in Vault
    BY <2>1, SlotType
  <2> QED
    BY <1>5, <2>1, <2>2, PutStepType DEF Unlock, TypeOK
<1>6. ASSUME NEW i \in 1..MaxVaults, NEW old \in Passwords, NEW new \in Passwords,
             ChangePassword(i, old, new)
      PROVE  TypeOK'
  <2>1. i \in DOMAIN vaults /\ vaults[i] \in Vault /\ new \in Hashes
    BY <1>6, <1>seq DEF ChangePassword, Found, Hashes
  <2>2. [AuthOk(vaults[i]) EXCEPT !.hash = new] \in Vault
    BY <2>1, SlotType
  <2> QED
    BY <1>6, <2>1, <2>2, PutStepType DEF ChangePassword, TypeOK
<1>7. ASSUME NEW i \in 1..MaxVaults, NEW p \in Passwords, ChangePasswordFails(i, p)
      PROVE  TypeOK'
  <2>1. i \in DOMAIN vaults /\ vaults[i] \in Vault /\ BrokenSalt \in Hashes
    BY <1>7, <1>seq DEF ChangePasswordFails, Found, Hashes
  <2>2. [AuthOk(vaults[i]) EXCEPT !.hash = BrokenSalt] \in Vault
    BY <2>1, SlotType
  <2>3. vaults' \in Seq(Vault)
    BY <1>7, <2>1, <2>2, <1>seq, PutType DEF ChangePasswordFails
  <2>4. faults' \in 0..FaultBound
    BY <1>7, CatalogAssumption DEF ChangePasswordFails, Fails, TypeOK
  <2> QED
    BY <1>7, <2>3, <2>4 DEF ChangePasswordFails, TypeOK
<1>8. ASSUME NEW i \in 1..MaxVaults, NEW p \in Passwords, Resolve(i, p)
      PROVE  TypeOK'
  <2>1. i \in DOMAIN vaults /\ vaults[i] \in Vault
    BY <1>8, <1>seq DEF Resolve, Found
  <2>2. Resolved(AuthOk(vaults[i])) \in Vault
    BY <2>1, SlotType
  <2> QED
    BY <1>8, <2>1, <2>2, PutStepType DEF Resolve, TypeOK
<1>9. ASSUME NEW i \in 1..MaxVaults, NEW p \in Passwords, Authenticate(i, p)
      PROVE  TypeOK'
  <2>1. i \in DOMAIN vaults /\ vaults[i] \in Vault
    BY <1>9, <1>seq DEF Authenticate, Found
  <2>2. vaults' \in Seq(Vault)
    BY <1>9, <2>1, <1>seq, SlotType, PutType DEF Authenticate
  <2> QED
    BY <1>9, <2>2 DEF Authenticate, TypeOK
<1>10. ASSUME NEW i \in 1..MaxVaults, WrongPassword(i)
       PROVE  TypeOK'
  <2>1. i \in DOMAIN vaults /\ vaults[i] \in Vault /\ AuthFail(vaults[i]) \in Vault
    BY <1>10, <1>seq, SlotType DEF WrongPassword, Found
  <2>2. CASE Put(i, AuthFail(vaults[i]))
    BY <1>10, <2>1, <2>2, PutStepType DEF WrongPassword, TypeOK
  <2>3. CASE /\ vaults' = [vaults EXCEPT ![i] = AuthFail(vaults[i])]
             /\ UNCHANGED <<disk, clean, faults>>
    <3>1. vaults' \in Seq(Vault)
      BY <2>1, <2>3, <1>seq, PutType
    <3> QED
      BY <1>10, <2>3, <3>1 DEF WrongPassword, TypeOK
  <2> QED
    BY <1>10, <2>2, <2>3 DEF WrongPassword
<1>11. ASSUME NEW i \in 1..MaxVaults, Alert(i)
       PROVE  TypeOK'
  <2>1. i \in DOMAIN vaults /\ vaults[i] \in Vault /\ Raised(vaults[i]) \in Vault
    BY <1>11, <1>seq, SlotType DEF Alert
  <2> QED
    BY <1>11, <2>1, PutStepType DEF Alert, TypeOK
<1>12. ASSUME NEW i \in 1..MaxVaults, Scan(i)
       PROVE  TypeOK'
  <2>1. i \in DOMAIN vaults /\ vaults[i] \in Vault /\ Raised(vaults[i]) \in Vault
    BY <1>12, <1>seq, SlotType DEF Scan, Found
  <2> QED
    BY <1>12, <2>1, PutStepType DEF Scan, TypeOK
<1>13. ASSUME Start PROVE TypeOK'
  <2>1. CASE /\ disk.kind \in {"none", "good"}
             /\ vaults' = disk.vaults /\ nextId' = disk.nextId
             /\ loaded' = TRUE /\ clean' = TRUE /\ faults' = faults
    BY <1>13, <2>1, <1>seq DEF Start, TypeOK
  <2>2. ASSUME disk.kind = "torn",
               NEW w \in AtCut(disk.vaults[disk.cut + 1]),
               vaults' = UpToCut(disk.vaults, disk.cut, w),
               nextId' = disk.nextId, loaded' = FALSE, clean' = FALSE, faults' = faults
        PROVE  TypeOK'
    <3>1. disk.cut \in Nat /\ disk.vaults[disk.cut + 1] \in Vault
      BY <2>2, <1>seq DEF DiskImage
    <3>2. vaults' \in Seq(Vault)
      BY <2>2, <3>1, <1>seq, CutType
    <3> QED
      BY <1>13, <2>2, <3>2, <1>seq DEF Start, TypeOK
  <2>4. ASSUME disk.kind = "headless",
               NEW c \in LowBytes(Len(disk.vaults)), NEW n \in LowBytes(disk.nextId),
               vaults' = [i \in 1..c |-> Blank], nextId' = n,
               loaded' = FALSE, clean' = FALSE, faults' = faults
        PROVE  TypeOK'
    <3>1. c \in Nat /\ n \in Nat
      BY <1>seq, LowBytesType
    <3>2. vaults' \in Seq(Vault)
      BY <2>4, <3>1, BlankType, IsASeq
    <3> QED
      BY <1>13, <2>4, <3>1, <3>2 DEF Start, TypeOK
  <2>3. CASE /\ Fails("load")
             /\ vaults' = <<>> /\ nextId' = 0
             /\ loaded' = FALSE /\ clean' = FALSE
    <3>1. faults' \in 0..FaultBound
      BY <2>3, CatalogAssumption DEF Fails, TypeOK
    <3> QED
      BY <1>13, <2>3, <3>1, EmptySeq DEF Start, TypeOK
  <2> QED
    BY <1>13, <2>1, <2>2, <2>3, <2>4 DEF Start
<1>14. ASSUME Quit PROVE TypeOK'
  <2>1. CatalogSave(vaults, nextId) /\ Gone
    BY <1>14 DEF Quit
  <2> QED
    BY <2>1, <1>seq, SaveType, EmptySeq DEF Gone, TypeOK
<1>15. ASSUME Crash PROVE TypeOK'
  BY <1>15, EmptySeq DEF Crash, Gone, TypeOK
<1>16. CASE UNCHANGED vars
  BY <1>16 DEF vars, TypeOK
<1> QED
  BY <1>1, <1>2, <1>3, <1>4, <1>5, <1>6, <1>7, <1>8, <1>9, <1>10, <1>11, <1>12, <1>13,
     <1>14, <1>15, <1>16 DEF Next

\* Every field keeps to its type in every reachable state.
THEOREM TypeCorrect == Spec => []TypeOK
BY TypeInit, TypeStep, PTL DEF Spec

-----------------------------------------------------------------------------
(* What any step may do *)

\* A saved image is made of the array and counter it was given, or the old one
\* stays; it is cut only if images may be.
LEMMA SaveShape ==
    ASSUME TypeOK, NEW vs \in Seq(Vault), NEW n \in Nat, CatalogSave(vs, n)
    PROVE  /\ \/ disk' = disk
              \/ disk'.vaults = vs /\ disk'.nextId = n
           /\ disk'.kind \in {"torn", "headless"} => disk' = disk \/ "torn" \in Faults
           /\ clean' => disk' = Image(vs, n)
<1>1. CASE disk' = Image(vs, n) /\ clean' = TRUE /\ faults' = faults
  BY <1>1 DEF Image
<1>2. CASE Fails("save") /\ disk' = disk /\ clean' = FALSE
  BY <1>2
<1>3. ASSUME Fails("torn"), NEW k \in 0..(Len(vs) - 1), disk' = Torn(vs, n, k), clean' = FALSE
      PROVE  disk'.vaults = vs /\ disk'.nextId = n /\ "torn" \in Faults /\ ~clean'
  BY <1>3 DEF Torn, Fails
<1>4. CASE Fails("torn") /\ disk' = Headless(vs, n) /\ clean' = FALSE
  BY <1>4 DEF Headless, Fails
<1> QED
  BY <1>1, <1>2, <1>3, <1>4 DEF CatalogSave

\* The credential, lockout and alert invariants, one slot at a time.
SlotOk(v) == /\ v.type = "PROTECTED" <=> v.hash # NoPassword
             /\ v.failed >= MaxAttempts => v.status \in {"LOCKED", "ALERT"}
             /\ v.status = "ALERT" => v.alerted

\* A call turns the vault of slot i into v.
SlotStep(i, v) ==
    /\ v \in Vault
    /\ v.id = vaults[i].id /\ v.type = vaults[i].type /\ v.path = vaults[i].path
    /\ v.name = vaults[i].name \/ (Found(i) /\ NameFree(v.name) /\ v.name \in Names)
    /\ SlotOk(vaults[i]) => SlotOk(v)

\* The seven ways in which a step changes the array and its counter.
Kept     == vaults' = vaults /\ nextId' \in {nextId, nextId + 1}
Added    == \E v \in Vault : /\ v.id = nextId /\ nextId < IdBound /\ NameFree(v.name) /\ SlotOk(v)
                             /\ v.name \in Names /\ v.path \in Dirs
                             /\ vaults' = Append(vaults, v) /\ nextId' = nextId + 1
Removed  == \E i \in DOMAIN vaults : vaults' = Without(vaults, i) /\ nextId' = nextId
Changed  == \E i \in DOMAIN vaults : \E v : /\ SlotStep(i, v)
                                         /\ vaults' = [vaults EXCEPT ![i] = v]
                                         /\ nextId' = nextId
Reloaded == /\ nextId' = disk.nextId
            /\ \/ vaults' = disk.vaults
               \/ /\ disk.kind = "torn"
                  /\ \E w \in AtCut(disk.vaults[disk.cut + 1]) :
                        vaults' = UpToCut(disk.vaults, disk.cut, w)
Zeroed   == /\ disk.kind = "headless"
            /\ \E c, n \in Nat : vaults' = [i \in 1..c |-> Blank] /\ nextId' = n
Emptied  == vaults' = <<>> /\ nextId' = 0

MemoryStep == Kept \/ Added \/ Removed \/ Changed \/ Reloaded \/ Zeroed \/ Emptied

\* The image stays, or is made of what memory is before or after the step.
DiskStep == /\ \/ disk' = disk
               \/ disk'.vaults = vaults' /\ disk'.nextId = nextId'
               \/ disk'.vaults = vaults /\ disk'.nextId = nextId
            /\ disk'.kind \in {"torn", "headless"} => disk' = disk \/ "torn" \in Faults

\* A call of a running process: it does one of the first four to the array, and
\* it may save the outcome.
CallDisk == /\ \/ disk' = disk
               \/ disk'.vaults = vaults' /\ disk'.nextId = nextId'
            /\ disk'.kind \in {"torn", "headless"} => disk' = disk \/ "torn" \in Faults
CallStep == /\ up /\ UNCHANGED <<up, loaded>>
            /\ Kept \/ Added \/ Removed \/ Changed
            /\ CallDisk

\* AuthOk followed by one of the changes the calls make.
LEMMA SlotSteps ==
    ASSUME TypeOK, NEW i \in DOMAIN vaults
    PROVE  LET v == vaults[i] IN
           /\ SlotStep(i, AuthOk(v))
           /\ SlotStep(i, AuthFail(v))
           /\ SlotStep(i, Raised(v))
           /\ SlotStep(i, Resolved(AuthOk(v)))
           /\ SlotStep(i, Unlocked(AuthOk(v)))
           /\ \A n \in Names : Found(i) /\ NameFree(n) =>
                 SlotStep(i, [AuthOk(v) EXCEPT !.name = n])
           /\ v.hash \in Passwords => \A h \in Passwords \cup {BrokenSalt} :
                 SlotStep(i, [AuthOk(v) EXCEPT !.hash = h])
<1> DEFINE v == vaults[i]
<1>v. v \in Vault /\ AuthOk(v) \in Vault
  BY SlotType DEF TypeOK
<1>f. /\ v.failed \in Nat /\ v.id \in Nat
      /\ MaxAttempts \in Nat /\ MaxAttempts > 0 /\ ~(0 >= MaxAttempts)
  BY <1>v, CatalogAssumption DEF Vault
<1>1. SlotStep(i, AuthOk(v))
  <2>1. AuthOk(v) = [v EXCEPT !.failed = 0]
    BY DEF AuthOk
  <2> QED
    BY <1>v, <1>f, <2>1 DEF SlotStep, SlotOk, Vault
<1>2. SlotStep(i, AuthFail(v))
  <2> DEFINE st == IF v.failed + 1 >= MaxAttempts THEN "LOCKED" ELSE v.status
             u  == [v EXCEPT !.failed = v.failed + 1, !.status = st]
  <2>1. AuthFail(v) = u /\ AuthFail(v) \in Vault
    BY <1>v, SlotType DEF AuthFail
  <2>2. /\ v.failed + 1 >= MaxAttempts => st = "LOCKED"
        /\ st = "ALERT" => v.status = "ALERT"
    OBVIOUS
  <2>3. /\ u.id = v.id /\ u.name = v.name /\ u.type = v.type /\ u.path = v.path
        /\ u.hash = v.hash /\ u.alerted = v.alerted
        /\ u.failed = v.failed + 1 /\ u.status = st
    <3> HIDE DEF st
    <3> QED  BY <1>v DEF Vault
  <2> QED
    <3> HIDE DEF u, st
    <3> QED  BY <2>1, <2>2, <2>3 DEF SlotStep, SlotOk
<1>3. SlotStep(i, Raised(v))
  BY <1>v, <1>f, SlotType DEF SlotStep, SlotOk, Vault, Raised
<1>4. SlotStep(i, Resolved(AuthOk(v)))
  BY <1>v, <1>f, SlotType DEF SlotStep, SlotOk, Vault, Resolved, AuthOk
<1>5. SlotStep(i, Unlocked(AuthOk(v)))
  BY <1>v, <1>f, SlotType DEF SlotStep, SlotOk, Vault, Unlocked, AuthOk
<1>6. ASSUME NEW n \in Names, Found(i), NameFree(n)
      PROVE  SlotStep(i, [AuthOk(v) EXCEPT !.name = n])
  BY <1>v, <1>f, <1>6, SlotType DEF SlotStep, SlotOk, Vault, AuthOk
<1>7. ASSUME v.hash \in Passwords, NEW h \in Passwords \cup {BrokenSalt}
      PROVE  SlotStep(i, [AuthOk(v) EXCEPT !.hash = h])
  <2>1. h # NoPassword /\ v.hash # NoPassword /\ h \in Hashes
    BY <1>7, CatalogAssumption DEF Hashes
  <2>2. [AuthOk(v) EXCEPT !.hash = h] \in Vault
    BY <1>v, <2>1, SlotType
  <2> QED
    BY <1>v, <1>f, <2>1, <2>2 DEF SlotStep, SlotOk, Vault, AuthOk
<1> QED
  BY <1>1, <1>2, <1>3, <1>4, <1>5, <1>6, <1>7

LEMMA PutShape ==
    ASSUME TypeOK, NEW i \in DOMAIN vaults, NEW v, SlotStep(i, v), Put(i, v), nextId' = nextId
    PROVE  Changed /\ CallDisk
<1>1. vaults' = [vaults EXCEPT ![i] = v] /\ CatalogSave(vaults', nextId) /\ v \in Vault
  BY DEF Put, SlotStep
<1>2. vaults' \in Seq(Vault) /\ nextId \in Nat
  BY <1>1, PutType DEF TypeOK
<1>3. Changed
  BY <1>1 DEF Changed
<1>4. CallDisk
  BY <1>1, <1>2, SaveShape DEF CallDisk
<1> QED
  BY <1>3, <1>4

LEMMA EditShape ==
    ASSUME TypeOK, NEW i \in DOMAIN vaults, NEW v, SlotStep(i, v),
           vaults' = [vaults EXCEPT ![i] = v], UNCHANGED <<nextId, disk>>
    PROVE  Changed /\ CallDisk
BY DEF Changed, CallDisk

LEMMA CallShape ==
    ASSUME TypeOK, Next
    PROVE  CallStep \/ Start \/ Quit \/ Crash
<1>seq. /\ vaults \in Seq(Vault) /\ nextId \in Nat
  BY DEF TypeOK
<1>next. TypeOK'
  BY TypeStep
<1>1. ASSUME NEW n \in Names, NEW t \in Types, NEW d \in Dirs, NEW p \in Passwords,
             Create(n, t, d, p)
      PROVE  CallStep
  <2> DEFINE h == IF t = "PROTECTED" THEN p ELSE NoPassword
             w == NewVault(nextId, n, t, d, h)
  <2>1. h \in Hashes /\ (t = "PROTECTED" <=> h # NoPassword)
    BY CatalogAssumption DEF Hashes
  <2>2. w \in Vault /\ w.id = nextId /\ w.name = n /\ w.path = d /\ SlotOk(w)
    <3> HIDE DEF h
    <3> QED  BY <1>seq, <2>1, CatalogAssumption DEF NewVault, Vault, Statuses, SlotOk
  <2>3. /\ vaults' = Append(vaults, w) /\ nextId' = nextId + 1 /\ NameFree(n)
        /\ nextId < IdBound /\ CatalogSave(vaults', nextId')
    BY <1>1 DEF Create
  <2>4. Added
    <3> HIDE DEF w
    <3> QED  BY <2>2, <2>3 DEF Added
  <2>5. CallDisk
    BY <1>next, <2>3, SaveShape DEF CallDisk, TypeOK
  <2> QED
    BY <1>1, <2>4, <2>5 DEF CallStep, Create
<1>2. ASSUME NEW n \in Names, CreateRejected(n)
      PROVE  CallStep
  BY <1>2 DEF CreateRejected, CallStep, Kept, CallDisk
<1>3. ASSUME NEW i \in 1..MaxVaults, NEW p \in Passwords, Delete(i, p)
      PROVE  CallStep
  <2>1. /\ i \in DOMAIN vaults /\ vaults' = Without(vaults, i) /\ nextId' = nextId
        /\ CatalogSave(vaults', nextId)
    BY <1>3 DEF Delete, Found
  <2>2. CallDisk
    BY <1>next, <1>seq, <2>1, SaveShape DEF CallDisk, TypeOK
  <2> QED
    BY <1>3, <2>1, <2>2 DEF CallStep, Removed, Delete
<1>4. ASSUME NEW i \in 1..MaxVaults, NEW n \in Names, NEW p \in Passwords, Rename(i, n, p)
      PROVE  CallStep
  <2>1. i \in DOMAIN vaults /\ Found(i) /\ NameFree(n)
    BY <1>4 DEF Rename, Found
  <2>2. SlotStep(i, [AuthOk(vaults[i]) EXCEPT !.name = n])
    BY <2>1, SlotSteps
  <2> QED
    BY <1>4, <2>1, <2>2, PutShape DEF CallStep, Rename
<1>5. ASSUME NEW i \in 1..MaxVaults, NEW p \in Passwords, Unlock(i, p)
      PROVE  CallStep
  BY <1>5, SlotSteps, PutShape DEF CallStep, Unlock, Found
<1>6. ASSUME NEW i \in 1..MaxVaults, NEW old \in Passwords, NEW new \in Passwords,
             ChangePassword(i, old, new)
      PROVE  CallStep
  <2>1. i \in DOMAIN vaults /\ vaults[i].hash \in Passwords
    BY <1>6 DEF ChangePassword, Found
  <2>2. SlotStep(i, [AuthOk(vaults[i]) EXCEPT !.hash = new])
    BY <2>1, SlotSteps
  <2> QED
    BY <1>6, <2>1, <2>2, PutShape DEF CallStep, ChangePassword
<1>7. ASSUME NEW i \in 1..MaxVaults, NEW p \in Passwords, ChangePasswordFails(i, p)
      PROVE  CallStep
  <2>1. i \in DOMAIN vaults /\ vaults[i].hash \in Passwords
    BY <1>7 DEF ChangePasswordFails, Found
  <2>2. SlotStep(i, [AuthOk(vaults[i]) EXCEPT !.hash = BrokenSalt])
    BY <2>1, SlotSteps
  <2> QED
    BY <1>7, <2>1, <2>2, EditShape DEF CallStep, ChangePasswordFails
<1>8. ASSUME NEW i \in 1..MaxVaults, NEW p \in Passwords, Resolve(i, p)
      PROVE  CallStep
  BY <1>8, SlotSteps, PutShape DEF CallStep, Resolve, Found
<1>9. ASSUME NEW i \in 1..MaxVaults, NEW p \in Passwords, Authenticate(i, p)
      PROVE  CallStep
  BY <1>9, SlotSteps, EditShape DEF CallStep, Authenticate, Found
<1>10. ASSUME NEW i \in 1..MaxVaults, WrongPassword(i)
       PROVE  CallStep
  <2>1. i \in DOMAIN vaults /\ SlotStep(i, AuthFail(vaults[i])) /\ nextId' = nextId
    BY <1>10, SlotSteps DEF WrongPassword, Found
  <2>2. CASE Put(i, AuthFail(vaults[i]))
    BY <1>10, <2>1, <2>2, PutShape DEF CallStep, WrongPassword
  <2>3. CASE /\ vaults' = [vaults EXCEPT ![i] = AuthFail(vaults[i])]
             /\ UNCHANGED <<disk, clean, faults>>
    BY <1>10, <2>1, <2>3, EditShape DEF CallStep, WrongPassword
  <2> QED
    BY <1>10, <2>2, <2>3 DEF WrongPassword
<1>11. ASSUME NEW i \in 1..MaxVaults, Alert(i)
       PROVE  CallStep
  BY <1>11, SlotSteps, PutShape DEF CallStep, Alert
<1>12. ASSUME NEW i \in 1..MaxVaults, Scan(i)
       PROVE  CallStep
  <2>1. i \in DOMAIN vaults /\ nextId' = nextId
    BY <1>12 DEF Scan, Found
  <2>2. SlotStep(i, vaults[i]) /\ SlotStep(i, Raised(vaults[i]))
    BY <2>1, SlotSteps DEF TypeOK, SlotStep
  <2> QED
    BY <1>12, <2>1, <2>2, PutShape DEF CallStep, Scan
<1> QED
  BY <1>1, <1>2, <1>3, <1>4, <1>5, <1>6, <1>7, <1>8, <1>9, <1>10, <1>11, <1>12 DEF Next

LEMMA StepShape ==
    ASSUME TypeOK, [Next]_vars
    PROVE  MemoryStep /\ DiskStep
<1>seq. /\ vaults \in Seq(Vault) /\ nextId \in Nat
        /\ Len(disk.vaults) \in Nat /\ disk.nextId \in Nat
  BY DEF TypeOK, DiskImage
<1>1. ASSUME Start PROVE MemoryStep /\ DiskStep
  <2>1. ASSUME disk.kind = "headless",
               NEW c \in LowBytes(Len(disk.vaults)), NEW n \in LowBytes(disk.nextId),
               vaults' = [i \in 1..c |-> Blank], nextId' = n
        PROVE  Zeroed
    <3>1. c \in Nat /\ n \in Nat
      BY <1>seq, LowBytesType
    <3> QED
      BY <2>1, <3>1 DEF Zeroed
  <2>2. Reloaded \/ Zeroed \/ Emptied
    BY <1>1, <2>1 DEF Start, Reloaded, Emptied
  <2> QED
    BY <1>1, <2>2 DEF Start, MemoryStep, DiskStep
<1>2. ASSUME Quit PROVE MemoryStep /\ DiskStep
  <2>1. CatalogSave(vaults, nextId) /\ Gone
    BY <1>2 DEF Quit
  <2>2. Emptied
    BY <2>1 DEF Gone, Emptied
  <2>3. DiskStep
    BY <1>seq, <2>1, SaveShape DEF DiskStep
  <2> QED
    BY <2>2, <2>3 DEF MemoryStep
<1>3. ASSUME Crash PROVE MemoryStep /\ DiskStep
  BY <1>3 DEF Crash, Gone, Emptied, MemoryStep, DiskStep
<1>4. CASE UNCHANGED vars
  BY <1>4 DEF vars, MemoryStep, Kept, DiskStep
<1>5. CASE CallStep
  BY <1>5 DEF CallStep, CallDisk, MemoryStep, DiskStep
<1> QED
  BY <1>1, <1>2, <1>3, <1>4, <1>5, CallShape

-----------------------------------------------------------------------------
(* Identifiers and names *)

\* Where the slots of the shorter array come from: the order is kept.
LEMMA WithoutSlots ==
    ASSUME NEW vs \in Seq(Vault), NEW i \in DOMAIN vs,
           NEW a \in DOMAIN Without(vs, i), NEW b \in 1..(a - 1)
    PROVE  \E c \in DOMAIN vs : \E d \in 1..(c - 1) :
              /\ d \in DOMAIN vs /\ b \in DOMAIN Without(vs, i)
              /\ Without(vs, i)[a] = vs[c] /\ Without(vs, i)[b] = vs[d]
<1>1. Len(vs) \in Nat /\ DOMAIN vs = 1..Len(vs) /\ DOMAIN Without(vs, i) = 1..(Len(vs) - 1)
  BY WithoutType
<1> DEFINE c == IF a < i THEN a ELSE a + 1
           d == IF b < i THEN b ELSE b + 1
<1>2. c \in DOMAIN vs /\ d \in 1..(c - 1) /\ d \in DOMAIN vs /\ b \in DOMAIN Without(vs, i)
  BY <1>1
<1>3. Without(vs, i)[a] = vs[c] /\ Without(vs, i)[b] = vs[d]
  BY <1>1, <1>2 DEF Without
<1> QED
  BY <1>2, <1>3

LEMMA WithoutSlot ==
    ASSUME NEW vs \in Seq(Vault), NEW i \in DOMAIN vs, NEW a \in DOMAIN Without(vs, i)
    PROVE  \E c \in DOMAIN vs : Without(vs, i)[a] = vs[c]
<1>1. Len(vs) \in Nat /\ DOMAIN vs = 1..Len(vs) /\ DOMAIN Without(vs, i) = 1..(Len(vs) - 1)
  BY WithoutType
<1>2. a \in DOMAIN vs /\ a + 1 \in DOMAIN vs
  BY <1>1
<1> QED
  BY <1>1, <1>2 DEF Without

\* A slot of an array read back from a cut image is the slot that was saved, or
\* it lies behind the cut and is blank, or it is the one at the cut.
LEMMA CutSlot ==
    ASSUME NEW vs \in Seq(Vault), NEW k \in Nat, k + 1 \in DOMAIN vs,
           NEW w \in AtCut(vs[k + 1]), NEW j \in DOMAIN vs
    PROVE  LET u == UpToCut(vs, k, w)[j] IN
           /\ j <= k => u = vs[j]
           /\ j > k + 1 => u = Blank
           /\ u = Blank \/ u.id <= vs[j].id
           /\ u.name = NoName \/ (u.id = vs[j].id /\ vs[j].name # NoName)
           /\ u.path = NoName \/ (u.name = vs[j].name /\ vs[j].path # NoName)
<1>1. vs[k + 1] \in Vault /\ vs[j] \in Vault
  OBVIOUS
<1>2. /\ w.id <= vs[k + 1].id
      /\ w.name = NoName \/ (w.id = vs[k + 1].id /\ vs[k + 1].name # NoName)
      /\ w.path = NoName \/ (w.name = vs[k + 1].name /\ vs[k + 1].path # NoName)
  BY <1>1, AtCutType
<1>3. j \in Nat /\ vs[j].id <= vs[j].id
  BY <1>1 DEF Vault
<1>4. CASE j <= k
  BY <1>3, <1>4 DEF UpToCut
<1>5. CASE j = k + 1
  BY <1>2, <1>3, <1>5 DEF UpToCut
<1>6. CASE j > k + 1
  BY <1>3, <1>6 DEF UpToCut, Blank
<1> QED
  BY <1>3, <1>4, <1>5, <1>6

LEMMA IdsStep ==
    ASSUME TypeOK, UniqueIds, MemoryStep
    PROVE  IdsReach(vaults', nextId')
<1>seq. /\ vaults \in Seq(Vault) /\ nextId \in Nat
        /\ disk.vaults \in Seq(Vault) /\ disk.nextId \in Nat
        /\ IdsReach(vaults, nextId) /\ IdsReach(disk.vaults, disk.nextId)
  BY DEF TypeOK, DiskImage, UniqueIds
<1>len. Len(vaults) \in Nat /\ DOMAIN vaults = 1..Len(vaults)
  BY <1>seq
<1>ids. \A i \in DOMAIN vaults : /\ vaults[i].id \in Nat
                                 /\ vaults[i].id < nextId \/ Hollow(vaults[i])
  <2>1. \A i \in DOMAIN vaults : vaults[i] \in Vault
    BY <1>seq
  <2> QED
    BY <2>1, <1>seq DEF IdsReach, Vault
<1>1. CASE Kept
  BY <1>1, <1>seq, <1>ids DEF Kept, IdsReach, Named
<1>2. ASSUME NEW v \in Vault, v.id = nextId, NameFree(v.name),
             vaults' = Append(vaults, v), nextId' = nextId + 1
      PROVE  IdsReach(vaults', nextId')
  <2>1. /\ DOMAIN vaults' = 1..(Len(vaults) + 1)
        /\ \A i \in DOMAIN vaults : vaults'[i] = vaults[i]
        /\ vaults'[Len(vaults) + 1] = v
    BY <1>2, <1>seq, <1>len
  <2>2. ASSUME NEW i \in Named(vaults'), NEW j \in 1..(i - 1), vaults'[j].id = vaults'[i].id
        PROVE  Hollow(vaults'[j])
    <3>1. i \in DOMAIN vaults' /\ j \in DOMAIN vaults
      BY <2>1, <2>2, <1>len DEF Named
    <3>2. CASE i = Len(vaults) + 1
      BY <3>1, <3>2, <2>1, <2>2, <1>2, <1>ids, <1>seq
    <3>3. CASE i \in DOMAIN vaults
      BY <3>3, <3>1, <2>1, <2>2, <1>seq DEF IdsReach, Named
    <3> QED
      BY <3>1, <3>2, <3>3, <2>1, <1>len
  <2>3. \A i \in DOMAIN vaults' : vaults'[i].id < nextId' \/ Hollow(vaults'[i])
    BY <2>1, <1>2, <1>ids, <1>seq, <1>len
  <2> QED
    BY <2>2, <2>3 DEF IdsReach
<1>3. ASSUME NEW k \in DOMAIN vaults, vaults' = Without(vaults, k), nextId' = nextId
      PROVE  IdsReach(vaults', nextId')
  <2>1. ASSUME NEW i \in Named(vaults'), NEW j \in 1..(i - 1), vaults'[j].id = vaults'[i].id
        PROVE  Hollow(vaults'[j])
    <3>1. PICK c \in DOMAIN vaults : \E d \in 1..(c - 1) :
             vaults'[i] = vaults[c] /\ vaults'[j] = vaults[d]
      BY <1>3, <2>1, <1>seq, WithoutSlots DEF Named
    <3>2. c \in Named(vaults)
      BY <2>1, <3>1 DEF Named
    <3> QED
      BY <2>1, <3>1, <3>2, <1>seq DEF IdsReach
  <2>2. \A i \in DOMAIN vaults' : vaults'[i].id < nextId' \/ Hollow(vaults'[i])
    BY <1>3, <1>seq, <1>ids, WithoutSlot
  <2> QED
    BY <2>1, <2>2 DEF IdsReach
<1>4. ASSUME NEW k \in DOMAIN vaults, NEW v, SlotStep(k, v),
             vaults' = [vaults EXCEPT ![k] = v], nextId' = nextId
      PROVE  IdsReach(vaults', nextId')
  <2>1. /\ DOMAIN vaults' = DOMAIN vaults
        /\ vaults'[k] = v /\ v.id = vaults[k].id /\ v.path = vaults[k].path
        /\ \A i \in DOMAIN vaults \ {k} : vaults'[i] = vaults[i]
    BY <1>4, <1>seq DEF SlotStep
  <2>2. \A i \in DOMAIN vaults : /\ vaults'[i].id = vaults[i].id
                                 /\ Hollow(vaults[i]) => Hollow(vaults'[i])
    BY <2>1 DEF Hollow
  <2>3. \A i \in Named(vaults') : i \in Named(vaults) \/ Found(i)
    BY <2>1, <1>4 DEF Named, SlotStep
  <2>4. \A i \in Named(vaults') : \A j \in 1..(i - 1) :
           vaults'[j].id = vaults'[i].id => Hollow(vaults'[j])
    <3> SUFFICES ASSUME NEW i \in Named(vaults'), NEW j \in 1..(i - 1),
                        vaults'[j].id = vaults'[i].id
                 PROVE  Hollow(vaults'[j])
      OBVIOUS
    <3>1. i \in DOMAIN vaults /\ j \in DOMAIN vaults /\ vaults[j].id = vaults[i].id
      BY <2>1, <2>2, <1>len DEF Named
    <3>2. ~Found(i)
      BY <3>1 DEF Found
    <3>3. i \in Named(vaults)
      BY <2>3, <3>2
    <3> QED
      BY <3>1, <3>3, <2>2, <1>seq DEF IdsReach
  <2> QED
    BY <2>1, <2>2, <2>4, <1>4, <1>ids DEF IdsReach
<1>5. CASE Reloaded
  <2>1. CASE vaults' = disk.vaults
    BY <1>5, <2>1, <1>seq DEF Reloaded
  <2>2. ASSUME disk.kind = "torn",
               NEW w \in AtCut(disk.vaults[disk.cut + 1]),
               vaults' = UpToCut(disk.vaults, disk.cut, w)
        PROVE  IdsReach(vaults', nextId')
    <3>1. disk.cut \in Nat /\ disk.cut + 1 \in DOMAIN disk.vaults
      BY <2>2 DEF TypeOK, DiskImage
    <3>2. DOMAIN vaults' = DOMAIN disk.vaults /\ vaults' \in Seq(Vault)
      BY <2>2, <3>1, <1>seq, CutType
    <3>3. \A j \in DOMAIN disk.vaults :
             /\ j <= disk.cut => vaults'[j] = disk.vaults[j]
             /\ j > disk.cut + 1 => vaults'[j] = Blank
             /\ vaults'[j] = Blank \/ vaults'[j].id <= disk.vaults[j].id
             /\ vaults'[j].name = NoName \/ vaults'[j].id = disk.vaults[j].id
             /\ vaults'[j].path # NoName => vaults'[j].name = disk.vaults[j].name
      BY <2>2, <3>1, <1>seq, CutSlot
    <3>4. \A j \in DOMAIN disk.vaults :
             /\ disk.vaults[j].id \in Nat /\ vaults'[j].id \in Nat
             /\ disk.vaults[j].id < disk.nextId \/ Hollow(disk.vaults[j])
      <4>1. \A j \in DOMAIN disk.vaults : disk.vaults[j] \in Vault /\ vaults'[j] \in Vault
        BY <1>seq, <3>2
      <4> QED
        BY <4>1, <1>seq DEF IdsReach, Vault
    <3>5. \A j \in DOMAIN vaults' : vaults'[j].id < nextId' \/ Hollow(vaults'[j])
      <4> SUFFICES ASSUME NEW j \in DOMAIN disk.vaults
                   PROVE  vaults'[j].id < nextId' \/ Hollow(vaults'[j])
        BY <3>2
      <4>1. CASE vaults'[j] = Blank
        BY <4>1 DEF Hollow, Blank
      <4>2. CASE vaults'[j].id <= disk.vaults[j].id /\ disk.vaults[j].id < disk.nextId
        BY <4>2, <3>4, <1>5, <1>seq DEF Reloaded
      <4>3. CASE vaults'[j].id <= disk.vaults[j].id /\ Hollow(disk.vaults[j])
        <5>1. vaults'[j].id = 0
          BY <4>3, <3>4 DEF Hollow
        <5>2. vaults'[j].path = NoName
          <6>1. vaults'[j].path # NoName => disk.vaults[j].path # NoName
            BY <2>2, <3>1, <1>seq, CutSlot
          <6> QED
            BY <4>3, <6>1 DEF Hollow
        <5> QED
          BY <5>1, <5>2 DEF Hollow
      <4> QED
        BY <3>3, <3>4, <4>1, <4>2, <4>3
    <3>6. \A i \in DOMAIN vaults' : vaults'[i].name # NoName =>
             \A j \in 1..(i - 1) : vaults'[j].id = vaults'[i].id => Hollow(vaults'[j])
      <4> SUFFICES ASSUME NEW i \in DOMAIN disk.vaults, vaults'[i].name # NoName,
                          NEW j \in 1..(i - 1), vaults'[j].id = vaults'[i].id
                   PROVE  Hollow(vaults'[j])
        BY <3>2
      <4>1. i \in Nat /\ j \in DOMAIN disk.vaults /\ vaults'[i] # Blank
        BY <1>seq DEF Blank
      <4>2. j <= disk.cut
        BY <3>1, <3>3, <4>1
      <4>3. vaults'[j] = disk.vaults[j] /\ vaults'[i].id = disk.vaults[i].id
        BY <3>3, <4>1, <4>2
      <4>4. disk.vaults[i].name # NoName
        BY <2>2, <3>1, <1>seq, CutSlot
      <4> QED
        BY <4>3, <4>4, <1>seq DEF IdsReach, Named
    <3> QED
      BY <3>5, <3>6 DEF IdsReach, Named
  <2> QED
    BY <1>5, <2>1, <2>2 DEF Reloaded
<1>6. CASE Zeroed
  BY <1>6 DEF Zeroed, IdsReach, Named, Hollow, Blank
<1>7. CASE Emptied
  BY <1>7 DEF Emptied, IdsReach, Named
<1> QED
  BY <1>1, <1>2, <1>3, <1>4, <1>5, <1>6, <1>7 DEF MemoryStep, Added, Removed, Changed

LEMMA NamesStep ==
    ASSUME TypeOK, UniqueNames, MemoryStep
    PROVE  NamesReach(vaults')
<1>seq. /\ vaults \in Seq(Vault) /\ disk.vaults \in Seq(Vault)
        /\ NamesReach(vaults) /\ NamesReach(disk.vaults)
  BY DEF TypeOK, DiskImage, UniqueNames
<1>len. Len(vaults) \in Nat /\ DOMAIN vaults = 1..Len(vaults)
  BY <1>seq
<1>1. CASE Kept
  BY <1>1, <1>seq DEF Kept
<1>2. ASSUME NEW v \in Vault, NameFree(v.name), vaults' = Append(vaults, v)
      PROVE  NamesReach(vaults')
  <2>1. /\ DOMAIN vaults' = 1..(Len(vaults) + 1)
        /\ \A i \in DOMAIN vaults : vaults'[i] = vaults[i]
        /\ vaults'[Len(vaults) + 1] = v
    BY <1>2, <1>seq, <1>len
  <2>2. \A i \in DOMAIN vaults : vaults'[i].name # v.name
    BY <2>1, <1>2 DEF NameFree
  <2>3. \A i \in DOMAIN vaults' : /\ i \in DOMAIN vaults \/ i = Len(vaults) + 1
                                  /\ \A j \in 1..(i - 1) : j \in DOMAIN vaults
    BY <2>1, <1>len
  <2> QED
    BY <2>1, <2>2, <2>3, <1>seq DEF NamesReach
<1>3. ASSUME NEW k \in DOMAIN vaults, vaults' = Without(vaults, k)
      PROVE  NamesReach(vaults')
  <2> SUFFICES ASSUME NEW i \in DOMAIN vaults', vaults'[i].path # NoName, NEW j \in 1..(i - 1)
               PROVE  vaults'[j].name # vaults'[i].name
    BY DEF NamesReach
  <2>1. PICK c \in DOMAIN vaults : \E d \in 1..(c - 1) :
           vaults'[i] = vaults[c] /\ vaults'[j] = vaults[d]
    BY <1>3, <1>seq, WithoutSlots
  <2> QED
    BY <2>1, <1>seq DEF NamesReach
<1>4. ASSUME NEW k \in DOMAIN vaults, NEW v, SlotStep(k, v), vaults' = [vaults EXCEPT ![k] = v]
      PROVE  NamesReach(vaults')
  <2>1. /\ DOMAIN vaults' = DOMAIN vaults /\ vaults'[k] = v /\ v.path = vaults[k].path
        /\ \A i \in DOMAIN vaults \ {k} : vaults'[i] = vaults[i]
    BY <1>4, <1>seq DEF SlotStep
  <2>2. \A i \in DOMAIN vaults : \A j \in 1..(i - 1) : j \in DOMAIN vaults /\ i # j
    BY <1>len
  <2> SUFFICES ASSUME NEW i \in DOMAIN vaults, vaults'[i].path # NoName, NEW j \in 1..(i - 1)
               PROVE  vaults'[j].name # vaults'[i].name
    BY <2>1 DEF NamesReach
  <2>5. j \in DOMAIN vaults /\ i # j
    BY <2>2
  <2>6. vaults[i].path # NoName
    BY <2>1
  <2>7. vaults[j].name # vaults[i].name
    BY <2>6, <1>seq DEF NamesReach
  <2>3. CASE v.name = vaults[k].name
    <3>1. \A l \in DOMAIN vaults : vaults'[l].name = vaults[l].name
      BY <2>1, <2>3
    <3> QED
      BY <3>1, <2>5, <2>7
  <2>4. CASE NameFree(v.name)
    <3>1. \A l \in DOMAIN vaults : vaults[l].name # v.name
      BY <2>4 DEF NameFree
    <3> QED
      BY <3>1, <2>1, <2>5, <2>7
  <2> QED
    BY <1>4, <2>3, <2>4 DEF SlotStep
<1>5. CASE Reloaded
  <2>1. CASE vaults' = disk.vaults
    BY <2>1, <1>seq
  <2>2. ASSUME disk.kind = "torn",
               NEW w \in AtCut(disk.vaults[disk.cut + 1]),
               vaults' = UpToCut(disk.vaults, disk.cut, w)
        PROVE  NamesReach(vaults')
    <3>1. disk.cut \in Nat /\ disk.cut + 1 \in DOMAIN disk.vaults
      BY <2>2 DEF TypeOK, DiskImage
    <3>2. DOMAIN vaults' = DOMAIN disk.vaults
      BY <2>2 DEF UpToCut
    <3> SUFFICES ASSUME NEW i \in DOMAIN disk.vaults, vaults'[i].path # NoName, NEW j \in 1..(i - 1)
                 PROVE  vaults'[j].name # vaults'[i].name
      BY <3>2 DEF NamesReach
    <3>3. j \in DOMAIN disk.vaults /\ i \in Nat /\ vaults'[i] # Blank
      BY <1>seq DEF Blank
    <3>4. /\ i > disk.cut + 1 => vaults'[i] = Blank
          /\ vaults'[i].name = disk.vaults[i].name /\ disk.vaults[i].path # NoName
      BY <2>2, <3>1, <1>seq, CutSlot
    <3>5. vaults'[j] = disk.vaults[j]
      <4>1. j <= disk.cut
        BY <3>1, <3>3, <3>4
      <4> QED
        BY <2>2, <3>1, <3>3, <4>1, <1>seq, CutSlot
    <3> QED
      BY <3>4, <3>5, <1>seq DEF NamesReach
  <2> QED
    BY <1>5, <2>1, <2>2 DEF Reloaded
<1>6. CASE Zeroed
  BY <1>6 DEF Zeroed, NamesReach, Blank
<1>7. CASE Emptied
  BY <1>7 DEF Emptied, NamesReach
<1> QED
  BY <1>1, <1>2, <1>3, <1>4, <1>5, <1>6, <1>7 DEF MemoryStep, Added, Removed, Changed

\* vault_find_by_id finds every vault, in memory and in the saved image.
THEOREM IdsCorrect == Spec => []UniqueIds
<1>1. Init => UniqueIds
  BY DEF Init, UniqueIds, IdsReach, Named, NoImage
<1>2. TypeOK /\ UniqueIds /\ [Next]_vars => UniqueIds'
  <2> SUFFICES ASSUME TypeOK, UniqueIds, [Next]_vars PROVE UniqueIds'
    OBVIOUS
  <2>1. MemoryStep /\ DiskStep
    BY StepShape
  <2>2. IdsReach(vaults', nextId')
    BY <2>1, IdsStep
  <2>3. IdsReach(disk'.vaults, disk'.nextId)
    BY <2>1, <2>2 DEF UniqueIds, DiskStep, IdsReach, Named
  <2> QED
    BY <2>2, <2>3 DEF UniqueIds
<1> QED
  BY <1>1, <1>2, TypeCorrect, PTL DEF Spec

\* vault_find_by_name is unambiguous, in memory and in the saved image.
THEOREM NamesCorrect == Spec => []UniqueNames
<1>1. Init => UniqueNames
  BY DEF Init, UniqueNames, NamesReach, NoImage
<1>2. TypeOK /\ UniqueNames /\ [Next]_vars => UniqueNames'
  <2> SUFFICES ASSUME TypeOK, UniqueNames, [Next]_vars PROVE UniqueNames'
    OBVIOUS
  <2>1. MemoryStep /\ DiskStep
    BY StepShape
  <2>2. NamesReach(vaults')
    BY <2>1, NamesStep
  <2>3. NamesReach(disk'.vaults)
    BY <2>1, <2>2 DEF UniqueNames, DiskStep, NamesReach
  <2> QED
    BY <2>2, <2>3 DEF UniqueNames
<1> QED
  BY <1>1, <1>2, TypeCorrect, PTL DEF Spec

-----------------------------------------------------------------------------
(* Credentials, lockout and alerts *)

SlotsOk(vs) == \A i \in DOMAIN vs : SlotOk(vs[i])

\* The inductive invariant: while images are written whole, no image is cut
\* and every slot is sound, in memory and in the image.
Sound == "torn" \notin Faults =>
            /\ disk.kind \notin {"torn", "headless"}
            /\ SlotsOk(vaults) /\ SlotsOk(disk.vaults)

LEMMA SoundStep ==
    ASSUME TypeOK, Sound, [Next]_vars
    PROVE  Sound'
<1> SUFFICES ASSUME "torn" \notin Faults
             PROVE  disk'.kind \notin {"torn", "headless"} /\ SlotsOk(vaults') /\ SlotsOk(disk'.vaults)
  BY DEF Sound
<1>seq. /\ vaults \in Seq(Vault)
        /\ disk.kind \notin {"torn", "headless"} /\ SlotsOk(vaults) /\ SlotsOk(disk.vaults)
  BY DEF TypeOK, Sound
<1>shape. MemoryStep /\ DiskStep
  BY StepShape
<1>a. SlotsOk(vaults')
  <2>1. CASE Kept
    BY <2>1, <1>seq DEF Kept
  <2>2. CASE Added
    <3>1. PICK v \in Vault : SlotOk(v) /\ vaults' = Append(vaults, v)
      BY <2>2 DEF Added
    <3>2. \A i \in DOMAIN vaults' : vaults'[i] = v \/ (i \in DOMAIN vaults /\ vaults'[i] = vaults[i])
      BY <3>1, <1>seq
    <3> QED
      BY <3>1, <3>2, <1>seq DEF SlotsOk
  <2>3. CASE Removed
    BY <2>3, <1>seq, WithoutSlot DEF Removed, SlotsOk
  <2>4. CASE Changed
    <3>1. PICK i \in DOMAIN vaults :
              \E v : SlotStep(i, v) /\ vaults' = [vaults EXCEPT ![i] = v]
      BY <2>4 DEF Changed
    <3>2. PICK v : SlotStep(i, v) /\ vaults' = [vaults EXCEPT ![i] = v]
      BY <3>1
    <3>3. SlotOk(v)
      BY <3>2, <1>seq DEF SlotStep, SlotsOk
    <3> QED
      BY <3>2, <3>3, <1>seq DEF SlotsOk
  <2>5. CASE Reloaded
    BY <2>5, <1>seq DEF Reloaded
  <2>6. CASE Zeroed
    BY <2>6, <1>seq DEF Zeroed
  <2>7. CASE Emptied
    BY <2>7 DEF Emptied, SlotsOk
  <2> QED
    BY <1>shape, <2>1, <2>2, <2>3, <2>4, <2>5, <2>6, <2>7 DEF MemoryStep
<1> QED
  BY <1>a, <1>seq, <1>shape DEF DiskStep, SlotsOk

LEMMA SoundCorrect == Spec => []Sound
<1>1. Init => Sound
  BY DEF Init, Sound, SlotsOk, NoImage
<1>2. TypeOK /\ Sound /\ [Next]_vars => Sound'
  BY SoundStep
<1> QED
  BY <1>1, <1>2, TypeCorrect, PTL DEF Spec

\* A vault has a password if and only if it is PROTECTED.
THEOREM CredentialsCorrect == Spec => []CredentialsInv
<1>1. Sound => CredentialsInv
  BY DEF Sound, SlotsOk, SlotOk, CredentialsInv, PasswordMatchesType
<1> QED
  BY <1>1, SoundCorrect, PTL

\* MAX_PASS_ATTEMPTS wrong passwords keep a vault LOCKED or in ALERT.
THEOREM LockoutCorrect == Spec => []LockoutInv
<1>1. Sound => LockoutInv
  BY DEF Sound, SlotsOk, SlotOk, LockoutInv, LockedOut
<1> QED
  BY <1>1, SoundCorrect, PTL

\* A vault in ALERT has an open alert record.
THEOREM AlertCorrect == Spec => []AlertInv
<1>1. Sound => AlertInv
  BY DEF Sound, SlotsOk, SlotOk, AlertInv, AlertHasRecord
<1> QED
  BY <1>1, SoundCorrect, PTL
=============================================================================
