------------------------ MODULE VaultRegistryProofs ------------------------
(***************************************************************************)
(* What catalog.dat is worth: theorems about VaultCatalog that relate the  *)
(* image to memory, and its refinement of VaultRegistry.                   *)
(***************************************************************************)
EXTENDS VaultCatalogProofs

-----------------------------------------------------------------------------
(* Write-through *)

\* A vault of which only the failure counter changes is the same to a save.
LEMMA DurableEdit ==
    ASSUME NEW vs \in Seq(Vault), NEW i \in DOMAIN vs, NEW v \in Vault,
           [v EXCEPT !.failed = 0] = [vs[i] EXCEPT !.failed = 0]
    PROVE  Durable([vs EXCEPT ![i] = v]) = Durable(vs)
<1> DEFINE ws == [vs EXCEPT ![i] = v]
<1>1. DOMAIN ws = DOMAIN vs /\ ws[i] = v /\ \A j \in DOMAIN vs \ {i} : ws[j] = vs[j]
  OBVIOUS
<1>2. \A j \in DOMAIN vs : [ws[j] EXCEPT !.failed = 0] = [vs[j] EXCEPT !.failed = 0]
  BY <1>1
<1> QED
  BY <1>1, <1>2 DEF Durable

\* A save of what memory is after the step.
LEMMA SaveBacks ==
    ASSUME TypeOK, TypeOK', CatalogSave(vaults', nextId')
    PROVE  WriteThrough'
<1>1. clean' => disk' = Image(vaults', nextId')
  BY SaveShape DEF TypeOK
<1> QED
  BY <1>1 DEF WriteThrough, Image, TypeOK

\* A call that saves nothing keeps the invariant if a save would have made the
\* same image.
LEMMA EditBacks ==
    ASSUME TypeOK, WriteThrough, UNCHANGED <<up, nextId, disk, clean>>,
           Durable(vaults)' = Durable(vaults)
    PROVE  WriteThrough'
BY DEF WriteThrough

LEMMA WriteThroughStep == TypeOK /\ WriteThrough /\ [Next]_vars => WriteThrough'
<1> SUFFICES ASSUME TypeOK, WriteThrough, [Next]_vars PROVE WriteThrough'
  OBVIOUS
<1>next. TypeOK'
  BY TypeStep
<1>seq. vaults \in Seq(Vault) /\ nextId \in Nat /\ disk.nextId \in Nat
  BY DEF TypeOK, DiskImage
<1>1. ASSUME NEW n \in Names, NEW t \in Types, NEW d \in Dirs, NEW p \in Passwords,
             Create(n, t, d, p)
      PROVE  WriteThrough'
  BY <1>1, <1>next, SaveBacks DEF Create
<1>2. ASSUME NEW n \in Names, CreateRejected(n)
      PROVE  WriteThrough'
  BY <1>2, <1>seq DEF CreateRejected, WriteThrough, Durable
<1>3. ASSUME NEW i \in 1..MaxVaults,
             \/ \E p \in Passwords : Delete(i, p) \/ Unlock(i, p) \/ Resolve(i, p)
             \/ \E n \in Names, p \in Passwords : Rename(i, n, p)
             \/ \E old \in Passwords, new \in Passwords : ChangePassword(i, old, new)
             \/ Alert(i) \/ Scan(i)
      PROVE  WriteThrough'
  <2>1. CatalogSave(vaults', nextId')
    BY <1>3 DEF Delete, Unlock, Resolve, Rename, ChangePassword, Alert, Scan, Put
  <2> QED
    BY <2>1, <1>next, SaveBacks
<1>4. ASSUME NEW i \in 1..MaxVaults, NEW p \in Passwords, ChangePasswordFails(i, p)
      PROVE  WriteThrough'
  BY <1>4 DEF ChangePasswordFails, WriteThrough
<1>5. ASSUME NEW i \in 1..MaxVaults, NEW p \in Passwords, Authenticate(i, p)
      PROVE  WriteThrough'
  <2>1. i \in DOMAIN vaults /\ vaults[i] \in Vault
    BY <1>5, <1>seq DEF Authenticate, Found
  <2>2. AuthOk(vaults[i]) \in Vault
    BY <2>1, SlotType
  <2>3. [AuthOk(vaults[i]) EXCEPT !.failed = 0] = [vaults[i] EXCEPT !.failed = 0]
    BY <2>1 DEF AuthOk, Vault
  <2>4. Durable([vaults EXCEPT ![i] = AuthOk(vaults[i])]) = Durable(vaults)
    BY <2>1, <2>2, <2>3, <1>seq, DurableEdit
  <2>5. Durable(vaults)' = Durable(vaults)
    BY <1>5, <2>4 DEF Authenticate, Durable
  <2> QED
    BY <1>5, <2>5, EditBacks DEF Authenticate
<1>6. ASSUME NEW i \in 1..MaxVaults, WrongPassword(i)
      PROVE  WriteThrough'
  <2>1. i \in DOMAIN vaults /\ vaults[i] \in Vault
    BY <1>6, <1>seq DEF WrongPassword, Found
  <2>2. AuthFail(vaults[i]) \in Vault
    BY <2>1, SlotType
  <2>3. CASE vaults[i].failed + 1 >= MaxAttempts
    BY <1>6, <2>3, <1>next, SaveBacks DEF WrongPassword, Put
  <2>4. CASE ~(vaults[i].failed + 1 >= MaxAttempts)
    <3>1. AuthFail(vaults[i]) = [vaults[i] EXCEPT !.failed = vaults[i].failed + 1,
                                                  !.status = vaults[i].status]
      BY <2>4 DEF AuthFail
    <3>2. [AuthFail(vaults[i]) EXCEPT !.failed = 0] = [vaults[i] EXCEPT !.failed = 0]
      BY <2>1, <3>1 DEF Vault
    <3>3. Durable([vaults EXCEPT ![i] = AuthFail(vaults[i])]) = Durable(vaults)
      BY <2>1, <2>2, <3>2, <1>seq, DurableEdit
    <3>4. Durable(vaults)' = Durable(vaults)
      BY <1>6, <2>4, <3>3 DEF WrongPassword, Durable
    <3> QED
      BY <1>6, <2>4, <3>4, EditBacks DEF WrongPassword
  <2> QED
    BY <2>3, <2>4
<1>7. CASE Start
  BY <1>7, <1>seq DEF Start, WriteThrough
<1>8. CASE Quit \/ Crash
  BY <1>8 DEF Quit, Crash, Gone, WriteThrough
<1>9. CASE UNCHANGED vars
  BY <1>9 DEF vars, WriteThrough, Durable
<1> QED
  BY <1>1, <1>2, <1>3, <1>4, <1>5, <1>6, <1>7, <1>8, <1>9 DEF Next

\* As long as no save has failed, catalog.dat equals memory in everything but
\* the failure counters and the ids spent on refused creations.
THEOREM WriteThroughCorrect == Spec => []WriteThrough
<1>1. Init => WriteThrough
  BY DEF Init, WriteThrough
<1> QED
  BY <1>1, WriteThroughStep, TypeCorrect, PTL DEF Spec

-----------------------------------------------------------------------------
(* Identity *)

\* Slots filled by Create, not zeroed ones.
AllFull(vs) == \A i \in DOMAIN vs : vs[i].name \in Names /\ vs[i].path \in Dirs

\* Vaults of vs that are in ws are the same there, and no new id is one of theirs.
Related(vs, n, ws) == \A i \in DOMAIN vs :
    /\ vs[i].id < n
    /\ \A j \in DOMAIN ws : vs[i].id = ws[j].id => SameVault(vs[i], ws[j])

\* While images are written whole, arrays have no zeroed slots; and a process
\* that has loaded the image uses the image's ids for the image's vaults only.
LinkInv == "torn" \notin Faults =>
    /\ AllFull(vaults) /\ AllFull(disk.vaults)
    /\ up /\ loaded => Related(disk.vaults, nextId, vaults)

IdentityInv == TypeOK /\ UniqueIds /\ UniqueNames /\ Sound /\ LinkInv

LEMMA OneById ==
    ASSUME NEW vs \in Seq(Vault), NEW n, AllFull(vs), IdsReach(vs, n),
           NEW i \in DOMAIN vs, NEW j \in DOMAIN vs, vs[i].id = vs[j].id
    PROVE  i = j
<1>1. DOMAIN vs = 1..Len(vs) /\ Len(vs) \in Nat
  OBVIOUS
<1>2. /\ i \in Named(vs) /\ ~Hollow(vs[i])
      /\ j \in Named(vs) /\ ~Hollow(vs[j])
  BY CatalogAssumption DEF AllFull, Named, Hollow
<1> QED
  BY <1>1, <1>2 DEF IdsReach

LEMMA Itself ==
    ASSUME NEW vs \in Seq(Vault), NEW n, AllFull(vs), IdsReach(vs, n)
    PROVE  Related(vs, n, vs)
<1>1. \A i \in DOMAIN vs : ~Hollow(vs[i])
  BY CatalogAssumption DEF AllFull, Hollow
<1> QED
  BY <1>1, OneById DEF Related, SameVault, IdsReach

\* What a call does to the array leaves no zeroed slot and keeps the ids of the image.
LEMMA CallKeeps ==
    ASSUME TypeOK, AllFull(vaults), Kept \/ Added \/ Removed \/ Changed
    PROVE  /\ AllFull(vaults')
           /\ Related(disk.vaults, nextId, vaults) => Related(disk.vaults, nextId', vaults')
<1>seq. vaults \in Seq(Vault) /\ nextId \in Nat /\ disk.vaults \in Seq(Vault)
  BY DEF TypeOK, DiskImage
<1>ids. \A i \in DOMAIN disk.vaults : disk.vaults[i].id \in Nat
  <2>1. \A i \in DOMAIN disk.vaults : disk.vaults[i] \in Vault
    BY <1>seq
  <2> QED
    BY <2>1 DEF Vault
<1>1. CASE Kept
  BY <1>1, <1>seq, <1>ids DEF Kept, Related
<1>2. CASE Added
  <2>1. PICK v \in Vault : /\ v.id = nextId /\ v.name \in Names /\ v.path \in Dirs
                           /\ vaults' = Append(vaults, v) /\ nextId' = nextId + 1
    BY <1>2 DEF Added
  <2>2. \A i \in DOMAIN vaults' : vaults'[i] = v \/ (i \in DOMAIN vaults /\ vaults'[i] = vaults[i])
    BY <2>1, <1>seq
  <2>3. AllFull(vaults')
    BY <2>1, <2>2 DEF AllFull
  <2>4. Related(disk.vaults, nextId, vaults) => Related(disk.vaults, nextId', vaults')
    BY <2>1, <2>2, <1>seq, <1>ids DEF Related
  <2> QED
    BY <2>3, <2>4
<1>3. CASE Removed
  <2>1. \A i \in DOMAIN vaults' : \E j \in DOMAIN vaults : vaults'[i] = vaults[j]
    BY <1>3, <1>seq, WithoutSlot DEF Removed
  <2>2. nextId' = nextId
    BY <1>3 DEF Removed
  <2>3. AllFull(vaults')
    BY <2>1 DEF AllFull
  <2>4. Related(disk.vaults, nextId, vaults) => Related(disk.vaults, nextId', vaults')
    BY <2>1, <2>2 DEF Related
  <2> QED
    BY <2>3, <2>4
<1>4. CASE Changed
  <2>1. PICK k \in DOMAIN vaults :
            \E v : SlotStep(k, v) /\ vaults' = [vaults EXCEPT ![k] = v] /\ nextId' = nextId
    BY <1>4 DEF Changed
  <2>2. PICK v : SlotStep(k, v) /\ vaults' = [vaults EXCEPT ![k] = v] /\ nextId' = nextId
    BY <2>1
  <2>3. /\ DOMAIN vaults' = DOMAIN vaults /\ vaults'[k] = v
        /\ \A i \in DOMAIN vaults \ {k} : vaults'[i] = vaults[i]
    BY <2>2, <1>seq
  <2>4. \A i \in DOMAIN vaults : /\ vaults'[i].id = vaults[i].id
                                 /\ SameVault(vaults[i], vaults'[i])
                                 /\ vaults'[i].path = vaults[i].path
    BY <2>2, <2>3 DEF SlotStep, SameVault
  <2>5. AllFull(vaults')
    BY <2>2, <2>3 DEF SlotStep, AllFull
  <2>6. Related(disk.vaults, nextId, vaults) => Related(disk.vaults, nextId', vaults')
    BY <2>2, <2>3, <2>4 DEF Related, SameVault
  <2> QED
    BY <2>5, <2>6
<1> QED
  BY <1>1, <1>2, <1>3, <1>4

LEMMA LinkStep ==
    ASSUME IdentityInv, [Next]_vars, UniqueIds', TypeOK'
    PROVE  LinkInv'
<1> SUFFICES ASSUME "torn" \notin Faults
             PROVE  /\ AllFull(vaults') /\ AllFull(disk'.vaults)
                    /\ up' /\ loaded' => Related(disk'.vaults, nextId', vaults')
  BY DEF LinkInv
<1>inv. /\ TypeOK /\ disk.kind \notin {"torn", "headless"} /\ AllFull(vaults) /\ AllFull(disk.vaults)
        /\ up /\ loaded => Related(disk.vaults, nextId, vaults)
  BY DEF IdentityInv, LinkInv, Sound
<1>self. AllFull(vaults') => Related(vaults', nextId', vaults')
  BY Itself DEF UniqueIds, TypeOK
<1>1. CASE CallStep
  <2>1. /\ AllFull(vaults')
        /\ Related(disk.vaults, nextId, vaults) => Related(disk.vaults, nextId', vaults')
    BY <1>1, <1>inv, CallKeeps DEF CallStep
  <2>2. disk' = disk \/ disk'.vaults = vaults'
    BY <1>1 DEF CallStep, CallDisk
  <2> QED
    BY <1>1, <1>inv, <1>self, <2>1, <2>2 DEF CallStep
<1>2. CASE Start
  <2>1. CASE vaults' = disk.vaults
    BY <1>2, <2>1, <1>inv, <1>self DEF Start
  <2>2. CASE vaults' = <<>> /\ ~loaded'
    BY <1>2, <2>2, <1>inv DEF Start, AllFull
  <2> QED
    BY <1>2, <1>inv, <2>1, <2>2 DEF Start
<1>3. CASE Quit \/ Crash
  <2>1. disk' = disk \/ disk'.vaults = vaults
    BY <1>3, <1>inv, SaveShape DEF Quit, Crash, TypeOK
  <2> QED
    BY <1>3, <1>inv, <2>1 DEF Quit, Crash, Gone, AllFull
<1>4. CASE UNCHANGED vars
  BY <1>4, <1>inv DEF vars
<1> QED
  BY <1>inv, <1>1, <1>2, <1>3, <1>4, CallShape

LEMMA IdentityCorrect == Spec => []IdentityInv
<1>1. Init => LinkInv
  BY DEF Init, LinkInv, AllFull, NoImage
<1>2. TypeOK /\ UniqueIds /\ UniqueNames /\ Sound /\ LinkInv /\ [Next]_vars /\ UniqueIds' /\ TypeOK'
        => LinkInv'
  BY LinkStep DEF IdentityInv
<1> QED
  BY <1>1, <1>2, TypeCorrect, IdsCorrect, NamesCorrect, SoundCorrect, PTL DEF Spec, IdentityInv

\* An id that catalog.dat has given to a vault is never given to another one by
\* a process whose load succeeded.
THEOREM DiskIdentityCorrect == Spec => DiskIdentity
<1>1. IdentityInv /\ [Next]_vars =>
        [up /\ loaded /\ "torn" \notin Faults =>
           \A i \in DOMAIN disk.vaults, j \in DOMAIN disk'.vaults :
              disk.vaults[i].id = disk'.vaults[j].id => SameVault(disk.vaults[i], disk'.vaults[j])]_vars
  <2> SUFFICES ASSUME IdentityInv, [Next]_vars, up, loaded, "torn" \notin Faults,
                      NEW i \in DOMAIN disk.vaults, NEW j \in DOMAIN disk'.vaults,
                      disk.vaults[i].id = disk'.vaults[j].id
               PROVE  SameVault(disk.vaults[i], disk'.vaults[j])
    OBVIOUS
  <2>inv. /\ TypeOK /\ AllFull(vaults) /\ AllFull(disk.vaults)
          /\ Related(disk.vaults, nextId, vaults)
          /\ disk.vaults \in Seq(Vault) /\ IdsReach(disk.vaults, disk.nextId)
    BY DEF IdentityInv, LinkInv, UniqueIds, TypeOK, DiskImage
  <2>1. CASE disk' = disk
    BY <2>1, <2>inv, OneById DEF SameVault
  <2>2. CASE CallStep /\ disk'.vaults = vaults'
    <3>1. Related(disk.vaults, nextId', vaults')
      BY <2>2, <2>inv, CallKeeps DEF CallStep
    <3> QED
      BY <2>2, <3>1 DEF Related
  <2>3. CASE disk'.vaults = vaults
    BY <2>3, <2>inv DEF Related
  <2>4. CASE Next
    <3>1. CallStep \/ Start \/ Quit \/ Crash
      BY <2>4, <2>inv, CallShape
    <3>2. CASE CallStep
      BY <3>2, <2>1, <2>2 DEF CallStep, CallDisk
    <3>3. CASE Quit
      <4>1. disk' = disk \/ disk'.vaults = vaults
        BY <3>3, <2>inv, SaveShape DEF Quit, TypeOK
      <4> QED
        BY <4>1, <2>1, <2>3
    <3> QED
      BY <3>1, <3>2, <3>3, <2>1 DEF Start, Crash
  <2> QED
    BY <2>1, <2>4 DEF vars
<1> QED
  BY <1>1, IdentityCorrect, PTL DEF Spec, DiskIdentity

-----------------------------------------------------------------------------
(* The refinement *)

\* What the registry holds about a vault.
Entry(v) == [name |-> v.name, type |-> v.type, path |-> v.path]

Live == IF up THEN ById(vaults) ELSE ById(disk.vaults)

\* An array that is an entry for each of its ids.
LEMMA ByIdIs ==
    ASSUME NEW vs \in Seq(Vault), NEW n, AllFull(vs), IdsReach(vs, n),
           NEW f, f = [k \in {vs[i].id : i \in DOMAIN vs} |-> f[k]],
           \A i \in DOMAIN vs : f[vs[i].id] = Entry(vs[i])
    PROVE  ById(vs) = f
<1> DEFINE S    == {vs[i].id : i \in DOMAIN vs}
           P(k) == CHOOSE i \in DOMAIN vs : vs[i].id = k
<1>1. ById(vs) = [k \in S |-> Entry(vs[P(k)])]
  BY DEF ById, Entry
<1>2. ASSUME NEW k \in S PROVE Entry(vs[P(k)]) = f[k]
  <2>1. PICK i \in DOMAIN vs : vs[i].id = k
    OBVIOUS
  <2>2. P(k) \in DOMAIN vs /\ vs[P(k)].id = k
    BY <2>1
  <2> QED
    BY <2>2
<1> QED
  BY <1>1, <1>2

\* The entry of a vault, and the ids there are.
LEMMA ByIdAt ==
    ASSUME NEW vs \in Seq(Vault), NEW n, AllFull(vs), IdsReach(vs, n)
    PROVE  /\ DOMAIN ById(vs) = {vs[i].id : i \in DOMAIN vs}
           /\ ById(vs) = [k \in DOMAIN ById(vs) |-> ById(vs)[k]]
           /\ \A i \in DOMAIN vs : ById(vs)[vs[i].id] = Entry(vs[i])
<1> DEFINE S    == {vs[i].id : i \in DOMAIN vs}
           P(k) == CHOOSE i \in DOMAIN vs : vs[i].id = k
<1>1. ById(vs) = [k \in S |-> Entry(vs[P(k)])]
  BY DEF ById, Entry
<1>2. ASSUME NEW i \in DOMAIN vs PROVE ById(vs)[vs[i].id] = Entry(vs[i])
  <2>1. P(vs[i].id) \in DOMAIN vs /\ vs[P(vs[i].id)].id = vs[i].id
    OBVIOUS
  <2>2. P(vs[i].id) = i
    <3> HIDE DEF P
    <3> QED  BY <2>1, OneById
  <2>3. vs[i].id \in S
    OBVIOUS
  <2> QED
    <3> HIDE DEF P, S
    <3> QED  BY <1>1, <2>2, <2>3
<1>3. DOMAIN ById(vs) = S /\ ById(vs) = [k \in S |-> ById(vs)[k]]
  <2> HIDE DEF P, S
  <2> QED  BY <1>1
<1> QED
  BY <1>2, <1>3

\* An array and a counter after a step, whose slots are full and ids unique.
Proper(vs, n) == vs \in Seq(Vault) /\ AllFull(vs) /\ IdsReach(vs, n)

LEMMA ByIdAppend ==
    ASSUME NEW vs, NEW n, Proper(vs, n), NEW v \in Vault, NEW m, Proper(Append(vs, v), m)
    PROVE  ById(Append(vs, v)) =
             [k \in DOMAIN ById(vs) \cup {v.id} |-> IF k = v.id THEN Entry(v) ELSE ById(vs)[k]]
<1> DEFINE ws == Append(vs, v)
           f  == [k \in DOMAIN ById(vs) \cup {v.id} |-> IF k = v.id THEN Entry(v) ELSE ById(vs)[k]]
<1>1. vs \in Seq(Vault) /\ Len(vs) \in Nat /\ DOMAIN vs = 1..Len(vs)
  BY DEF Proper
<1>2. /\ DOMAIN ws = 1..(Len(vs) + 1) /\ ws[Len(vs) + 1] = v
      /\ \A i \in DOMAIN vs : ws[i] = vs[i]
  BY <1>1
<1>3. Len(vs) + 1 \in DOMAIN ws /\ Len(vs) + 1 \notin DOMAIN vs
      /\ DOMAIN ws = DOMAIN vs \cup {Len(vs) + 1}
  BY <1>1, <1>2
<1>4. /\ DOMAIN ById(vs) = {vs[i].id : i \in DOMAIN vs}
      /\ \A i \in DOMAIN vs : ById(vs)[vs[i].id] = Entry(vs[i])
  BY ByIdAt DEF Proper
<1> HIDE DEF ws
<1>5. \A i \in DOMAIN vs : vs[i].id # v.id
  <2> SUFFICES ASSUME NEW i \in DOMAIN vs, vs[i].id = v.id PROVE FALSE
    OBVIOUS
  <2>1. ws \in Seq(Vault) /\ AllFull(ws) /\ IdsReach(ws, m)
    BY DEF Proper, ws
  <2>2. i = Len(vs) + 1
    BY <1>2, <1>3, <2>1, OneById
  <2> QED
    BY <1>3, <2>2
<1>6. {ws[i].id : i \in DOMAIN ws} = DOMAIN ById(vs) \cup {v.id}
  <2>1. \A i \in DOMAIN ws : ws[i].id \in DOMAIN ById(vs) \cup {v.id}
    BY <1>2, <1>3, <1>4
  <2>2. \A x \in DOMAIN ById(vs) : \E i \in DOMAIN ws : x = ws[i].id
    BY <1>2, <1>3, <1>4
  <2>3. v.id \in {ws[i].id : i \in DOMAIN ws}
    BY <1>2, <1>3
  <2> QED
    BY <2>1, <2>2, <2>3
<1>7. \A i \in DOMAIN ws : f[ws[i].id] = Entry(ws[i])
  BY <1>2, <1>3, <1>4, <1>5
<1>8. f = [k \in {ws[i].id : i \in DOMAIN ws} |-> f[k]]
  BY <1>6
<1> QED
  <2> HIDE DEF f
  <2>1. ws \in Seq(Vault) /\ AllFull(ws) /\ IdsReach(ws, m)
    BY DEF Proper, ws
  <2>2. ById(ws) = f
    BY <2>1, <1>7, <1>8, ByIdIs
  <2> QED
    BY <2>2 DEF ws, f

LEMMA ByIdWithout ==
    ASSUME NEW vs, NEW n, Proper(vs, n), NEW i \in DOMAIN vs, NEW m, Proper(Without(vs, i), m)
    PROVE  ById(Without(vs, i)) = [k \in DOMAIN ById(vs) \ {vs[i].id} |-> ById(vs)[k]]
<1> DEFINE ws == Without(vs, i)
           f  == [k \in DOMAIN ById(vs) \ {vs[i].id} |-> ById(vs)[k]]
<1>1. vs \in Seq(Vault) /\ Len(vs) \in Nat /\ DOMAIN vs = 1..Len(vs)
  BY DEF Proper
<1>2. DOMAIN ws = 1..(Len(vs) - 1)
  BY <1>1, WithoutType
<1>3. \A j \in DOMAIN ws : \E k \in DOMAIN vs \ {i} : ws[j] = vs[k]
  <2> SUFFICES ASSUME NEW j \in DOMAIN ws PROVE \E k \in DOMAIN vs \ {i} : ws[j] = vs[k]
    OBVIOUS
  <2>1. CASE j < i
    BY <1>1, <1>2, <2>1 DEF Without
  <2>2. CASE ~(j < i)
    <3>1. j + 1 \in DOMAIN vs \ {i} /\ ws[j] = vs[j + 1]
      BY <1>1, <1>2, <2>2 DEF Without
    <3> QED  BY <3>1
  <2> QED
    BY <2>1, <2>2
<1>4. \A k \in DOMAIN vs \ {i} : \E j \in DOMAIN ws : ws[j] = vs[k]
  <2> SUFFICES ASSUME NEW k \in DOMAIN vs \ {i} PROVE \E j \in DOMAIN ws : ws[j] = vs[k]
    OBVIOUS
  <2>1. CASE k < i
    <3>1. k \in DOMAIN ws /\ ws[k] = vs[k]
      BY <1>1, <1>2, <2>1 DEF Without
    <3> QED  BY <3>1
  <2>2. CASE ~(k < i)
    <3>1. k - 1 \in DOMAIN ws /\ ~(k - 1 < i) /\ (k - 1) + 1 = k
      BY <1>1, <1>2, <2>2
    <3>2. ws[k - 1] = vs[k]
      BY <1>2, <3>1 DEF Without
    <3> QED  BY <3>1, <3>2
  <2> QED
    BY <2>1, <2>2
<1>5. /\ DOMAIN ById(vs) = {vs[j].id : j \in DOMAIN vs}
      /\ \A j \in DOMAIN vs : ById(vs)[vs[j].id] = Entry(vs[j])
  BY ByIdAt DEF Proper
<1>6. \A k \in DOMAIN vs \ {i} : vs[k].id # vs[i].id
  BY OneById DEF Proper
<1> HIDE DEF ws
<1>7. {ws[j].id : j \in DOMAIN ws} = DOMAIN ById(vs) \ {vs[i].id}
  <2>1. \A j \in DOMAIN ws : ws[j].id \in DOMAIN ById(vs) \ {vs[i].id}
    BY <1>3, <1>5, <1>6
  <2>2. \A x \in DOMAIN ById(vs) \ {vs[i].id} : \E j \in DOMAIN ws : x = ws[j].id
    BY <1>4, <1>5
  <2> QED
    BY <2>1, <2>2
<1>8. \A j \in DOMAIN ws : f[ws[j].id] = Entry(ws[j])
  BY <1>3, <1>5, <1>6
<1>9. f = [k \in {ws[j].id : j \in DOMAIN ws} |-> f[k]]
  BY <1>7
<1> QED
  <2> HIDE DEF f
  <2>1. ws \in Seq(Vault) /\ AllFull(ws) /\ IdsReach(ws, m)
    BY DEF Proper, ws
  <2>2. ById(ws) = f
    BY <2>1, <1>8, <1>9, ByIdIs
  <2> QED
    BY <2>2 DEF ws, f

LEMMA ByIdExcept ==
    ASSUME NEW vs, NEW n, Proper(vs, n), NEW i \in DOMAIN vs, NEW v \in Vault, v.id = vs[i].id,
           NEW m, Proper([vs EXCEPT ![i] = v], m)
    PROVE  ById([vs EXCEPT ![i] = v]) = [ById(vs) EXCEPT ![vs[i].id] = Entry(v)]
<1> DEFINE ws == [vs EXCEPT ![i] = v]
           f  == [ById(vs) EXCEPT ![vs[i].id] = Entry(v)]
<1>1. DOMAIN ws = DOMAIN vs /\ ws[i] = v /\ \A j \in DOMAIN vs \ {i} : ws[j] = vs[j]
  BY DEF Proper
<1>2. /\ DOMAIN ById(vs) = {vs[j].id : j \in DOMAIN vs}
      /\ ById(vs) = [k \in DOMAIN ById(vs) |-> ById(vs)[k]]
      /\ \A j \in DOMAIN vs : ById(vs)[vs[j].id] = Entry(vs[j])
  BY ByIdAt DEF Proper
<1>3. \A k \in DOMAIN vs \ {i} : vs[k].id # vs[i].id
  BY OneById DEF Proper
<1> HIDE DEF ws
<1>4. {ws[j].id : j \in DOMAIN ws} = DOMAIN ById(vs)
  BY <1>1, <1>2
<1>5. \A j \in DOMAIN ws : f[ws[j].id] = Entry(ws[j])
  BY <1>1, <1>2, <1>3
<1>6. f = [k \in {ws[j].id : j \in DOMAIN ws} |-> f[k]]
  BY <1>4
<1> QED
  <2> HIDE DEF f
  <2>1. ws \in Seq(Vault) /\ AllFull(ws) /\ IdsReach(ws, m)
    BY DEF Proper, ws
  <2>2. ById(ws) = f
    BY <2>1, <1>5, <1>6, ByIdIs
  <2> QED
    BY <2>2 DEF ws, f

LEMMA EmptyById == ById(<<>>) = Registry!Nothing
BY DEF ById, Registry!Nothing

\* Arrays and counters before and after a step of the invariant.
LEMMA AllProper ==
    ASSUME IdentityInv, "torn" \notin Faults
    PROVE  Proper(vaults, nextId) /\ Proper(disk.vaults, disk.nextId) /\ nextId \in Nat
BY DEF IdentityInv, LinkInv, TypeOK, DiskImage, UniqueIds, Proper

RegistryStep == Registry!Next \/ UNCHANGED <<Live, ById(disk.vaults), up => loaded>>

\* A call changes one entry of the live ones, and commits that or not.
LEMMA CallRefines ==
    ASSUME IdentityInv, IdentityInv', "torn" \notin Faults, CallStep
    PROVE  RegistryStep
<1>p. /\ Proper(vaults, nextId) /\ Proper(disk.vaults, disk.nextId) /\ nextId \in Nat
      /\ Proper(vaults', nextId')
  <2>1. Proper(vaults', nextId')
    BY DEF IdentityInv, LinkInv, TypeOK, UniqueIds, Proper
  <2> QED
    BY <2>1, AllProper
<1> DEFINE live == ById(vaults)
           next == ById(vaults')
<1>up. up /\ up' /\ (loaded' <=> loaded) /\ loaded' = loaded
  BY DEF CallStep
<1>live. Live = live /\ Live' = next
  BY <1>up DEF Live
<1>commit. ById(disk'.vaults) \in {ById(disk.vaults), next}
  BY DEF CallStep, CallDisk
<1>dom. /\ DOMAIN live = {vaults[i].id : i \in DOMAIN vaults}
        /\ \A i \in DOMAIN vaults : live[vaults[i].id] = Entry(vaults[i])
  BY <1>p, ByIdAt DEF Proper
<1>free. ASSUME NEW n, NameFree(n), NEW k \in DOMAIN live PROVE live[k].name # n
  <2>1. PICK i \in DOMAIN vaults : k = vaults[i].id
    BY <1>dom
  <2>2. live[k] = Entry(vaults[i])
    BY <1>dom, <2>1
  <2> QED
    BY <1>free, <2>2 DEF Entry, NameFree
<1>1. CASE Kept \/ next = live
  <2>1. next = live
    BY <1>1 DEF Kept
  <2> QED
    BY <2>1, <1>up, <1>live, <1>commit DEF RegistryStep, Registry!Next, Registry!Sync, Live
<1>2. CASE Added
  <2>1. PICK v \in Vault : /\ v.id = nextId /\ nextId < IdBound /\ NameFree(v.name)
                           /\ v.name \in Names /\ v.path \in Dirs
                           /\ vaults' = Append(vaults, v)
    BY <1>2 DEF Added
  <2>2. next = [k \in DOMAIN live \cup {v.id} |-> IF k = v.id THEN Entry(v) ELSE live[k]]
    BY <1>p, <2>1, ByIdAppend
  <2>3. v.id \in (0..IdBound) \ DOMAIN live
    <3>1. \A i \in DOMAIN vaults : vaults[i].id < nextId /\ vaults[i] \in Vault
      BY <1>p, CatalogAssumption DEF Proper, IdsReach, AllFull, Hollow
    <3>2. nextId \notin DOMAIN live
      BY <1>p, <1>dom, <3>1 DEF Vault
    <3> QED
      BY <1>p, <2>1, <3>2, CatalogAssumption
  <2>4. (up => loaded) => v.id \notin DOMAIN ById(disk.vaults)
    <3> SUFFICES ASSUME up => loaded PROVE v.id \notin DOMAIN ById(disk.vaults)
      OBVIOUS
    <3>1. Related(disk.vaults, nextId, vaults)
      BY <1>up DEF IdentityInv, LinkInv
    <3>2. \A i \in DOMAIN disk.vaults : disk.vaults[i] \in Vault
      BY <1>p DEF Proper
    <3>3. DOMAIN ById(disk.vaults) = {disk.vaults[i].id : i \in DOMAIN disk.vaults}
      BY <1>p, ByIdAt DEF Proper
    <3> QED
      BY <1>p, <2>1, <3>1, <3>2, <3>3 DEF Related, Vault
  <2>5. \A k \in DOMAIN live : live[k].name # Entry(v).name
    BY <1>free, <2>1 DEF Entry
  <2>6. Entry(v) \in [name : Names, type : Types, path : Dirs]
    BY <2>1 DEF Entry, Vault
  <2>7. Registry!Enter(v.id, Entry(v))
    <3> HIDE DEF live, next
    <3> QED
      BY <1>up, <1>live, <1>commit, <2>2, <2>3, <2>4, <2>5 DEF Registry!Enter, Registry!Commit, Live
  <2> QED
    BY <2>3, <2>6, <2>7, <1>live DEF RegistryStep, Registry!Next, Live
<1>3. CASE Removed
  <2>1. PICK i \in DOMAIN vaults : vaults' = Without(vaults, i)
    BY <1>3 DEF Removed
  <2>2. next = [k \in DOMAIN live \ {vaults[i].id} |-> live[k]]
    BY <1>p, <2>1, ByIdWithout
  <2>3. vaults[i].id \in DOMAIN live
    BY <1>dom
  <2>4. Registry!Leave(vaults[i].id)
    <3> HIDE DEF live, next
    <3> QED
      BY <1>up, <1>live, <1>commit, <2>2 DEF Registry!Leave, Registry!Commit, Registry!Restrict, Live
  <2> QED
    BY <2>3, <2>4, <1>live DEF RegistryStep, Registry!Next, Live
<1>4. CASE Changed
  <2>1. PICK i \in DOMAIN vaults : \E v : SlotStep(i, v) /\ vaults' = [vaults EXCEPT ![i] = v]
    BY <1>4 DEF Changed
  <2>2. PICK v : SlotStep(i, v) /\ vaults' = [vaults EXCEPT ![i] = v]
    BY <2>1
  <2>3. v \in Vault /\ v.id = vaults[i].id /\ v.type = vaults[i].type /\ v.path = vaults[i].path
    BY <2>2 DEF SlotStep
  <2>4. next = [live EXCEPT ![vaults[i].id] = Entry(v)]
    BY <1>p, <2>2, <2>3, ByIdExcept
  <2>5. vaults[i].id \in DOMAIN live /\ live[vaults[i].id] = Entry(vaults[i])
    BY <1>dom
  <2>6. CASE v.name = vaults[i].name
    <3>1. Entry(v) = live[vaults[i].id]
      BY <2>3, <2>5, <2>6 DEF Entry
    <3>2. live = [k \in DOMAIN live |-> live[k]]
      BY <1>p, ByIdAt DEF Proper
    <3>3. next = live
      <4> HIDE DEF live, next
      <4> QED  BY <2>4, <3>1, <3>2
    <3> QED
      BY <3>3, <1>1
  <2>7. CASE NameFree(v.name) /\ v.name \in Names
    <3>1. Entry(v) \in [name : Names, type : Types, path : Dirs]
      BY <1>p, <2>3, <2>7 DEF Entry, Vault, Proper, AllFull
    <3>2. \A k \in DOMAIN live : live[k].name # Entry(v).name
      BY <1>free, <2>7 DEF Entry
    <3>3. Entry(v) = [live[vaults[i].id] EXCEPT !.name = Entry(v).name]
      BY <2>3, <2>5 DEF Entry
    <3>4. Registry!Relabel(vaults[i].id, Entry(v))
      <4> HIDE DEF live, next
      <4> QED
        BY <1>up, <1>live, <1>commit, <2>4, <3>2, <3>3 DEF Registry!Relabel, Registry!Commit, Live
    <3> QED
      BY <2>5, <3>1, <3>4, <1>live DEF RegistryStep, Registry!Next, Live
  <2> QED
    BY <2>2, <2>6, <2>7 DEF SlotStep
<1> QED
  BY <1>1, <1>2, <1>3, <1>4 DEF CallStep

LEMMA RegistryRefines ==
    ASSUME IdentityInv, IdentityInv', "torn" \notin Faults, [Next]_vars
    PROVE  RegistryStep
<1>ty. TypeOK /\ up \in BOOLEAN /\ vaults \in Seq(Vault) /\ nextId \in Nat /\ disk.kind \notin {"torn", "headless"}
  BY DEF IdentityInv, TypeOK, Sound
<1>1. CASE CallStep
  BY <1>1, CallRefines
<1>2. CASE Start
  <2>1. CASE vaults' = disk.vaults /\ loaded'
    BY <1>2, <2>1 DEF Start, RegistryStep, Live
  <2>2. CASE vaults' = <<>> /\ ~loaded'
    BY <1>2, <2>2, EmptyById DEF Start, RegistryStep, Registry!Next, Registry!Detach, Live
  <2> QED
    BY <1>2, <1>ty, <2>1, <2>2 DEF Start
<1>3. CASE Quit \/ Crash
  <2>1. disk' = disk \/ disk'.vaults = vaults
    BY <1>3, <1>ty, SaveShape DEF Quit, Crash
  <2>2. ~up' /\ up
    BY <1>3 DEF Quit, Crash, Gone
  <2>3. Registry!Stop
    BY <2>1, <2>2 DEF Registry!Stop
  <2> QED
    BY <2>3 DEF RegistryStep, Registry!Next
<1>4. CASE UNCHANGED vars
  BY <1>4 DEF vars, RegistryStep, Live
<1> QED
  BY <1>1, <1>2, <1>3, <1>4, <1>ty, CallShape

\* The catalog implements the registry: whatever array, image and counters go
\* through, its callers see entries by id that change one at a time and are
\* committed as a whole or not at all.
THEOREM CatalogImplementsRegistry ==
    ASSUME "torn" \notin Faults
    PROVE  Spec => RegistrySpec
<1>1. Init => Registry!Init
  BY EmptyById DEF Init, Registry!Init, NoImage
<1>2. IdentityInv /\ IdentityInv' /\ [Next]_vars =>
        [Registry!Next]_<<Live, ById(disk.vaults), up => loaded>>
  BY RegistryRefines DEF RegistryStep
<1>3. (Registry!Init /\ [][Registry!Next]_<<Live, ById(disk.vaults), up => loaded>>) => RegistrySpec
  BY DEF RegistrySpec, Registry!Spec, Registry!vars, Live
<1> QED
  BY <1>1, <1>2, <1>3, IdentityCorrect, PTL DEF Spec
=============================================================================
