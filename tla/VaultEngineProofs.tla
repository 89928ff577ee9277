------------------------- MODULE VaultEngineProofs --------------------------
(***************************************************************************)
(* Theorems about VaultEngine, for any levels, layers and decoys and any   *)
(* number of failures.                                                     *)
(***************************************************************************)
EXTENDS VaultEngine, TLAPS

-----------------------------------------------------------------------------
(* Layers and decoys *)

LEMMA Counts ==
    \A l \in 0..MaxLevel : LayerCount[l] \in Nat /\ 1..LayerCount[l] \subseteq Layers
BY EngineAssumption DEF Layers

LEMMA WantedFacts ==
    ASSUME NEW l \in 0..MaxLevel
    PROVE  /\ Kind(l) \in Kinds
           /\ \A d \in Wanted(l) : d[1] \in 1..LayerCount[l]
           /\ \A i \in 1..LayerCount[l], a \in Letters : <<i, a, Kind(l)>> \in Wanted(l)
           /\ \A d \in Wanted(l) : d \in {d[1]} \X Letters \X {Kind(l)}
BY DEF Wanted, Kind, Kinds

Applying  == \E l \in 1..MaxLevel : ApplyLocked(l) \/ ApplyBegin(l)
Removing  == \/ \E d \in decoys : RemoveDecoy(d)
             \/ \E i \in layers : RemoveLayer(i)
             \/ RemoveMaze \/ RemoveReal
Relabeled == \E s \in {"OK", "LOCKED"} : Relabel(s)

LEMMA NextCases ==
    Next => Applying \/ FillLayer \/ ApplyEnd \/ Validate \/ Removing \/ Relabeled \/ Recreate \/ Restart
BY DEF Next, Applying, Removing, Relabeled

\* What a turn of the loop does to the maze, whatever fails in it.
LEMMA TurnAdds ==
    ASSUME TypeOK, FillLayer
    PROVE  /\ next \in Layers /\ next \in 1..LayerCount[level]
           /\ layers \subseteq layers' /\ layers' \subseteq layers \cup {next}
           /\ decoys \subseteq decoys' /\ decoys' \subseteq decoys \cup Mine
           /\ frozen' \subseteq frozen \cup (Mine \cap decoys')
           /\ next \in layers' \/ UNCHANGED <<decoys, frozen>>
           /\ ~failed' => root /\ next \in layers' /\ Mine \subseteq decoys'
<1>1. next \in 1..LayerCount[level] /\ next \in Layers
  BY Counts DEF FillLayer, TypeOK, ProcessType, JobType
<1>2. CASE failed' = TRUE /\ UNCHANGED <<layers, decoys, frozen>>
  BY <1>1, <1>2
<1>3. CASE root /\ layers' = layers \cup {next} /\ Populate
  <2>1. /\ decoys \subseteq decoys' /\ decoys' \subseteq decoys \cup Mine
        /\ frozen' \subseteq frozen \cup (Mine \cap decoys')
        /\ ~failed' => Mine \subseteq decoys'
    BY <1>3 DEF Populate, WriteDecoys
  <2> QED
    BY <1>1, <1>3, <2>1
<1> QED
  BY <1>2, <1>3 DEF FillLayer

-----------------------------------------------------------------------------
(* The type invariant *)

LEMMA MazeStep == TypeOK /\ [Next]_vars => MazeType'
<1> SUFFICES ASSUME TypeOK, MazeType, [Next]_vars PROVE MazeType'
  BY DEF TypeOK
<1> USE DEF MazeType
<1>1. CASE Applying
  BY <1>1 DEF Applying, ApplyLocked, ApplyBegin, maze
<1>2. CASE FillLayer
  <2>1. Mine \subseteq {next} \X Letters \X Kinds
    BY WantedFacts DEF Mine, TypeOK, ProcessType
  <2> QED
    BY <1>2, <2>1, TurnAdds
<1>3. CASE ApplyEnd
  <2>1. CASE Cleanup
    <3>1. CASE layers' = {} /\ decoys' = {} /\ frozen' = {}
      BY <3>1
    <3>2. CASE \E ls \in SUBSET layers : \E ds \in SUBSET {d \in decoys : d[1] \in ls} :
                  layers' = ls /\ decoys' = ds /\ frozen' = frozen \cap ds
      BY <3>2
    <3> QED
      BY <2>1, <3>1, <3>2 DEF Cleanup
  <2> QED
    BY <1>3, <2>1 DEF ApplyEnd, maze
<1>4. CASE Validate \/ Relabeled \/ Recreate \/ Restart
  BY <1>4 DEF Validate, Relabeled, Relabel, Recreate, Restart, maze
<1>5. CASE Removing
  <2>1. CASE \E d \in decoys : RemoveDecoy(d)
    BY <2>1 DEF RemoveDecoy
  <2>2. CASE \E i \in layers : RemoveLayer(i)
    BY <2>2 DEF RemoveLayer
  <2>3. CASE RemoveMaze \/ RemoveReal
    BY <2>3 DEF RemoveMaze, RemoveReal, maze
  <2> QED
    BY <1>5, <2>1, <2>2, <2>3 DEF Removing
<1>6. CASE UNCHANGED vars
  BY <1>6 DEF vars, maze
<1> QED
  BY <1>1, <1>2, <1>3, <1>4, <1>5, <1>6, NextCases

LEMMA ProcessStep == TypeOK /\ [Next]_vars => ProcessType'
<1> SUFFICES ASSUME ProcessType, [Next]_vars PROVE ProcessType'
  BY DEF TypeOK
<1>1. level' \in {level, 0} \cup 1..MaxLevel
  BY NextCases DEF Applying, ApplyLocked, ApplyBegin, SetLevel, FillLayer, ApplyEnd, Validate, Alert,
       Removing, RemoveDecoy, RemoveLayer, RemoveMaze, RemoveReal, Relabeled, Relabel, Recreate, Restart,
       process, vars
<1>2. status' \in {status, "OK", "LOCKED", "ALERT"}
  BY NextCases DEF Applying, ApplyLocked, ApplyBegin, SetLevel, FillLayer, ApplyEnd, Validate, Alert,
       Removing, RemoveDecoy, RemoveLayer, RemoveMaze, RemoveReal, Relabeled, Relabel, Recreate, Restart,
       process, vars
<1> QED
  BY <1>1, <1>2, EngineAssumption DEF ProcessType

LEMMA JobStep == TypeOK /\ [Next]_vars => JobType'
<1> SUFFICES ASSUME JobType, [Next]_vars PROVE JobType'
  BY DEF TypeOK
<1> USE DEF JobType
<1>1. CASE Applying
  BY <1>1 DEF Applying, ApplyLocked, ApplyBegin, SetLevel, job
<1>2. CASE FillLayer
  BY <1>2 DEF FillLayer, process
<1>3. CASE ApplyEnd
  BY <1>3 DEF ApplyEnd
<1>4. CASE Validate \/ Relabeled \/ Recreate \/ Restart
  BY <1>4 DEF Validate, Relabeled, Relabel, Recreate, Restart, job
<1>5. CASE Removing
  BY <1>5 DEF Removing, RemoveDecoy, RemoveLayer, RemoveMaze, RemoveReal, Harm, job, process
<1>6. CASE UNCHANGED vars
  BY <1>6 DEF vars, job, process
<1> QED
  BY <1>1, <1>2, <1>3, <1>4, <1>5, <1>6, NextCases

LEMMA HistoryStep == TypeOK /\ [Next]_vars => HistoryType'
<1> SUFFICES ASSUME ProcessType, HistoryType, [Next]_vars PROVE HistoryType'
  BY DEF TypeOK
<1>1. faults' = faults \/ (faults < FaultBound /\ faults' = faults + 1)
  BY NextCases DEF Applying, ApplyLocked, ApplyBegin, MayFail, FillLayer, Populate, ApplyEnd, Cleanup,
       Validate, Removing, RemoveDecoy, RemoveLayer, RemoveMaze, RemoveReal, Relabeled,
       Relabel, Recreate, Restart, Fails, Works, vars
<1>2. built' \in {built, 0, level}
  BY NextCases DEF Applying, ApplyLocked, ApplyBegin, KeepBuilt, FillLayer, ApplyEnd, Validate, Removing,
       RemoveDecoy, RemoveLayer, RemoveMaze, RemoveReal, Harm, Relabeled, Relabel, Recreate, Restart,
       history, vars
<1> QED
  BY <1>1, <1>2, EngineAssumption DEF ProcessType, HistoryType

LEMMA FlagStep == TypeOK /\ [Next]_vars => FlagType'
<1> SUFFICES ASSUME FlagType, [Next]_vars PROVE FlagType'
  BY DEF TypeOK
<1> USE DEF FlagType
<1>1. CASE Applying
  BY <1>1 DEF Applying, ApplyLocked, ApplyBegin, KeepBuilt, SetLevel, maze, job, history
<1>2. CASE FillLayer
  BY <1>2 DEF FillLayer, Populate, process, history
<1>3. CASE ApplyEnd
  BY <1>3 DEF ApplyEnd, KeepBuilt, Cleanup, process, maze
<1>4. CASE Validate \/ Relabeled
  BY <1>4 DEF Validate, Alert, Relabeled, Relabel, process, maze, job, history
<1>5. CASE Recreate \/ Restart
  BY <1>5 DEF Recreate, Restart, KeepBuilt, maze, job, history
<1>6. CASE Removing
  BY <1>6 DEF Removing, RemoveDecoy, RemoveLayer, RemoveMaze, RemoveReal, Harm, process, maze, job
<1>7. CASE UNCHANGED vars
  BY <1>7 DEF vars, process, maze, job, history
<1> QED
  BY <1>1, <1>2, <1>3, <1>4, <1>5, <1>6, <1>7, NextCases

LEMMA TypeStep == TypeOK /\ [Next]_vars => TypeOK'
BY ProcessStep, MazeStep, JobStep, HistoryStep, FlagStep DEF TypeOK

LEMMA InitType == Init => TypeOK
<1> SUFFICES ASSUME Init PROVE TypeOK
  OBVIOUS
<1>1. ProcessType /\ HistoryType
  BY EngineAssumption DEF Init, ProcessType, HistoryType
<1>2. MazeType /\ JobType
  BY DEF Init, MazeType, JobType
<1>3. FlagType
  BY DEF Init, FlagType
<1> QED
  BY <1>1, <1>2, <1>3 DEF TypeOK

\* Every variable keeps its type; a decoy lies in a layer that exists.
THEOREM TypeCorrect == Spec => []TypeOK
BY InitType, TypeStep, PTL DEF Spec

-----------------------------------------------------------------------------
(* What is built, and what became of it *)

\* The layers before the loop variable are there, unless somebody took a part of
\* what is being made; and a maze that was applied is there, between calls exactly
\* as long as nothing it needs was removed.
BuildInv ==
    /\ op = "idle"  => next = 1
    /\ op = "apply" => verdict = "none" /\ (tidy => ~spoilt)
    /\ op = "apply" /\ ~spoilt =>
          /\ root /\ real
          /\ ~failed => /\ \A i \in 1..LayerCount[level] : i < next => i \in layers
                        /\ \A d \in Wanted(level) : d[1] < next => d \in decoys
    /\ built # 0 /\ ~hurt => Whole(built)
    /\ op = "idle" /\ built # 0 /\ hurt => ~Whole(built)

\* The step takes nothing that the maze of level l needs.
Spared(l) == /\ UNCHANGED <<root, real>>
             /\ \A i \in 1..LayerCount[l] : i \in layers => i \in layers'
             /\ \A d \in Wanted(l) : d \in decoys => d \in decoys'

\* Somebody who removes a part takes nothing a maze needs, or makes it incomplete
\* and is noticed by the history.
LEMMA Taken ==
    ASSUME TypeOK, Removing
    PROVE  /\ UNCHANGED <<level, op, next, failed, built>>
           /\ verdict' = "none" /\ tidy' = FALSE
           /\ (root' => root) /\ (real' => real)
           /\ layers' \subseteq layers /\ decoys' \subseteq decoys
           /\ \E taken, due \in BOOLEAN :
                 /\ Harm(taken, due)
                 /\ IF taken THEN built # 0 => ~Whole(built)' ELSE Spared(built)
                 /\ due \/ Spared(level)
<1>0. /\ UNCHANGED <<level, op, next, failed, built>>
      /\ verdict' = "none" /\ tidy' = FALSE
  BY DEF Removing, RemoveDecoy, RemoveLayer, RemoveMaze, RemoveReal, Harm, process, job
<1>1. built \in 0..MaxLevel /\ level \in 0..MaxLevel
  BY DEF TypeOK, ProcessType, HistoryType
<1>2. CASE \E d \in decoys : RemoveDecoy(d)
  <2>1. PICK d \in decoys : RemoveDecoy(d)
    BY <1>2
  <2>2. /\ UNCHANGED <<root, real, layers>> /\ decoys' = decoys \ {d}
        /\ Harm(d \in Wanted(built), d \in Wanted(level))
    BY <2>1 DEF RemoveDecoy
  <2>3. d \in Wanted(built) => ~Whole(built)'
    BY <1>0, <2>2 DEF Whole
  <2>4. \A l : d \notin Wanted(l) => Spared(l)
    BY <2>2 DEF Spared
  <2>5. (d \in Wanted(built)) \in BOOLEAN /\ (d \in Wanted(level)) \in BOOLEAN
    OBVIOUS
  <2> QED
    BY <1>0, <2>2, <2>3, <2>4, <2>5
<1>3. CASE \E i \in layers : RemoveLayer(i)
  <2>1. PICK i \in layers : RemoveLayer(i)
    BY <1>3
  <2>2. /\ UNCHANGED <<root, real>> /\ layers' = layers \ {i}
        /\ decoys' = {d \in decoys : d[1] # i}
        /\ Harm(i <= LayerCount[built], i <= LayerCount[level])
    BY <2>1 DEF RemoveLayer
  <2>3. i \in Nat \ {0}
    <3>1. i \in Layers
      BY DEF TypeOK, MazeType
    <3> QED
      BY <3>1, EngineAssumption DEF Layers
  <2>4. ASSUME i <= LayerCount[built] PROVE ~Whole(built)'
    <3>1. i \in 1..LayerCount[built] /\ i \notin layers'
      BY <1>1, <2>2, <2>3, <2>4, Counts
    <3> QED
      BY <1>0, <3>1 DEF Whole
  <2>5. ASSUME NEW l \in 0..MaxLevel, ~(i <= LayerCount[l]) PROVE Spared(l)
    <3>1. \A d \in Wanted(l) : d[1] # i
      BY <2>3, <2>5, WantedFacts, Counts
    <3>2. \A k \in 1..LayerCount[l] : k # i
      BY <2>3, <2>5, Counts
    <3> QED
      BY <2>2, <3>1, <3>2 DEF Spared
  <2>6. (i <= LayerCount[built]) \in BOOLEAN /\ (i <= LayerCount[level]) \in BOOLEAN
    OBVIOUS
  <2> QED
    BY <1>0, <1>1, <2>2, <2>4, <2>5, <2>6
<1>4. CASE RemoveMaze
  <2>1. Harm(TRUE, TRUE) /\ root' = FALSE /\ layers' = {} /\ decoys' = {} /\ real' = real
    BY <1>4 DEF RemoveMaze
  <2> QED
    BY <1>0, <2>1 DEF Whole
<1>5. CASE RemoveReal
  <2>1. Harm(TRUE, TRUE) /\ real' = FALSE /\ UNCHANGED <<root, layers, decoys>>
    BY <1>5 DEF RemoveReal, maze
  <2> QED
    BY <1>0, <2>1 DEF Whole
<1> QED
  BY <1>2, <1>3, <1>4, <1>5 DEF Removing

\* A maze stays whole under a call that only adds to it.
LEMMA Adds ==
    ASSUME NEW l, Whole(l), root' = root \/ root' = TRUE, real' = real \/ real' = TRUE,
           layers \subseteq layers', decoys \subseteq decoys'
    PROVE  /\ root' /\ real'
           /\ 1..LayerCount[l] \subseteq layers'
           /\ Wanted(l) \subseteq decoys'
BY DEF Whole

LEMMA BuildStep == TypeOK /\ BuildInv /\ [Next]_vars => BuildInv'
<1> SUFFICES ASSUME TypeOK, BuildInv, [Next]_vars PROVE BuildInv'
  OBVIOUS
<1>0. LayerCount[level] \in Nat /\ level \in 0..MaxLevel /\ built \in 0..MaxLevel /\ next \in Nat \ {0}
  BY Counts DEF TypeOK, ProcessType, HistoryType, JobType
<1>1. CASE Applying
  <2>1. PICK l \in 1..MaxLevel : ApplyLocked(l) \/ ApplyBegin(l)
    BY <1>1 DEF Applying
  <2>2. CASE ApplyLocked(l)
    BY <2>2 DEF ApplyLocked, SetLevel, maze, job, history, BuildInv, Whole
  <2>3. CASE ApplyBegin(l)
    <3>1. /\ built' = (IF hurt THEN 0 ELSE built) /\ hurt' = FALSE /\ spoilt' = FALSE
          /\ layers' = layers /\ decoys' = decoys /\ next' = next /\ failed' = failed
          /\ root' = root \/ root' = TRUE
          /\ real' = real \/ real' = TRUE
          /\ op = "idle" /\ level' = l
      BY <2>3 DEF ApplyBegin, KeepBuilt, SetLevel
    <3>2. built' # 0 => Whole(built)'
      BY <3>1, Adds DEF BuildInv, Whole
    <3>3. CASE op' = "apply"
      <4>1. level' \in 0..MaxLevel
        BY <3>1, EngineAssumption
      <4>2. \A d \in Wanted(level') : d[1] \in Nat /\ d[1] >= 1
        BY <4>1, WantedFacts, Counts
      <4>3. root' /\ real' /\ verdict' = "none"
        BY <2>3, <3>3 DEF ApplyBegin
      <4> QED
        BY <3>1, <3>2, <3>3, <4>1, <4>2, <4>3, Counts DEF BuildInv
    <3>4. CASE op' # "apply"
      BY <3>1, <3>2, <3>4 DEF BuildInv
    <3> QED
      BY <3>3, <3>4
  <2> QED
    BY <2>1, <2>2, <2>3
<1>2. CASE FillLayer
  <2>1. /\ op = "apply" /\ op' = "apply" /\ next' = next + 1 /\ (failed => failed')
        /\ UNCHANGED <<level, built, verdict, hurt, spoilt, tidy, root, real>>
    BY <1>2 DEF FillLayer, Populate, process, history
  <2>2. ASSUME ~spoilt, ~failed'
        PROVE  /\ root' /\ real'
               /\ \A i \in 1..LayerCount[level] : i < next' => i \in layers'
               /\ \A d \in Wanted(level) : d[1] < next' => d \in decoys'
    <3>0. root /\ real
      BY <2>1, <2>2 DEF BuildInv
    <3>1. /\ \A i \in 1..LayerCount[level] : i < next => i \in layers
          /\ \A d \in Wanted(level) : d[1] < next => d \in decoys
      BY <2>1, <2>2 DEF BuildInv
    <3>2. next \in layers' /\ Mine \subseteq decoys' /\ layers \subseteq layers' /\ decoys \subseteq decoys'
      BY <1>2, <2>2, TurnAdds
    <3>3. \A i \in 1..LayerCount[level] : i < next' => i \in layers'
      BY <1>0, <2>1, <3>1, <3>2
    <3>4. \A d \in Wanted(level) : d[1] < next' => d \in decoys'
      <4>1. \A d \in Wanted(level) : d[1] = next => d \in Mine
        BY <1>0, WantedFacts DEF Mine
      <4>2. \A d \in Wanted(level) : d[1] \in Nat
        BY <1>0, WantedFacts
      <4> QED
        BY <1>0, <2>1, <3>1, <3>2, <4>1, <4>2
    <3> QED
      BY <2>1, <3>0, <3>3, <3>4
  <2>3. built # 0 /\ ~hurt => Whole(built)'
    <3>1. layers \subseteq layers' /\ decoys \subseteq decoys'
      BY <1>2, TurnAdds
    <3> QED
      BY <2>1, <3>1, Adds DEF BuildInv, Whole
  <2>4. ~spoilt => root /\ real
    BY <2>1 DEF BuildInv
  <2> QED
    BY <2>1, <2>2, <2>3, <2>4 DEF BuildInv
<1>3. CASE ApplyEnd
  <2>1. /\ op = "apply" /\ op' = "idle" /\ next' = 1 /\ hurt' = FALSE
        /\ next > LayerCount[level]
    BY <1>3 DEF ApplyEnd, KeepBuilt
  <2>2. CASE built' = 0
    BY <2>1, <2>2 DEF BuildInv
  <2>3. CASE built' # 0 /\ KeepBuilt
    <3>1. UNCHANGED <<maze, real>> /\ built' = built /\ ~hurt
      BY <1>3, <2>3 DEF ApplyEnd, KeepBuilt
    <3>2. Whole(built)'
      BY <2>3, <3>1 DEF BuildInv, Whole, maze
    <3> QED
      BY <2>1, <2>3, <3>2 DEF BuildInv
  <2>4. CASE built' # 0 /\ ~KeepBuilt
    <3>1. ~failed /\ ~spoilt /\ built' = level /\ UNCHANGED <<maze, real>>
      BY <1>3, <2>4 DEF ApplyEnd
    <3>2. root /\ real /\ \A i \in 1..LayerCount[level] : i < next => i \in layers
      BY <2>1, <3>1 DEF BuildInv
    <3>3. \A d \in Wanted(level) : d \in decoys
      <4>1. \A d \in Wanted(level) : d[1] \in 1..LayerCount[level]
        BY <1>0, WantedFacts
      <4>2. \A d \in Wanted(level) : d[1] < next => d \in decoys
        BY <2>1, <3>1 DEF BuildInv
      <4> QED
        BY <1>0, <2>1, <4>1, <4>2
    <3>4. Whole(level)
      <4>1. \A i \in 1..LayerCount[level] : i < next
        BY <1>0, <2>1
      <4> QED
        BY <3>2, <3>3, <4>1 DEF Whole
    <3>5. Whole(built)'
      BY <3>1, <3>4 DEF Whole, maze
    <3> QED
      BY <2>1, <3>1, <3>5 DEF BuildInv
  <2> QED
    BY <2>2, <2>3, <2>4
<1>4. CASE Validate \/ Relabeled \/ Recreate \/ Restart
  <2>1. /\ UNCHANGED <<maze, real>> /\ op' = "idle"
        /\ op = "idle" => next' = next
        /\ op # "idle" => next' = 1
    BY <1>4 DEF Validate, Relabeled, Relabel, Recreate, Restart, job, TypeOK, JobType, BuildInv
  <2>2. \A l : Whole(l)' <=> Whole(l)
    BY <2>1 DEF Whole, maze
  <2>3. \/ op = "idle" /\ UNCHANGED <<built, hurt>>
        \/ built' = (IF hurt THEN 0 ELSE built) /\ hurt' = FALSE
    BY <1>4 DEF Validate, Relabeled, Relabel, Recreate, Restart, history, KeepBuilt
  <2>4. (built' # 0 /\ ~hurt' => Whole(built)') /\ (op = "idle" /\ built' # 0 /\ hurt' => ~Whole(built)')
    <3>1. CASE op = "idle" /\ UNCHANGED <<built, hurt>>
      BY <2>2, <3>1 DEF BuildInv, Whole
    <3>2. CASE built' = (IF hurt THEN 0 ELSE built) /\ hurt' = FALSE
      BY <2>1, <3>2 DEF BuildInv, Whole, maze
    <3> QED
      BY <2>3, <3>1, <3>2
  <2>5. op # "idle" => hurt' = FALSE
    BY <1>4 DEF Validate, Relabeled, Relabel, Recreate, Restart, KeepBuilt
  <2> QED
    BY <2>1, <2>4, <2>5 DEF BuildInv
<1>5. CASE Removing
  <2>1. PICK taken \in BOOLEAN, due \in BOOLEAN :
           /\ Harm(taken, due)
           /\ IF taken THEN built # 0 => ~Whole(built)' ELSE Spared(built)
           /\ due \/ Spared(level)
    BY <1>5, Taken
  <2>2. /\ hurt' = (hurt \/ (built # 0 /\ taken))
        /\ spoilt' = (op = "apply" /\ (spoilt \/ due))
    BY <2>1 DEF Harm
  <2>3. /\ UNCHANGED <<level, op, next, failed, built>>
        /\ verdict' = "none" /\ tidy' = FALSE
    BY <1>5, Taken
  <2>4. built # 0 /\ ~hurt' => Whole(built)'
    <3>1. built # 0 /\ ~hurt' => Whole(built) /\ Spared(built)
      BY <2>1, <2>2 DEF BuildInv
    <3> QED
      BY <2>3, <3>1 DEF Whole, Spared
  <2>5. op = "idle" /\ built # 0 /\ hurt' => ~Whole(built)'
    <3>1. CASE taken
      BY <2>1, <2>3, <3>1
    <3>2. CASE ~taken
      <4>1. op = "idle" /\ built # 0 /\ hurt' => ~Whole(built)
        BY <2>2, <3>2 DEF BuildInv
      <4>2. Whole(built)' => Whole(built)
        BY <1>5, <2>3, Taken DEF Whole
      <4> QED
        BY <4>1, <4>2
    <3> QED
      BY <3>1, <3>2
  <2>6. op = "apply" /\ ~spoilt' => ~spoilt /\ Spared(level)
    BY <2>1, <2>2
  <2> QED
    BY <2>3, <2>4, <2>5, <2>6 DEF BuildInv, Spared
<1>6. CASE UNCHANGED vars
  <2>1. Whole(built)' <=> Whole(built)
    BY <1>6 DEF Whole, vars, maze, history
  <2> QED
    BY <1>6, <2>1 DEF BuildInv, vars, process, maze, job, history
<1> QED
  BY <1>1, <1>2, <1>3, <1>4, <1>5, <1>6, NextCases

LEMMA BuildInit == Init => BuildInv
BY DEF Init, BuildInv

LEMMA BuildHolds == Spec => []BuildInv
BY BuildInit, BuildStep, TypeCorrect, PTL DEF Spec

\* A maze whose application was reported as a success is there until somebody
\* takes a part of it or a failed application over it removes it: while another
\* level is applied over it too, and after calls that failed in any other way.
THEOREM AppliedMazesAreWhole == Spec => []AppliedIsWhole
<1>1. BuildInv => AppliedIsWhole
  BY DEF BuildInv, AppliedIsWhole
<1> QED
  BY <1>1, BuildHolds, PTL

-----------------------------------------------------------------------------
(* Validation *)

LEMMA MissingFacts ==
    ASSUME TypeOK
    PROVE  Whole(level) <=> root /\ real /\ MissingLayers = {} /\ MissingFiles = {}
<1>1. level \in 0..MaxLevel
  BY DEF TypeOK, ProcessType
<1>2. \A d \in Wanted(level) : d[1] \in 1..LayerCount[level]
  BY <1>1, WantedFacts
<1>3. MissingLayers = {} <=> 1..LayerCount[level] \subseteq layers
  BY DEF MissingLayers
<1>4. 1..LayerCount[level] \subseteq layers => (MissingFiles = {} <=> Wanted(level) \subseteq decoys)
  BY <1>2 DEF MissingFiles
<1> QED
  BY <1>3, <1>4 DEF Whole

LEMMA ValidationStep ==
    TypeOK /\ BuildInv /\ ValidationIsExact /\ [Next]_vars => ValidationIsExact'
<1> SUFFICES ASSUME TypeOK, BuildInv, ValidationIsExact, [Next]_vars PROVE ValidationIsExact'
  OBVIOUS
<1>1. CASE Applying
  BY <1>1 DEF Applying, ApplyLocked, ApplyBegin, ValidationIsExact
<1>2. CASE FillLayer
  BY <1>2 DEF FillLayer, BuildInv, ValidationIsExact
<1>3. CASE ApplyEnd
  BY <1>3 DEF ApplyEnd, ValidationIsExact
<1>4. CASE Validate
  <2> SUFFICES ASSUME level # 0, level = built PROVE verdict' = "broken" <=> hurt
    BY <1>4 DEF Validate, Alert, process, history, ValidationIsExact
  <2>1. hurt <=> ~Whole(level)
    BY <1>4 DEF Validate, BuildInv
  <2>2. verdict' = "broken" <=> ~(root /\ real /\ MissingLayers = {} /\ MissingFiles = {})
    BY <1>4 DEF Validate
  <2> QED
    BY <2>1, <2>2, MissingFacts
<1>5. CASE Removing
  BY <1>5, Taken DEF ValidationIsExact
<1>6. CASE Relabeled \/ Recreate \/ Restart
  BY <1>6 DEF Relabeled, Relabel, Recreate, Restart, ValidationIsExact
<1>7. CASE UNCHANGED vars
  BY <1>7 DEF vars, process, history, ValidationIsExact
<1> QED
  BY <1>1, <1>2, <1>3, <1>4, <1>5, <1>6, <1>7, NextCases

\* Validation of a maze that was applied at the level the vault has in memory
\* finds a defect exactly if a part was taken.
THEOREM ValidationCorrect == Spec => []ValidationIsExact
<1>1. Init => ValidationIsExact
  BY DEF Init, ValidationIsExact
<1> QED
  BY <1>1, ValidationStep, TypeCorrect, BuildHolds, PTL DEF Spec

-----------------------------------------------------------------------------
(* No partial maze *)

LEMMA PartialStep == TypeOK /\ BuildInv /\ NoPartialMaze /\ [Next]_vars => NoPartialMaze'
<1> SUFFICES ASSUME TypeOK, BuildInv, NoPartialMaze, [Next]_vars, op' = "idle", tidy'
             PROVE  layers' = {} \/ \E l \in 1..MaxLevel : Whole(l)'
  BY DEF NoPartialMaze
<1>1. ASSUME UNCHANGED <<layers, decoys, real>>, root' = root \/ root' = TRUE, op = "idle", tidy
      PROVE  layers' = {} \/ \E l \in 1..MaxLevel : Whole(l)'
  BY <1>1 DEF NoPartialMaze, Whole
<1>2. CASE Applying
  <2>1. UNCHANGED <<layers, decoys, tidy>> /\ op = "idle" /\ real' = real /\ (root' = root \/ root' = TRUE)
    BY <1>2 DEF Applying, ApplyLocked, ApplyBegin, maze, history
  <2> QED
    BY <1>1, <2>1
<1>3. CASE FillLayer
  BY <1>3 DEF FillLayer
<1>4. CASE ApplyEnd
  <2>1. CASE failed
    BY <1>4, <2>1 DEF ApplyEnd, Cleanup
  <2>2. CASE ~failed
    <3>1. UNCHANGED <<maze, real>> /\ tidy /\ op = "apply" /\ next > LayerCount[level]
      BY <1>4, <2>2 DEF ApplyEnd
    <3>2. /\ root /\ real
          /\ \A i \in 1..LayerCount[level] : i < next => i \in layers
          /\ \A d \in Wanted(level) : d[1] < next => d \in decoys
      BY <2>2, <3>1 DEF BuildInv
    <3>3. /\ level \in 1..MaxLevel /\ LayerCount[level] \in Nat /\ next \in Nat
          /\ \A d \in Wanted(level) : d[1] \in 1..LayerCount[level]
      BY <3>1, Counts, WantedFacts, EngineAssumption DEF TypeOK, ProcessType, JobType
    <3>4. \A i \in 1..LayerCount[level] : i < next
      BY <3>1, <3>3
    <3>5. Whole(level)
      BY <3>2, <3>3, <3>4 DEF Whole
    <3>6. \A l : Whole(l) => Whole(l)'
      BY <3>1 DEF Whole, maze
    <3> QED
      BY <3>3, <3>5, <3>6
  <2> QED
    BY <2>1, <2>2
<1>5. CASE Validate \/ Relabeled \/ Recreate \/ UNCHANGED vars
  <2>1. UNCHANGED <<maze, real, tidy>> /\ op = "idle"
    BY <1>5 DEF Validate, Relabeled, Relabel, Recreate, vars, job, history
  <2> QED
    BY <1>1, <2>1 DEF maze
<1>6. CASE Restart
  <2>1. UNCHANGED <<maze, real>> /\ op = "idle" /\ tidy
    BY <1>6 DEF Restart
  <2> QED
    BY <1>1, <2>1 DEF maze
<1>7. CASE Removing
  BY <1>7, Taken
<1> QED
  BY <1>2, <1>3, <1>4, <1>5, <1>6, <1>7, NextCases

\* Between calls the vault holds no maze or a whole one, unless an application or
\* its cleanup was cut short or somebody took a part.
THEOREM MazesAreWholeOrGone == Spec => []NoPartialMaze
<1>1. Init => NoPartialMaze
  BY DEF Init, NoPartialMaze
<1> QED
  BY <1>1, PartialStep, TypeCorrect, BuildHolds, PTL DEF Spec
=============================================================================
