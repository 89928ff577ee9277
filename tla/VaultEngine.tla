---------------------------- MODULE VaultEngine ----------------------------
(***************************************************************************)
(* The isolation engine of one vault (c_src/vault_engine.c): layers of     *)
(* decoy files under .engine_decoy, and the directory .engine_real; how a  *)
(* maze is applied, applied again at another level, cleaned up after an    *)
(* error, and validated.                                                   *)
(*                                                                         *)
(* An application writes its layers one after the other, with the lock     *)
(* held; anybody may remove what it wrote, and the process may die between *)
(* two layers.  What a decoy says is left out, and so are the user's files *)
(* in .engine_real, which none of these calls touches.                     *)
(***************************************************************************)
EXTENDS Naturals

CONSTANTS
    MaxLevel,     \* ENGINE_LEVEL_MAX
    LayerCount,   \* ENGINE_LAYER_COUNT
    FirstBinary,  \* the first level whose decoys are binary
    Letters,      \* the decoys of a layer
    Faults,       \* what may fail: "mkdir", "layer", "write", "chmod", "save", "rm", "crash"
    FaultBound    \* and how often in one behaviour

ASSUME EngineAssumption ==
    /\ MaxLevel \in Nat
    /\ LayerCount \in [0..MaxLevel -> Nat] /\ LayerCount[0] = 0
    /\ FaultBound \in Nat

VARIABLES
    level,         \* v->engine_level, which catalog_save does not save
    status,        \* v->status
    privileged,    \* the process may open files against their mode
    root, real,    \* .engine_decoy and .engine_real exist
    layers,        \* the layer directories that exist
    decoys,        \* the decoy files that exist
    frozen,        \* those with mode 0400
    op,            \* "apply" while engine_apply runs
    next, failed,  \* its loop variable, and layers_failed > 0
    verdict,       \* what the last call returned
    built,         \* the level last applied with success, 0 if none (history)
    hurt,          \* somebody took a part of that maze since (history)
    spoilt,        \* somebody took a part of the one being made (history)
    tidy,          \* no maze was cut, left over or taken apart (history)
    faults         \* how many calls of the system have failed

maze    == <<root, layers, decoys, frozen>>
process == <<level, status, privileged>>
job     == <<op, next, failed>>
history == <<built, hurt, spoilt, tidy>>
vars    == <<process, maze, real, job, verdict, history, faults>>

Layers == UNION {1..LayerCount[l] : l \in 0..MaxLevel}
Kinds  == {"txt", "enc"}

Fails(f) == f \in Faults /\ faults < FaultBound /\ faults' = faults + 1
Works    == faults' = faults

Kind(l)   == IF l >= FirstBinary THEN "enc" ELSE "txt"
Wanted(l) == (1..LayerCount[l]) \X Letters \X {Kind(l)}

\* Everything an application of level l makes is there.
Whole(l) == /\ root /\ real
            /\ 1..LayerCount[l] \subseteq layers
            /\ Wanted(l) \subseteq decoys

-----------------------------------------------------------------------------
(* engine_apply *)

\* engine_mkdir: a directory that exists is as good as a new one.
MayFail(exists) == ~exists /\ Fails("mkdir")

\* The level is set before anything is looked at, and stays.
SetLevel(l) == level' = l /\ UNCHANGED <<status, privileged>>

ApplyLocked(l) ==
    /\ op = "idle" /\ status = "LOCKED"
    /\ SetLevel(l) /\ verdict' = "refused" /\ Works
    /\ UNCHANGED <<maze, real, job, history>>

\* What is known of an earlier maze when an application over it begins or ends:
\* one that lost a part may get it back from that, and is not followed any more.
KeepBuilt == built' = (IF hurt THEN 0 ELSE built) /\ hurt' = FALSE

\* The two directories first; without the second, the first is left behind.
ApplyBegin(l) ==
    /\ op = "idle" /\ status # "LOCKED"
    /\ SetLevel(l)
    /\ KeepBuilt /\ spoilt' = FALSE
    /\ \/ /\ root' = TRUE /\ real' = TRUE /\ Works
          /\ op' = "apply" /\ verdict' = "none"
       \/ /\ \/ MayFail(root) /\ UNCHANGED root
             \/ root' = TRUE /\ MayFail(real)
          /\ verdict' = "error" /\ UNCHANGED <<real, op>>
    /\ UNCHANGED <<layers, decoys, frozen, next, failed, tidy>>

Mine == {next} \X Letters \X {Kind(level)}

\* Decoys left by an earlier application have mode 0400, so that only a
\* privileged process can open them again.
Barred == IF privileged THEN {} ELSE Mine \cap frozen

\* Each file is created or truncated, written, looked at, and given mode 0400,
\* whether the last of these works or not.
WriteDecoys(good, opened, firm) ==
    /\ decoys' = decoys \cup good \cup opened
    /\ frozen' = frozen \cup firm

\* engine_populate_layer goes on after an error, and reports it.
Populate ==
    \/ /\ Works
       /\ WriteDecoys(Mine, {}, Mine)
       /\ failed' = (failed \/ Barred # {})
    \/ /\ Fails("chmod")
       /\ \E soft \in SUBSET (Mine \ Barred) : WriteDecoys(Mine, {}, Mine \ soft)
       /\ failed' = (failed \/ Barred # {})
    \/ /\ Fails("write")
       /\ \E lost \in SUBSET (Mine \ Barred) \ {{}} : \E opened \in SUBSET lost :
             WriteDecoys(Mine \ lost, opened, Mine \ lost)
       /\ failed' = TRUE

\* Faulty variant: a layer that cannot be made is passed over.
FillLayerSkips ==
    /\ op = "apply" /\ next <= LayerCount[level]
    /\ next' = next + 1
    /\ \/ /\ (~root /\ Works) \/ Fails("layer")
          /\ UNCHANGED <<layers, decoys, frozen, failed>>
       \/ root /\ layers' = layers \cup {next} /\ Populate
    /\ UNCHANGED <<process, root, real, op, verdict, history>>

\* One turn of the loop.  A layer whose parent does not resolve, or that cannot
\* be made, is counted, and the loop goes on.
FillLayer ==
    /\ op = "apply" /\ next <= LayerCount[level]
    /\ next' = next + 1
    /\ \/ /\ (~root /\ Works) \/ Fails("layer")
          /\ failed' = TRUE /\ UNCHANGED <<layers, decoys, frozen>>
       \/ root /\ layers' = layers \cup {next} /\ Populate
    /\ UNCHANGED <<process, root, real, op, verdict, history>>

\* Faulty variant: only the layers of this level go.
CleanupThese ==
    /\ Works
    /\ layers' = layers \ (1..LayerCount[level])
    /\ decoys' = decoys \ Wanted(level) /\ frozen' = frozen \ Wanted(level)
    /\ root' = FALSE /\ tidy' = TRUE

\* Faulty variant: what was written before the error stays.
CleanupNothing == Works /\ UNCHANGED <<maze, tidy>>

\* rm -rf of the whole maze, what earlier applications left included; refused
\* for some paths, and its result is not looked at.
Cleanup ==
    \/ /\ Works
       /\ root' = FALSE /\ layers' = {} /\ decoys' = {} /\ frozen' = {}
       /\ tidy' = TRUE
    \/ /\ Fails("rm")
       /\ \E ls \in SUBSET layers : \E ds \in SUBSET {d \in decoys : d[1] \in ls} :
             layers' = ls /\ decoys' = ds /\ frozen' = frozen \cap ds
       /\ tidy' = FALSE /\ UNCHANGED root

\* The end of the loop, and of vault_apply_engine_ffi.
ApplyEnd ==
    /\ op = "apply" /\ next > LayerCount[level]
    /\ op' = "idle" /\ next' = 1 /\ failed' = FALSE
    /\ \/ /\ ~failed
          /\ \/ /\ Works /\ verdict' = "applied"
                /\ IF spoilt THEN KeepBuilt ELSE built' = level /\ hurt' = FALSE
             \/ Fails("save") /\ verdict' = "error" /\ KeepBuilt
          /\ UNCHANGED <<maze, tidy>>
       \/ failed /\ Cleanup /\ verdict' = "error" /\ built' = 0 /\ hurt' = FALSE
    /\ spoilt' = FALSE /\ UNCHANGED <<process, real>>

-----------------------------------------------------------------------------
(* engine_validate *)

\* Faulty variant: the files of the last layer are not counted.
MissingFilesButLast ==
    {d \in Wanted(level) : d[1] \in layers /\ d[1] < LayerCount[level] /\ d \notin decoys}

MissingLayers == {i \in 1..LayerCount[level] : i \notin layers}
MissingFiles  == {d \in Wanted(level) : d[1] \in layers /\ d \notin decoys}

\* alert_trigger, whatever the status was.
Alert == status' = "ALERT" /\ UNCHANGED <<level, privileged>>

\* Without one of the two directories there is an error, but no alert.
Validate ==
    /\ op = "idle"
    /\ \/ level = 0 /\ verdict' = "valid" /\ UNCHANGED process
       \/ level # 0 /\ ~(root /\ real) /\ verdict' = "broken" /\ UNCHANGED process
       \/ /\ level # 0 /\ root /\ real
          /\ IF MissingLayers = {} /\ MissingFiles = {}
             THEN verdict' = "valid" /\ UNCHANGED process
             ELSE verdict' = "broken" /\ Alert
    /\ UNCHANGED <<maze, real, job, history, faults>>

-----------------------------------------------------------------------------
(* The rest of the world *)

\* Somebody removes a part: one that the maze applied last needs (taken), or
\* the one being made (due).
Harm(taken, due) ==
    /\ hurt' = (hurt \/ (built # 0 /\ taken))
    /\ spoilt' = (op = "apply" /\ (spoilt \/ due))
    /\ tidy' = FALSE /\ verdict' = "none" /\ UNCHANGED built

RemoveDecoy(d) ==
    /\ decoys' = decoys \ {d} /\ frozen' = frozen \ {d}
    /\ Harm(d \in Wanted(built), d \in Wanted(level))
    /\ UNCHANGED <<process, root, layers, real, job, faults>>

RemoveLayer(i) ==
    /\ layers' = layers \ {i}
    /\ decoys' = {d \in decoys : d[1] # i} /\ frozen' = {d \in frozen : d[1] # i}
    /\ Harm(i <= LayerCount[built], i <= LayerCount[level])
    /\ UNCHANGED <<process, root, real, job, faults>>

RemoveMaze ==
    /\ root
    /\ root' = FALSE /\ layers' = {} /\ decoys' = {} /\ frozen' = {}
    /\ Harm(TRUE, TRUE)
    /\ UNCHANGED <<process, real, job, faults>>

RemoveReal ==
    /\ real
    /\ real' = FALSE
    /\ Harm(TRUE, TRUE)
    /\ UNCHANGED <<process, maze, job, faults>>

\* Wrong passwords lock the vault; a password unlocks it, or resolves an alert.
Relabel(s) ==
    /\ op = "idle" /\ status # s
    /\ status' = s /\ verdict' = "none"
    /\ UNCHANGED <<level, privileged, maze, real, job, history, faults>>

\* The vault is deleted, and one created at the same path: mkdir finds the
\* directory there and takes it with what it holds.
Recreate ==
    /\ op = "idle"
    /\ level' = 0 /\ status' = "OK" /\ verdict' = "none"
    /\ UNCHANGED <<privileged, maze, real, job, history, faults>>

\* The process ends, in a call or between calls, and is started again, perhaps
\* by another user.
Restart ==
    /\ \/ op = "idle" /\ Works /\ UNCHANGED <<built, hurt>>
       \/ op # "idle" /\ Fails("crash") /\ KeepBuilt
    /\ level' = 0 /\ privileged' \in BOOLEAN
    /\ op' = "idle" /\ next' = 1 /\ failed' = FALSE /\ verdict' = "none"
    /\ tidy' = (tidy /\ op = "idle") /\ spoilt' = FALSE
    /\ UNCHANGED <<status, maze, real>>

-----------------------------------------------------------------------------

Init ==
    /\ level = 0 /\ status = "OK" /\ privileged \in BOOLEAN
    /\ root = FALSE /\ real = FALSE
    /\ layers = {} /\ decoys = {} /\ frozen = {}
    /\ op = "idle" /\ next = 1 /\ failed = FALSE
    /\ verdict = "none" /\ built = 0 /\ hurt = FALSE /\ spoilt = FALSE
    /\ tidy = TRUE /\ faults = 0

Next ==
    \/ \E l \in 1..MaxLevel : ApplyLocked(l) \/ ApplyBegin(l)
    \/ FillLayer
    \/ ApplyEnd
    \/ Validate
    \/ \E d \in decoys : RemoveDecoy(d)
    \/ \E i \in layers : RemoveLayer(i)
    \/ RemoveMaze
    \/ RemoveReal
    \/ \E s \in {"OK", "LOCKED"} : Relabel(s)
    \/ Recreate
    \/ Restart

Spec == Init /\ [][Next]_vars

-----------------------------------------------------------------------------
(* Properties *)

ProcessType == level \in 0..MaxLevel /\ status \in {"OK", "LOCKED", "ALERT"}
MazeType ==
    /\ layers \subseteq Layers
    /\ decoys \subseteq layers \X Letters \X Kinds
    /\ frozen \subseteq decoys
JobType ==
    /\ op \in {"idle", "apply"} /\ next \in Nat \ {0}
    /\ op = "apply" => level # 0
    /\ verdict \in {"none", "applied", "refused", "error", "valid", "broken"}
HistoryType == built \in 0..MaxLevel /\ faults \in 0..FaultBound
FlagType == /\ privileged \in BOOLEAN /\ root \in BOOLEAN /\ real \in BOOLEAN
            /\ failed \in BOOLEAN /\ hurt \in BOOLEAN /\ spoilt \in BOOLEAN
            /\ tidy \in BOOLEAN

\* Every variable keeps its type; a decoy lies in a layer that exists.
TypeOK == ProcessType /\ MazeType /\ JobType /\ HistoryType /\ FlagType

\* A maze whose application was reported as a success is there, layer by layer
\* and file by file, also while another level is applied over it, and after that
\* was refused, could not begin, was cut short by the end of the process or could
\* not be saved; after restarts; and after the vault was deleted and made again
\* over it.  It is gone in two cases: somebody took a part of it, or an
\* application over it failed in a layer, whose cleanup (vault_engine.c:483-487)
\* takes the earlier maze too.
AppliedIsWhole == built # 0 /\ ~hurt => Whole(built)

\* Between calls the vault holds no maze or a whole one, also after applications
\* that failed, or that met the read-only decoys of an earlier one; unless the
\* process died in one, its rm failed, or somebody took a part.
NoPartialMaze ==
    op = "idle" /\ tidy => layers = {} \/ \E l \in 1..MaxLevel : Whole(l)

\* vault_validate_engine_ffi tells a maze that was applied, and is the one that
\* engine_level names, from one that lost a part: no damage missed, no false alarm.
ValidationIsExact ==
    verdict \in {"valid", "broken"} /\ level # 0 /\ level = built =>
        (verdict = "broken" <=> hurt)
=============================================================================
