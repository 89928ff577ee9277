---------------------------- MODULE VaultRegistry ----------------------------
(***************************************************************************)
(* What the catalog promises to its callers, without arrays, images or     *)
(* passwords: a registry of vaults by id with a durable copy.  A call      *)
(* changes one entry; the durable copy is then either brought up to date   *)
(* as a whole or left as it was; a restart goes back to it.  A registry    *)
(* that could not read its durable copy starts empty and detached, and the *)
(* ids it hands out then say nothing about those of the copy.              *)
(***************************************************************************)
EXTENDS Functions

CONSTANTS Ids,       \* the ids a registry may hand out
          Entries    \* what it holds about one vault: records with a name

VARIABLES live,      \* the entries calls see: a function from ids
          durable,   \* the entries a restart finds
          attached   \* the live entries go back to the durable ones

vars == <<live, durable, attached>>

Nothing == [id \in {} |-> {}]

\* Commit or not, as one whole.
Commit == durable' \in {durable, live'}

Init == live = Nothing /\ durable = Nothing /\ attached = TRUE

\* A new vault gets an id that neither copy uses, and a free name.
Enter(id, e) ==
    /\ id \notin DOMAIN live
    /\ attached => id \notin DOMAIN durable
    /\ \A k \in DOMAIN live : live[k].name # e.name
    /\ live' = [k \in DOMAIN live \cup {id} |-> IF k = id THEN e ELSE live[k]]
    /\ Commit
    /\ UNCHANGED attached

Leave(id) ==
    /\ live' = Restrict(live, DOMAIN live \ {id})
    /\ Commit
    /\ UNCHANGED attached

\* Only the name of a vault ever changes.
Relabel(id, e) ==
    /\ \A k \in DOMAIN live : live[k].name # e.name
    /\ e = [live[id] EXCEPT !.name = e.name]
    /\ live' = [live EXCEPT ![id] = e]
    /\ Commit
    /\ UNCHANGED attached

Sync == durable' = live /\ UNCHANGED <<live, attached>>

\* The process ends, with or without a last commit.
Stop == durable' \in {durable, live} /\ live' = durable' /\ attached' = TRUE

\* The durable copy could not be read.
Detach == live' = Nothing /\ attached' = FALSE /\ UNCHANGED durable

Next == \/ Sync
        \/ Stop
        \/ Detach
        \/ \E id \in DOMAIN live : Leave(id)
        \/ \E id \in Ids \ DOMAIN live, e \in Entries : Enter(id, e)
        \/ \E id \in DOMAIN live, e \in Entries : Relabel(id, e)

Spec == Init /\ [][Next]_vars
=============================================================================
