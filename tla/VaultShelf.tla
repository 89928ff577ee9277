----------------------------- MODULE VaultShelf -----------------------------
(***************************************************************************)
(* What the copying commands promise of the files a user names: each       *)
(* appears in one step, as what another file holds at that moment, and     *)
(* nothing but the user, a removal or a copy takes it.  Of the other files *)
(* nothing is promised.  VaultStore implements it.                         *)
(***************************************************************************)

CONSTANTS
    Names,    \* those of the user's files
    Outside,  \* those he writes himself
    Values, Absent

VARIABLE shelf  \* what every file holds, the user's and the others

Init == \A p \in Names : shelf[p] \in IF p \in Outside THEN Values \cup {Absent} ELSE {Absent}

\* Of the user's files, only p changes.
Becomes(p, v) == \A q \in Names : shelf'[q] = IF q = p THEN v ELSE shelf[q]

\* The user writes a file of his own.
Put(p, v) == Becomes(p, v)

Copy(s, d) == shelf[s] # Absent /\ Becomes(d, shelf[s])

Remove(p) == Becomes(p, Absent)

Elsewhere == \A q \in Names : shelf'[q] = shelf[q]

Next == \/ \E p \in Outside, v \in Values : Put(p, v)
        \/ \E s \in DOMAIN shelf, d \in Names : Copy(s, d)
        \/ \E p \in Names : Remove(p)
        \/ Elsewhere

Spec == Init /\ [][Next]_shelf
=============================================================================
