------------------------------- MODULE Custody -------------------------------
(***************************************************************************)
(* What an upgrade promises about the secrets it moves out of the cluster: *)
(* between the cluster and the working directory there is always a copy,   *)
(* and in the end the copy is in the cluster.  How often, in which order   *)
(* and by which run a copy is made or dropped is left open.                *)
(***************************************************************************)
CONSTANT Items

VARIABLE copies

Places == {"cluster", "file"}

TypeOK == copies \in [Items -> SUBSET Places]

\* Some secrets (mps, rps) may not be deployed at all.
Init == copies \in [Items -> {{}, {"cluster"}}]

\* An item with a copy keeps one, and an item without is not made up.
Keeps(i) == (copies'[i] = {}) <=> (copies[i] = {})

Next ==
    /\ copies' \in [Items -> SUBSET Places]
    /\ \A i \in Items : Keeps(i)

Spec == Init /\ [][Next]_copies

\* The liveness half of the promise is <>[]InPlace.
InPlace == \A i \in Items : copies[i] # {} => "cluster" \in copies[i]
=============================================================================
