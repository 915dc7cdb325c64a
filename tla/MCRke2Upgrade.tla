--------------------------- MODULE MCRke2Upgrade ---------------------------
(* Instances of Rke2Upgrade for TLC: the versions of determineUpgradePath. *)
EXTENDS Rke2Upgrade

AllVersions ==
    <<<<30, 14>>, <<31, 13>>, <<32, 9>>, <<33, 5>>, <<34, 1>>, <<34, 4>>>>
Latest == <<34, 4>>

\* Every listed version, and versions between, before and after them.
Anything ==
    {AllVersions[i] : i \in 1..6}
        \cup {<<29, 9>>, <<30, 10>>, <<31, 14>>, <<33, 4>>, <<34, 3>>}
        \cup {<<28, 5>>, <<34, 6>>, <<35, 1>>}
JustBefore == {<<33, 5>>}
=============================================================================
