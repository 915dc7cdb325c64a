----------------------------- MODULE MCArgoSync -----------------------------
(* Instances of ArgoSync for TLC. *)
EXTENDS ArgoSync

First == {1}
Last == {N}
Nobody == {}
=============================================================================
