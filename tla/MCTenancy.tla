----------------------------- MODULE MCTenancy -----------------------------
(* Instances of Tenancy for TLC. *)
EXTENDS Tenancy

CONSTANTS s1, s2, t1, w1, unset

AllCommands == DOMAIN Program
UserSetup == {"setup", "infraUsers"}
=============================================================================
