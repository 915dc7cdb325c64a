--------------------------- MODULE MCOnpremUpgrade ---------------------------
(* Instances of OnpremUpgrade for TLC. *)
EXTENDS OnpremUpgrade

CONSTANTS catalog, mps, rps

MCDbs == {catalog, mps, rps}
MCHeld == {mps, rps}

\* Failures after which starting the script again completes the upgrade with
\* the passwords in place.  get_fails is not one: an empty postgres_secret.yaml
\* is never written again.
CompletableFaults == {"dump_fails", "cp_fails"}

CopyFails == {"cp_fails"}
TornWrite == {"torn_write"}

=============================================================================
