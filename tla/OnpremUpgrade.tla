---------------------------- MODULE OnpremUpgrade ----------------------------
(***************************************************************************)
(* on-prem-installers/onprem/onprem_upgrade.sh with upgrade_postgres.sh:   *)
(* the credential and dump protocol of an on-prem upgrade.                 *)
(*                                                                         *)
(* The script runs under `set -e`: any failing command ends the run, and   *)
(* the operator starts the script again from its first line.  What         *)
(* survives a run is the working directory (a dump, a password file, the   *)
(* yaml files of secrets taken out of the cluster) and the cluster, which  *)
(* ArgoCD keeps changing meanwhile.                                        *)
(*                                                                         *)
(* A password is a generation number: Original is the one in use before    *)
(* the upgrade, 1..Gens the ones the postgresql-secrets chart generates    *)
(* when it creates a secret that is missing.                               *)
(***************************************************************************)
EXTENDS Integers

CONSTANTS
    Dbs,        \* the databases whose users have a password secret
    Catalog,    \* app-orch-catalog, the one whose secrets the script probes
    Held,       \* those with a secret of their own on disk meanwhile (mps, rps)
    Faults,     \* which partial failures may happen, besides a plain stop
    MaxFaults,  \* bound: failures in one behaviour
    Gens,       \* bound: password generations, reused cyclically
    Replicas    \* keycloak-tenant-controller-set's replica count

FaultKinds == {"get_fails", "dump_fails", "cp_fails", "torn_write",
               "slow_cascade"}

ASSUME UpgradeAssumption ==
    /\ Catalog \in Dbs
    /\ Held \subseteq Dbs /\ Held # {}
    /\ Faults \subseteq FaultKinds
    /\ MaxFaults \in Nat
    /\ Gens \in Nat \ {0}
    /\ Replicas \in Nat \ {0}

Blank == -2 \* the empty string
Absent == -1
Original == 0
Pw == -2..Gens

VARIABLES
    pc,         \* the script's current step, "idle" when no run is active
    todo,       \* what the current step's loop still has to visit
    want,       \* the shell variable REPLICAS
    faults,     \* failures so far
    \* the working directory
    superFile,  \* postgres_secret.yaml
    dump,       \* orch-database_backup.sql
    pwFile,     \* postgres-secrets-password.txt
    heldFile,   \* mps_secret.yaml, rps_secret.yaml
    \* the cluster
    secretsApp, \* the ArgoCD application postgresql-secrets
    gen,        \* the password generation of the next secrets created
    app,        \* PGPASSWORD of <db>-local-postgresql and its -reader- twin
    db,         \* password of the orch-database secret CloudNativePG reads
    held,       \* whether the secrets mps and rps are in orch-infra
    conn,       \* the password patched into their connectionString, Absent
                \* while it is the one the yaml file came with
    restored,   \* the dump file psql replayed last
    replicas    \* keycloak-tenant-controller-set: spec.replicas

script == <<pc, todo, want, faults>>
files == <<superFile, dump, pwFile, heldFile>>
passwords == <<secretsApp, gen, app, db>>
others == <<held, conn, restored, replicas>>
vars == <<script, files, passwords, others>>

Steps == {"super", "backup", "filter", "install", "capture", "hold", "orch",
          "reader", "secretsapp", "delete", "sleep", "await", "patchapp",
          "patchdb", "superapply", "restore", "reapply", "connect", "restart",
          "scaleup"}

DumpStates == {"absent", "partial", "raw", "filtered"}

TypeOK ==
    /\ pc \in Steps \cup {"idle", "done"}
    /\ todo \subseteq Dbs
    /\ want \in {0, Replicas}
    /\ faults \in 0..MaxFaults
    /\ superFile \in {"absent", "empty", "saved"}
    /\ dump \in DumpStates
    /\ pwFile \in [Dbs -> Pw]
    /\ heldFile \in [Held -> {"absent", "empty", "saved"}]
    /\ secretsApp \in {"present", "deleting", "gone"}
    /\ gen \in 0..Gens
    /\ app \in [Dbs -> Pw]
    /\ db \in [Dbs -> Pw]
    /\ held \in [Held -> BOOLEAN]
    /\ conn \in [Held -> Pw]
    /\ restored \in DumpStates
    /\ replicas \in {0, Replicas}

AllOf(p) == [k \in Dbs |-> p]

Init ==
    /\ pc = "idle" /\ todo = {} /\ want = 0 /\ faults = 0
    /\ superFile = "absent" /\ dump = "absent"
    /\ pwFile = AllOf(Absent)
    /\ heldFile = [s \in Held |-> "absent"]
    /\ secretsApp = "present" /\ gen = 0
    /\ app = AllOf(Original) /\ db = AllOf(Original)
    /\ held \in [Held -> BOOLEAN]
    /\ conn = [s \in Held |-> Absent]
    /\ restored = "absent" /\ replicas = Replicas

-----------------------------------------------------------------------------
(* Control flow of the script. *)

At(step) == pc = step
Goto(step) == pc' = step /\ todo' = {} /\ UNCHANGED <<want, faults>>
Loop(step, items) == pc' = step /\ todo' = items /\ UNCHANGED <<want, faults>>

\* Visited x in the loop of the current step; items is the next loop's range.
Visited(x, next, items) ==
    IF todo = {x} THEN Loop(next, items) ELSE Loop(pc, todo \ {x})

\* A command failed for a reason outside the script, or the operator stopped.
Fault ==
    /\ faults < MaxFaults
    /\ faults' = faults + 1
    /\ pc' = "idle" /\ todo' = {} /\ want' = 0

FaultOf(kind) == kind \in Faults /\ Fault

Stop ==
    /\ pc \notin {"idle", "done"}
    /\ Fault
    /\ UNCHANGED <<files, passwords, others>>

\* A run begins.  A dump left by an earlier run is used again: the operator
\* answers Continue (any other answer ends the run, which is no step at all).
Start == At("idle") /\ Goto("super") /\ UNCHANGED <<files, passwords, others>>

-----------------------------------------------------------------------------
(* Before anything is destroyed: save what the upgrade will need. *)

SaveSuperuserSecret ==
    /\ At("super") /\ Goto("backup")
    /\ superFile' = IF superFile = "absent" THEN "saved" ELSE superFile
    /\ UNCHANGED <<dump, pwFile, heldFile, passwords, others>>

\* `kubectl get ... > postgres_secret.yaml` creates the file, then fails.
SaveSuperuserSecretFails ==
    /\ At("super") /\ superFile = "absent"
    /\ FaultOf("get_fails")
    /\ superFile' = "empty"
    /\ UNCHANGED <<dump, pwFile, heldFile, passwords, others>>

BackupPostgres ==
    /\ At("backup")
    /\ IF dump = "absent"
         THEN dump' = "raw" /\ Goto("filter")
         ELSE UNCHANGED dump /\ Goto("install")
    /\ UNCHANGED <<superFile, pwFile, heldFile, passwords, others>>

\* pg_dumpall fails inside an `if`: the script reports it and goes on.
BackupPostgresFails ==
    /\ At("backup") /\ dump = "absent"
    /\ "dump_fails" \in Faults /\ faults < MaxFaults
    /\ faults' = faults + 1
    /\ pc' = "install" /\ UNCHANGED <<todo, want>>
    /\ UNCHANGED <<files, passwords, others>>

\* `kubectl cp` breaks off, leaving what it has copied so far.
CopyDumpFails ==
    /\ At("backup") /\ dump = "absent"
    /\ FaultOf("cp_fails")
    /\ dump' = "partial"
    /\ UNCHANGED <<superFile, pwFile, heldFile, passwords, others>>

\* The sed that drops the roles, and so their passwords, from the dump.
FilterDump ==
    /\ At("filter") /\ Goto("install")
    /\ dump' = "filtered"
    /\ UNCHANGED <<superFile, pwFile, heldFile, passwords, others>>

\* Download, OS configuration, RKE2, Gitea and ArgoCD packages.
UpgradePackages ==
    /\ At("install") /\ Goto("capture")
    /\ UNCHANGED <<files, passwords, others>>

PwFileEmpty == pwFile = AllOf(Absent)

\* A bug: every run saves the passwords it finds in the cluster.
CaptureAgain ==
    /\ At("capture") /\ Loop("hold", Held)
    /\ (\A k \in Dbs : app[k] # Absent) /\ pwFile' = app
    /\ UNCHANGED <<superFile, dump, heldFile, passwords, others>>

CapturePasswords ==
    /\ At("capture") /\ Loop("hold", Held)
    /\ IF PwFileEmpty
         THEN (\A k \in Dbs : app[k] # Absent) /\ pwFile' = app
         ELSE UNCHANGED pwFile
    /\ UNCHANGED <<superFile, dump, heldFile, passwords, others>>

\* The run dies while the lines are being written.
TornCapture ==
    /\ At("capture") /\ PwFileEmpty
    /\ \A k \in Dbs : app[k] # Absent
    /\ FaultOf("torn_write")
    /\ \E written \in SUBSET Dbs :
         pwFile' = [k \in Dbs |-> IF k \in written THEN app[k] ELSE Absent]
    /\ UNCHANGED <<superFile, dump, heldFile, passwords, others>>

\* A bug: the redirection is outside the `if`, and truncates the file of a
\* secret that an earlier run has taken out.
HoldTruncating(s) ==
    /\ At("hold") /\ s \in todo
    /\ Visited(s, "orch", {})
    /\ heldFile' = [heldFile EXCEPT ![s] = IF held[s] THEN "saved" ELSE "empty"]
    /\ held' = [held EXCEPT ![s] = FALSE]
    /\ UNCHANGED <<superFile, dump, pwFile, passwords>>
    /\ UNCHANGED <<conn, restored, replicas>>

\* A bug: without the `if`, a secret that is not deployed ends the run.
HoldRequired(s) ==
    /\ At("hold") /\ s \in todo
    /\ IF held[s]
         THEN /\ Visited(s, "orch", {})
              /\ heldFile' = [heldFile EXCEPT ![s] = "saved"]
              /\ held' = [held EXCEPT ![s] = FALSE]
         ELSE Goto("idle") /\ UNCHANGED <<heldFile, held>>
    /\ UNCHANGED <<superFile, dump, pwFile, passwords>>
    /\ UNCHANGED <<conn, restored, replicas>>

\* `get secret` then `get -o yaml > file` then `delete secret`.
HoldSecret(s) ==
    /\ At("hold") /\ s \in todo
    /\ Visited(s, "orch", {})
    /\ IF held[s]
         THEN /\ heldFile' = [heldFile EXCEPT ![s] = "saved"]
              /\ held' = [held EXCEPT ![s] = FALSE]
         ELSE UNCHANGED <<heldFile, held>>
    /\ UNCHANGED <<superFile, dump, pwFile, passwords>>
    /\ UNCHANGED <<conn, restored, replicas>>

\* The run ends between the redirection and the delete: with the yaml written,
\* or, when the second get fails, with an empty file.
HoldSecretStopped(s) ==
    /\ At("hold") /\ s \in todo /\ held[s]
    /\ Fault
    /\ \E f \in {"saved", "empty"} :
         /\ f = "empty" => "get_fails" \in Faults
         /\ heldFile' = [heldFile EXCEPT ![s] = f]
    /\ UNCHANGED <<superFile, dump, pwFile, passwords, others>>

\* apt upgrades onprem-orch-installer, root-app gets the new version, resync.
UpgradeOrchInstaller ==
    /\ At("orch") /\ Goto("reader")
    /\ UNCHANGED <<files, passwords, others>>

-----------------------------------------------------------------------------
(* Passwords are regenerated, then overwritten with the saved ones. *)

\* Loop without a limit until app-orch-catalog-reader-local-postgresql exists.
WaitReaderSecret ==
    /\ At("reader") /\ app[Catalog] # Absent
    /\ Goto("secretsapp")
    /\ UNCHANGED <<files, passwords, others>>

\* An application that is being deleted still shows its last status.
WaitSecretsApp ==
    /\ At("secretsapp")
    /\ secretsApp = "present" => \A k \in Dbs : app[k] # Absent
    /\ secretsApp # "gone"
    /\ Goto("delete")
    /\ UNCHANGED <<files, passwords, others>>

\* The finalizer patch needs the application: without it the run ends.
DeletePostgres ==
    /\ At("delete")
    /\ IF secretsApp = "gone"
         THEN Goto("idle") /\ UNCHANGED passwords
         ELSE /\ Goto("sleep")
              /\ secretsApp' = "deleting"
              /\ gen' = (gen % Gens) + 1
              /\ UNCHANGED <<app, db>>
    /\ UNCHANGED <<files, others>>

\* A bug: patching starts right after the delete.
NoSleep ==
    /\ At("sleep") /\ Loop("await", Dbs)
    /\ UNCHANGED <<files, passwords, others>>

\* `sleep 120` after the resync.  Unless the cascade may be slow it is over.
EndSleep ==
    /\ At("sleep")
    /\ "slow_cascade" \in Faults \/ secretsApp # "deleting"
    /\ Loop("await", Dbs)
    /\ UNCHANGED <<files, passwords, others>>

\* patch_secrets: the loop that waits for one secret after the other.
AwaitSecret(k) ==
    /\ At("await") /\ k \in todo
    /\ app[k] # Absent
    /\ Visited(k, "patchapp", Dbs)
    /\ UNCHANGED <<files, passwords, others>>

\* The password that is read from the file: empty if its line is not there.
FromFile(k) == IF pwFile[k] = Absent THEN Blank ELSE pwFile[k]

\* A bug: the value patched in is read from the cluster, not from the file.
PatchAppFromCluster(k) ==
    /\ At("patchapp") /\ k \in todo
    /\ app[k] # Absent
    /\ Visited(k, "patchdb", Dbs)
    /\ UNCHANGED <<files, passwords, others>>

PatchApp(k) ==
    /\ At("patchapp") /\ k \in todo
    /\ IF app[k] = Absent
         THEN Goto("idle") /\ UNCHANGED app
         ELSE /\ Visited(k, "patchdb", Dbs)
              /\ app' = [app EXCEPT ![k] = FromFile(k)]
    /\ UNCHANGED <<files, secretsApp, gen, db, others>>

\* The orch-database secrets are patched only if the catalog's exists.
PatchDb(k) ==
    /\ At("patchdb") /\ k \in todo
    /\ db[Catalog] # Absent \/ todo # Dbs
    /\ IF db[k] = Absent
         THEN Goto("idle") /\ UNCHANGED db
         ELSE /\ Visited(k, "superapply", {})
              /\ db' = [db EXCEPT ![k] = FromFile(k)]
    /\ UNCHANGED <<files, secretsApp, gen, app, others>>

SkipPatchDb ==
    /\ At("patchdb") /\ todo = Dbs /\ db[Catalog] = Absent
    /\ Goto("superapply")
    /\ UNCHANGED <<files, passwords, others>>

\* `yq ... postgres_secret.yaml | kubectl apply -f -` fails on empty input.
ApplySuperuserSecret ==
    /\ At("superapply")
    /\ IF superFile = "saved" THEN Goto("restore") ELSE Goto("idle")
    /\ UNCHANGED <<files, passwords, others>>

\* `kubectl cp` needs the local dump; psql ignores errors in the script it
\* replays, so a partial dump is restored like any other.
RestorePostgres ==
    /\ At("restore")
    /\ IF dump = "absent"
         THEN Goto("idle") /\ UNCHANGED restored
         ELSE Loop("reapply", Held) /\ restored' = dump
    /\ UNCHANGED <<files, passwords, held, conn, replicas>>

\* A bug: the test on the file's size is inverted.
ReapplyEmpty(s) ==
    /\ At("reapply") /\ s \in todo
    /\ Visited(s, "connect", Held)
    /\ held' = [held EXCEPT ![s] = @ \/ heldFile[s] = "empty"]
    /\ conn' = [conn EXCEPT ![s] = IF heldFile[s] = "empty" THEN Absent ELSE @]
    /\ UNCHANGED <<files, passwords, restored, replicas>>

\* vault_unseal has run; put back a secret whose file is not empty.
ReapplySecret(s) ==
    /\ At("reapply") /\ s \in todo
    /\ Visited(s, "connect", Held)
    /\ held' = [held EXCEPT ![s] = @ \/ heldFile[s] = "saved"]
    /\ conn' = [conn EXCEPT ![s] = IF heldFile[s] = "saved" THEN Absent ELSE @]
    /\ UNCHANGED <<files, passwords, restored, replicas>>

\* The connection string gets the password read from <s>-local-postgresql;
\* either secret missing ends the run.
PatchConnection(s) ==
    /\ At("connect") /\ s \in todo
    /\ IF held[s] /\ app[s] # Absent
         THEN /\ Visited(s, "restart", {})
              /\ conn' = [conn EXCEPT ![s] = app[s]]
         ELSE Goto("idle") /\ UNCHANGED conn
    /\ UNCHANGED <<files, passwords, held, restored, replicas>>

-----------------------------------------------------------------------------
(* restart_statefulset keycloak-tenant-controller-set *)

ScaleDown ==
    /\ At("restart")
    /\ pc' = "scaleup" /\ want' = replicas /\ UNCHANGED <<todo, faults>>
    /\ replicas' = 0
    /\ UNCHANGED <<files, passwords, held, conn, restored>>

\* A bug: one replica too many.
ScaleUpOneMore ==
    /\ At("scaleup") /\ Goto("done")
    /\ replicas' = want + 1
    /\ UNCHANGED <<files, passwords, held, conn, restored>>

ScaleUp ==
    /\ At("scaleup") /\ Goto("done")
    /\ replicas' = want
    /\ UNCHANGED <<files, passwords, held, conn, restored>>

-----------------------------------------------------------------------------
(* The cluster acts on its own. *)

\* The resources finalizer deletes the secrets one by one.
CascadeDelete(k) ==
    /\ secretsApp = "deleting" /\ app[k] # Absent
    /\ app' = [app EXCEPT ![k] = Absent]
    /\ db' = [db EXCEPT ![k] = Absent]
    /\ UNCHANGED <<script, files, secretsApp, gen, others>>

CascadeDone ==
    /\ secretsApp = "deleting" /\ \A k \in Dbs : app[k] = Absent
    /\ secretsApp' = "gone"
    /\ UNCHANGED <<script, files, gen, app, db, others>>

\* root-app's sync creates the application again.
RootAppSync ==
    /\ secretsApp = "gone"
    /\ secretsApp' = "present"
    /\ UNCHANGED <<script, files, gen, app, db, others>>

\* ArgoCD creates a missing secret with a fresh password; RespectIgnore-
\* Differences keeps it from touching the password of one that exists.
SyncSecret(k) ==
    /\ secretsApp = "present" /\ app[k] = Absent
    /\ app' = [app EXCEPT ![k] = gen]
    /\ db' = [db EXCEPT ![k] = gen]
    /\ UNCHANGED <<script, files, secretsApp, gen, others>>

\* A bug: selfHeal is off, only a missing StatefulSet would be made.
NoSelfHeal ==
    /\ replicas # Replicas
    /\ UNCHANGED vars

\* ArgoCD's selfHeal puts the chart's replica count back.
SelfHealReplicas ==
    /\ replicas # Replicas /\ replicas' = Replicas
    /\ UNCHANGED <<script, files, passwords, held, conn, restored>>

-----------------------------------------------------------------------------
Progress ==
    \/ Start \/ SaveSuperuserSecret \/ BackupPostgres \/ FilterDump
    \/ UpgradePackages \/ CapturePasswords \/ UpgradeOrchInstaller
    \/ (\E s \in Held : HoldSecret(s) \/ ReapplySecret(s) \/ PatchConnection(s))
    \/ WaitReaderSecret \/ WaitSecretsApp \/ DeletePostgres \/ EndSleep
    \/ (\E k \in Dbs : AwaitSecret(k) \/ PatchApp(k) \/ PatchDb(k))
    \/ SkipPatchDb \/ ApplySuperuserSecret \/ RestorePostgres
    \/ ScaleDown \/ ScaleUp

Failure ==
    \/ Stop \/ SaveSuperuserSecretFails \/ BackupPostgresFails
    \/ CopyDumpFails \/ TornCapture
    \/ \E s \in Held : HoldSecretStopped(s)

Controllers ==
    \/ CascadeDone \/ RootAppSync
    \/ \E k \in Dbs : CascadeDelete(k) \/ SyncSecret(k)

Next ==
    \/ Progress \/ Failure \/ Controllers
    \/ SelfHealReplicas

Spec == Init /\ [][Next]_vars

\* The script goes on when it can, the operator starts it again, and ArgoCD
\* keeps reconciling.
FairSpec ==
    Spec /\ WF_vars(Progress) /\ WF_vars(Controllers)
         /\ WF_vars(SelfHealReplicas)

-----------------------------------------------------------------------------
(* Safety.  Every property is about all runs of the script taken together. *)

\* The password file holds some of the passwords only.  Its size is not 0, so no
\* later run writes it again.
FileTorn == ~PwFileEmpty /\ \E k \in Dbs : pwFile[k] = Absent

\* No stop, however badly placed, loses a database password: the one in use
\* before the upgrade is in the cluster or in postgres-secrets-password.txt,
\* unless writing that file was itself interrupted.  A rerun must therefore
\* never capture regenerated passwords over saved ones, and nothing may delete
\* a secret before the capture.
PasswordsRecoverable ==
    FileTorn \/ \A k \in Dbs : app[k] = Original \/ pwFile[k] = Original

\* A finished upgrade has put the old passwords back on all sides: in the
\* secrets the applications read, in those CloudNativePG reads, and in the
\* connection strings of mps and rps, which also lived on disk meanwhile.
UpgradeKeepsPasswords ==
    pc = "done" =>
        /\ app = AllOf(Original) /\ db = AllOf(Original)
        /\ \A s \in Held : conn[s] = Original

\* Where the passwords, and the mps/rps secrets, have a usable copy.
PasswordCopies ==
    [k \in Dbs |-> {p \in {"cluster", "file"} :
        IF p = "cluster" THEN app[k] = Original ELSE pwFile[k] = Original}]

HeldCopies ==
    [s \in Held |-> {p \in {"cluster", "file"} :
        IF p = "cluster" THEN held[s] ELSE heldFile[s] = "saved"}]

PasswordCustody == INSTANCE Custody WITH Items <- Dbs, copies <- PasswordCopies
HeldCustody == INSTANCE Custody WITH Items <- Held, copies <- HeldCopies

\* The mps and rps secrets are taken out of the cluster and put back several
\* steps, and possibly several runs, later: at every moment each one that was
\* deployed is in the cluster or, as a whole, in its yaml file.
HeldInCustody == HeldCustody!Spec

\* The orchestrator to be upgraded has the mps and rps secrets.
Deployed == \A s \in Held : held[s]

\* With fairness the script also returns them: the passwords and the secrets
\* end up in the cluster and stay there.
PasswordsReturned == Deployed => <>[]PasswordCustody!InPlace
HeldReturned == Deployed => <>[]HeldCustody!InPlace

\* Once failures have stopped, starting the script again completes the
\* upgrade: no leftover of an interrupted run blocks every later one.
UpgradeCompletes == Deployed => <>(pc = "done")

\* A run stopped between the two scale commands leaves 0 replicas, which the
\* next run takes for the original count; the StatefulSet comes back at its
\* full size all the same.
ServiceRestored == Deployed => <>[](replicas = Replicas)

-----------------------------------------------------------------------------
(* What the script's comments and messages say. *)

\* "Restore completed successfully." (upgrade_postgres.sh:110): what was
\* replayed is a whole dump.
RestoredDumpIsWhole == restored # "partial"
=============================================================================
