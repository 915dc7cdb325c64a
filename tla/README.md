# Edge Manageability Framework: TLA+ models, checks and proofs

This directory holds TLA+ models of the parts of this repository whose
correctness depends on order, interruption and time. Everything is translated
from the source; paths below are relative to `src/`. `PROJECT.json` lists the
runs, the theorems, the hazards and, for each definition, the source lines it
stands for.

    tlc -config OnpremUpgradeFaults.cfg MCOnpremUpgrade   # a run
    tlapm OnpremUpgrade_proofs.tla                        # the proofs of a module

## 1. Inventory

The repository installs, upgrades and tests the Edge Orchestrator: a set of
about 100 ArgoCD applications on Kubernetes. Most of it is configuration; the
logic is in shell scripts and Go programs that drive a cluster *which changes
on its own*. They keep almost no state in memory: what survives a run is in
files of the working directory and in the cluster.

| Component | State it keeps | Operations | What is hard | What makes it correct | Here |
|---|---|---|---|---|---|
| **On-prem upgrade** `on-prem-installers/onprem/onprem_upgrade.sh`, `upgrade_postgres.sh` | `postgres_secret.yaml`, dump, `postgres-secrets-password.txt`, `mps_secret.yaml`, `rps_secret.yaml`; secrets in the cluster | save, back up, capture, hold, upgrade packages, delete, patch, restore, reapply, restart | stops anywhere under `set -e` and is run again; ArgoCD deletes and regenerates secrets meanwhile | no password and no secret is ever without a copy; a finished upgrade has the old ones everywhere | `OnpremUpgrade`, `Custody` |
| **ArgoCD resync** `after_upgrade_restart.sh` | loop counters, a timer; application status is re-read | sync every application with retries, delete failed jobs, delete and re-create some applications, verify | five nested loops over a status that changes between reading and acting | it ends; each step uses up work; deleted applications return | `ArgoSync` |
| **RKE2 upgrade** `on-prem-installers/mage/upgrade.go`, `internal/retry/retry.go` | the path, DEPLOYMENT_TIMEOUT (one budget for all waits) | determine the path, apply a Plan, wait for version, condition, taint; clean up | reruns find jobs of an earlier run; late answers; two reads of one node | one minor version at a time; plans do not overlap; waits stay in the budget | `Rke2Upgrade` |
| **ArgoCD manifests** `argocd/` (106 templates, sync waves) | syncPolicy, ignoreDifferences, finalizers | read by ArgoCD | what ArgoCD does to the scripts' changes | selfHeal and RespectIgnoreDifferences as the scripts assume | the parts used by the two upgrade models |
| **Deployment to kind** `mage/deploy.go`, `argo.go`, `router.go`, `vault.go`, `wait.go`, `config.go` | the kind cluster, secrets and accounts, `.gitea-proxy`, `vault-keys.json`, the generated definition, the argocd session, the router, the trusted CA | deploy:kind and its variants, gitea, argocd, orchLocal, router, wait, proxies, unseal, undeploy | each command is a process with passwords of its own, stops anywhere, and finds what others left | a redeployment works; secrets match accounts; what runs is connected to the cluster that runs | `KindDeploy` |
| **Tenancy utilities** `mage/tenant_utils.go`, `keycloak_utils.go`, roles of `dev_utils.go`, `e2e-tests/.../tenancy_helpers.go`, `user_helpers.go` | objects of the tenancy data model, Keycloak's users, groups, roles and admin | create and delete org, project, users; give and take roles; reset the admin password | half finished creations repeated; deletion racing watchers; groups and roles that appear late | what is reported as made is complete; the admin password has one value; commands return | `Tenancy` |
| **Edge nodes** `mage/edge_cluster.go`, `co_utils.go`, `dev_utils.go`, edge network, on-prem and VEN targets of `Magefile.go`; `e2e-tests/.../onboarding_manager.go`, `o11y_helpers.go` | the ENiC release, stateful set and pod, hosts, clusters, the kubectl context and entry; terraform's states, libvirt's machines, `resolved.conf`; ids a test keeps | deploy and remove ENiC with a cluster, register, provision, label; build and remove the local network, pool, machines; onboard a host; maintenance mode | every pod has another UUID; the context is switched and stays switched on failure; files and machines are left behind; a saga of calls is undone from recorded ids | a cluster runs on the node that runs; redeployment works; the machine's own resolver is kept; tests take back what they set | `EdgeNode` |
| **Storage backup** `onprem/storage_backup.sh` | syncPolicy of the applications, replica counts | disable sync, scale, back up/restore, enable sync | root-app must be disabled first and enabled last | sync is on again at the end | not modelled yet |
| **Unsealing on-prem** `onprem/vault_unseal.sh` | the pod, its seal, the key secret | delete pod, wait, unseal three times | the old pod is still Running when the new one is looked for | unsealed at the end, no restart loop | not modelled yet |
| **On-prem installation** `onprem_orch_install.sh`, `pre-`/`post-orch-install.sh`, `functions.sh`, ... | `onprem.env`, runtime variables | download with retries, write configuration, install packages, wait | reruns over half written files; `set -e` with arithmetic | rerun equals one run | not modelled yet |
| **Registry checks** `mage/test.go` | two slices under a mutex | check all images and charts concurrently | collecting failures with errgroup | every failure is reported once | not modelled yet |
| **Configuration** `mage/generate.go`, `onprem/generate_cluster_yaml.sh` | none | render files from presets | - | text | not modelled: pure rendering |
| **Installer packages** `on-prem-installers/cmd/*`, `mage/deploy.go`, `build.go` | files on the host | seed Gitea, apply ArgoCD, prepare the host | - | - | not modelled: one-shot I/O |
| **Release helpers, secrets, PKI, terraform, ci, tools** | - | - | - | - | not modelled: build automation, I/O, infrastructure |
| **End-to-end tests** `e2e-tests/` | - | - | - | - | helpers that change state: `Tenancy`, `EdgeNode`; the rest was read for what the system promises |

How they interact: `onprem_upgrade.sh` calls `upgrade_postgres.sh` and
`vault_unseal.sh`, installs the packages whose post-install step runs
`Upgrade.Rke2Cluster`, changes secrets and applications in the cluster, and ends
by starting `after_upgrade_restart.sh`. All of them talk to each other only
through the working directory and the cluster, and ArgoCD (root-app creates
the other applications; each application creates its resources) is the other
actor in every one of them.

The hazards, each at its line and with the property that would catch it, are in
`PROJECT.json` under `hazards`.

## 2. Modules

| Module | Stands for | Proofs |
|---|---|---|
| `OnpremUpgrade` | `onprem_upgrade.sh`, `upgrade_postgres.sh` | `OnpremUpgrade_proofs` |
| `Custody` | what an upgrade promises about what it moves (abstract) | refinement in `OnpremUpgrade_proofs` |
| `ArgoSync` | `after_upgrade_restart.sh` | `ArgoSync_proofs` |
| `Rke2Upgrade` | `mage/upgrade.go`, `retry.go` | `Rke2Upgrade_proofs` |
| `Command` | how a mage target runs: a program of named steps, one error ends it | `Command_proofs` (lemmas) |
| `Tenancy` | `tenant_utils.go`, `keycloak_utils.go`, roles of `dev_utils.go`, test helpers | `Tenancy_proofs`, `TenancyUsers_proofs` |
| `KindDeploy` | `deploy.go`, `argo.go`, `router.go`, `vault.go`, `wait.go`, `config.go`, their targets | `KindDeploy_proofs` |
| `EdgeNode` | `edge_cluster.go`, `co_utils.go`, ENiC of `dev_utils.go`, network, on-prem and VEN targets, test helpers | `EdgeNode_proofs` |
| `MCOnpremUpgrade`, `MCArgoSync`, `MCRke2Upgrade`, `MCTenancy`, `MCKindDeploy`, `MCEdgeNode` | constants for TLC | |

Definitions whose comment begins with "A bug:" are not part of a specification.
Each is a plausible mistake in the definition that follows it, and shows that a
property notices when the code is changed that way.

### OnpremUpgrade

`pc` is the step of the script, `todo` the rest of its current loop. The
working directory (`superFile`, `dump`, `pwFile`, `heldFile`) and the cluster
(`app`, `db`, `held`, `conn`, `secretsApp`, `replicas`, `restored`) survive a
run; `Stop` ends a run anywhere, and `Start` begins the next from the first
line. A password is a number: 0 is the old one, others were generated by the
chart; `Blank` is the empty password that a torn file makes the script patch.

- Saving: `SaveSuperuserSecret` (:712), `BackupPostgres`, `FilterDump`
  (`upgrade_postgres.sh`:45-64), `CapturePasswords` (:845), `HoldSecret` (:872).
  Failures that leave something behind have an action of their own
  (`...Fails`, `TornCapture`, `HoldSecretStopped`), switched by `Faults`.
- Regenerating: `DeletePostgres` deletes the application postgresql-secrets;
  ArgoCD's `CascadeDelete`, `CascadeDone`, `RootAppSync`, `SyncSecret` run
  beside the script.
- Restoring: `AwaitSecret`, `PatchApp`, `PatchDb` (`patch_secrets`, :995),
  `ApplySuperuserSecret`, `RestorePostgres`, `ReapplySecret`, `PatchConnection`,
  `ScaleDown`, `ScaleUp`.

Abstracted: package downloads, OS settings and the upgrades of RKE2, Gitea and
ArgoCD are one step (`UpgradePackages`); the waits for single applications are
one wait. Each `app` entry stands for a password secret and its reader twin,
which the script patches side by side.

`Custody` says only that an item with a copy keeps one, in the cluster or in a
file. The run checks, and `HeldRefinesCustody` proves, that the handling of
the mps and rps secrets implements it (`HeldInCustody`), under every failure.

### ArgoSync

`pc`, `pass`, `cur`, `attempt`, `polls`, `cleaned` are the script's loops from
the outermost to the timer; application 0 is root-app. `call` is where an
`argocd app sync` stands: it returns when the operation has ended, and the
script waits for it without a limit. The cluster is a health
(`app`), an operation phase (`op`) and a failed job (`job`) per application. The
script reads a status and acts on it later: where it tolerates a failing
kubectl, the action allows both outcomes. ArgoCD's actions can happen between
any two steps.

Abstracted: CLI installation, login, DKAM certificates. `GLOBAL_SYNC_RETRIES` is
1, so the branch at :1730-1748 that retries the whole script cannot run and has
no action. An application has one flag for its jobs, so the deletion of a job
cannot be confused with the job that replaces it (hazard at :515).

### Rke2Upgrade

A version is a pair (minor, patch). `Start` and `Last` are
`determineUpgradePath`: the path is a slice of `Listed`, `next` its position.
`left` is DEPLOYMENT_TIMEOUT in polls of five seconds, written back after each
wait; `Elapse` is the deadline of `retry.UntilItSucceeds`, looked at before each
attempt, so that an answer can come late by one poll. The
system-upgrade-controller (external) runs a `job` for the `plan`: cordon,
replace, uncordon. Deleting a Plan, or changing it, may leave its job, which then is one of the `strays`: `Setup` asks for the
deletion and looks neither at its outcome nor at the jobs. `Apart` is an
assumption on the controller: a job starts only when no other one is left. What
depends on it says so.

Assumptions (`Rke2Assumption`): the list increases by supported steps, has an
entry of each minor version from its first to the target's, and holds the
target. Nothing is assumed of the version that is installed.
`determineUpgradePath` falls back to the first entry of the same minor
version, or to the start of the list: from a version that is older than the
list by more than a minor version the first step skips one, and from one that is
newer than the target it leads back (`OutOfRange`, section 6). From every other
version each step is supported.

### Command

A command is `cmd` with its argument `arg`; `todo` is the sequence of steps left
of its program, `job` the local variables, `ticks` what is left of the current
wait. A step that returns an error ends the command (`Return(FALSE)`); the next
one begins with what the world has become. `Tenancy`, `KindDeploy` and
`EdgeNode` extend it: their `Program` lists, per target, the calls in the order
of the code, and each kind of step is an action. `fails` counts calls that fail;
`Half` lists, per call, what a failure or an interruption may leave half done.

### Tenancy

`org` and `project` are nodes of the tenancy data model: a status that the
tenancy manager moves (`ServeOrg`, `ServeProject`) and a deletion mark that it
notices later. `users` maps a user to its grants: the account, the password,
groups, roles. `Jobs` says which users a step makes and with which grants in
which order; `EndPass` is a pass of `ManageRoles`. A group or a role exists only
while its owner is provided. `kc` holds the three copies of the admin's
password: the secret, what the pod was started with, the database.

### KindDeploy

`cluster` is the number of the command that made the kind cluster; passwords,
the session and the CA are numbers of commands too, so that what is stale shows
in a comparison. `Things` are made by one command line each, and the table says
what each needs, when it is asked for and whether it may be made twice. Steps
with an effect of their own (Gitea's accounts, ArgoCD's login, the router, the
CA, the proxies, Vault's shares, the wait for applications) have actions.

### EdgeNode

`enic` is the release, ArgoCD's application, the stateful set and the pod, whose
number stands for its UUID. `job.uuid` and `job.guid` are what was read of it,
at different times. `kube` is the kubectl context and the entry of the edge
cluster. `tf` is what terraform has on record, `vms` and `disks` what libvirt has:
the machines, and the disks in the pool, which cannot be destroyed while it
holds one. They may differ: the disk of a virtual edge node stays when the
node is undefined, and terraform that is interrupted behind a disk leaves one
that is on record nowhere (`"lost"`). `dns` has the file, the backup and what the
running resolver has read; a copy (`"short"`) or a file (`"cut"`) that was cut
short is a value of its own. `mm` has
the ids that a test has recorded and what it has made. The three families of
`MCEdgeNode` share no state, so a run that mixes them shows nothing that a run
of one does not.

ORCH_ORG, ORCH_PROJECT and the like are as the commands set them; a person who
sets others is outside the model.

## 3. Runs

| Run | Question | Result |
|---|---|---|
| `upgrade_faults` | Does any failure, or two, in any order with reruns, leave a password or a held secret without a copy? | No: `PasswordsRecoverable`, `HeldInCustody` hold (2.8 million states). |
| `upgrade_live` | When the failures have stopped, does starting the script again finish the upgrade with the old passwords everywhere? | Yes: `UpgradeKeepsPasswords`, `UpgradeCompletes`, `PasswordsReturned`, `HeldReturned`, `ServiceRestored`. |
| `upgrade_partial_dump` | "Restore completed successfully." - of a whole dump? | No: a copy that broke off is taken for a finished backup by the next run. |
| `upgrade_torn_passwords` | The same as `UpgradeKeepsPasswords`, when the password file may be torn | No: a non-empty file is taken for a complete one. |
| `argo_sync` | Do the loops end, whatever ArgoCD does, if each `argocd app sync` returns, and what becomes of the deleted applications? | They end: `Ends`, `WorkShrinks`. The applications come back: `DeletedAppsReturn`. |
| `argo_sync_stubborn` | ... also when one job fails again after each cleanup? | No: the wait's timer is started again each time, so the retry limit never applies. |
| `rke2_upgrade` | From every version, with failures, timeouts and reruns: stepwise, within the time, and, in a first run, without overlap? | Yes: `UpgradesStepwise`, `WaitsWithinBudget`, `RunsReturn`, `OneUpgradeAtATime`. |
| `rke2_rerun` | Does success mean the upgrade has been completed? | No: a rerun sees the target version and returns while the node is still cordoned. |
| `tenancy` | Any three of seventeen commands, one call failing: are users complete, roles as asked, is the admin password one, do commands return? | Yes: `MadeUsersAreComplete`, `RolesAsAsked`, `SecretLogsIn`, `CommandsReturn`. |
| `tenancy_rerun` | Are the users of a project complete when a rerun reports success? | No: a user that a failed run has left without password or groups is found and skipped. |
| `kind_deploy` | Any three commands on a kind cluster, one call failing half way: does what one leaves mislead the next? | No: `RedeployWorks`, `DeploymentIsConnected`, `GiteaSecretsMatchAccounts`, `ProxyIsOnFile`, `UnsealedWhenReported`, `DegradedIsReported`. |
| `edge_node` | Any three commands on edge nodes, on the machine, or of the onboarding tests, one call failing or one pod lost: are clusters on their node, is everything taken back, does a redeployment work? | Yes: `ClusterRunsOnItsNode`, `EnicRedeploys`, `ResolverKept`, `OnPremRedeploys`, `MaintenanceUndone`, `CommandsReturn`. |

The five runs that end in a violation are the entries of `findings` in `PROJECT.json`.

Bounds and why they are enough:

- `upgrade_faults`: three databases (the catalog, whose secrets the script
  probes, and the two whose secrets also live on disk), two failures, one generation. Two failures
  are needed for the interesting runs (one leaves something behind, another
  hits the run that finds it); the theorems remove the bounds. `upgrade_live` uses two generations, so that
  a regenerated password differs from both the old and an earlier one.
- `Gens` is used cyclically: more generations would only be more values that
  are not the old one.
- `argo_sync`: two applications, one server-side and one re-created, two
  attempts, passes and polls, one failing job: every loop goes round, and every
  limit is reached.
- `rke2_upgrade`: the list of the source, every version in it and others before,
  between and behind its entries, three runs, a budget of four polls
  (instantaneous answers let all six versions fit, and every wait can time
  out), `Apart`. A first run meets no other job, so `OneUpgradeAtATime` does not
  depend on `Apart`, and `UpgradesStepwise` depends on it in reruns only;
  the theorems hold for both of its values.
- `tenancy`, `kind_deploy`, `edge_node`: three commands, one failure. The shapes
  they must reach are: something stands, a command stops half way, the same or
  another is run over it; that takes three. `tenancy_rerun` has a fourth for
  the organization and the project, with the commands it needs only. One tick
  per wait lets every wait be short enough and too short; two shares, both
  needed, one pass more than one (`Tries` = 2), two projects and one label are
  the smallest numbers at which an order or a mix-up shows.

CHECK_DEADLOCK is off because scripts end.

Fairness:

- `OnpremUpgrade!FairSpec`: the script goes on and is started again after a
  stop (`WF(Progress)`); ArgoCD reconciles (`WF(Controllers)`) and heals the
  replica count (`WF(SelfHealReplicas)`, `selfHeal: true` in the template). Not
  assumed: that any failure ever happens, or does not.
- `ArgoSync!FairSpec`: the script goes on (`WF(Script)`); ArgoCD notices that
  root-app lacks an application, starts a sync (`automated`), and does not
  fail at it forever (`SF(OpSucceeds(Root))`: the script may terminate the
  operation, or ArgoCD fail it, any finite number of times). `Ends` needs only the first,
  and says itself what it asks of ArgoCD: that no sync waits for ever.
- `Rke2Upgrade!FairSpec`: the program, once running, goes on. Nothing is assumed
  of the cluster; the operator need not start another run.
- `Tenancy`, `KindDeploy`, `EdgeNode!FairSpec`: `WF(Step)`, a process goes on.
  Nothing is assumed of the services, of ArgoCD, or of a person who would run
  another command: the `CommandsReturn` properties hold because of the limits
  in the code. Three waits of `EdgeNode` have none (`Unlimited`); its
  `CommandsReturn` therefore leaves out a command that stays at one of these,
  with ArgoCD's application not ready or kubectl at another cluster, and says so
  of these steps alone: every other step of every command returns.
  `DegradedIsReported` holds because the poll goes on. It is about Degraded
  applications only: for any other one the limit counts from ReconciledAt
  (`wait.go`:146-149), which ArgoCD refreshes, so that it may never elapse, although
  `wait.go`:41-43 speaks of every application that is not green.

Two choices matter. `CompletableFaults` leaves out `get_fails`: an empty
`postgres_secret.yaml` passes the test for existence at :713 and makes every
later run fail at the apply, so `UpgradeCompletes` would be false. And the runs
with fairness leave out `slow_cascade`, i.e. they assume that the `sleep 120`
at :1124 outlasts ArgoCD's deletion of the secrets; `upgrade_faults` does not.

## 4. Proofs

All theorems hold for every value of the constants that satisfies the module's
named assumption, and are checked with tlapm to the last leaf.

**`OnpremUpgrade_proofs`**
- `TypeCorrect`: `TypeOK`.
- `PasswordsAreRecoverable`: `PasswordsRecoverable`. It is not inductive: that a
  secret may be patched or deleted is safe only because the file was written
  before. `RecoverInv` adds that the file holds old passwords only, and that
  while it is empty no run has come past the capture and nothing has touched
  the secrets.
- `UpgradeKeepsAllPasswords`: without torn writes, and with the cascade over in
  time, `UpgradeKeepsPasswords`. `KeepInv` says, per step, which passwords are
  already back, and that postgresql-secrets is not being deleted from
  `await` on, so that nothing patched disappears.
- `HeldRefinesCustody`: initial states map to initial states of `Custody`, each
  step to a step or a stutter.

**`ArgoSync_proofs`**
- `TypeCorrect`: `TypeOK`; needs `Control`, which ties the application being
  synced to the step (an application is being synced only while passes are left).
- `WorkAlwaysShrinks`: each step of the script lowers the lexicographic measure
  `Work`, except `WaitJobFailed`. With fairness this is why `Ends` holds; that
  last inference is left to TLC.

**`Rke2Upgrade_proofs`**
- `Inductive`: `IInv` = `TypeOK`, `InPath` (the program does not pass the target),
  `Stepwise` (if jobs are kept apart, or in a first run: there is one job at
  most, `OneJob`, and a plan or a job that is ahead of the node is for the next
  version, and then the program is installing it too, `InStep`), `Spending`
  (time spent and time left add up to the budget), `FirstRun` (the node is
  cordoned exactly while a job runs).
- From it `TypeCorrect`, `BudgetIsKept` (`WaitsWithinBudget`),
  `NodeIsUpgradedStepwise` (`UpgradesStepwise`), `PlansDoNotOverlap`
  (`OneUpgradeAtATime`). The lemmas about `Start` and `Last` show that the
  path continues with the next listed version, and that its first step is
  supported unless the version is `OutOfRange`.

**`Command_proofs`** has the lemmas that the three modules below share: joining
sequences keeps what is said of each place (`Joining`), and leaving steps behind
leaves a rest of the program whose head is known (`HeadOfRest`, `Advancing`).
A command is then known by its place: `Len(todo)` says which step is next and
which are done. Invariants are stated per place, and the proof that a program
really has its steps at these places (it is put together from parts, as the
targets call each other) is a set of lemmas of its own.

**`Tenancy_proofs`, `TenancyUsers_proofs`**
- `TypeCorrect`: `TypeOK`; needs that a command runs the rest of its program, and
  that the loop over users is within the users of its step.
- `SecretIsKept`: `SecretLogsIn`. `Custody` says, per step of the password
  commands, which of the three copies (secret, pod's environment, database)
  agree by then.
- `RolesAreAsAsked` (`RolesAsAsked`): `RolesDone` says so of the roles that the
  current pass went over, unless one failed or went with its owner.
- `MadeUsersAreDone` (`MadeUsersAreComplete`): `AllMade`. All users made so far have
  all grants, the current one has those gone over; a grant that went with its
  owner does not come back, because an owner is only added before the users
  that need it.

**`KindDeploy_proofs`**
- `TypeCorrect`: `TypeOK`.
- `ForwardsAreOnFile` (`ProxyIsOnFile`): `Pids` follows the pid through stop,
  start and save.
- `UnsealIsReported` (`UnsealedWhenReported`): `Given` ties the counter of the
  loop to the shares that the replica has.
- `ConnectedInTheEnd` (`DeploymentIsConnected`) and `RedeploySucceeds`
  (`RedeployWorks`): `Deploying` says, for each of the 37 places of a
  deployment, what has been made by then, for whatever an earlier command has
  left: each step finds what it needs, and nothing it cannot bear.
- `AccountsHaveTheirSecrets` (`GiteaSecretsMatchAccounts`): `Accounting` follows
  the users of Gitea one by one.

**`EdgeNode_proofs`**
- `Inductive`: `IInv` = `Turn` (the rest of a program in which every step is where
  it belongs: `Linked`), `Types`, `Dns`. From it `TypeCorrect` (`TypeOK`) and
  `OwnResolverIsKept` (`ResolverKept`). `ResolverKept` is not inductive: that the
  file may be overwritten is safe only because the step before has saved
  it, and that it may be saved only because the one before that has found no
  backup; `Dns` says so of the step that is next. `ResolverChanges` lists what
  may happen to the file in a step, and `OwnSurvives` that it is lost only when
  a backup that was cut short is put back.
- `OnPremIsMadeAgain` (`OnPremRedeploys`): `Cleared` says at which of the eleven
  steps the machine and the disks are gone and the network and the pool are
  made, as long as no disk is an orphan (`Orphans`).
- `MaintenanceIsUndone` (`MaintenanceUndone`): `Tidy` relates what the test has made
  to the ids on record and to the steps that are left, in the test and in its
  clean-up, which may begin at any place of the test.
- `ClusterIsOnItsNode` (`ClusterRunsOnItsNode`) and `EnicIsMadeAgain`
  (`EnicRedeploys`): `Deploying` says, for each of the 28 places of a deployment
  of ENiC, what has been brought about by then. The old release, its stateful set
  and its pod go in an order that lets nothing bring the old pod back; the new
  pod's UUID was registered nowhere; the UUID that is read is that of the pod
  that runs; the cluster and the kubeconfig entry are made for that node. All of
  it is kept while ArgoCD, the pods and the cluster API act between any two
  steps.

Assumptions added for these proofs: the commands that a run takes are targets
that have a program (`CommandsAssumption`; there are no other), and a wait
has at least one tick (`Ticks > 0` in `KindDeploy`: the login to ArgoCD is tried at
least once, see `deploy.go`:202; without it a deployment
would fail by this wait alone).

Only model-checked: liveness (`UpgradeCompletes`, `PasswordsReturned`,
`HeldReturned`, `ServiceRestored`, `Ends`, `DeletedAppsReturn`, `RunsReturn`, the
`CommandsReturn` of two modules, `DegradedIsReported`), because the prover does
not handle fairness and ENABLED. Every other property of a run that passes is
stated by a theorem.

No module uses RECURSIVE operators and no proof uses induction over data, which
is out of the prover's reach too: the programs are finite sequences whose places
are named one by one.

## 5. Plan

Done: all modules of section 2, with proofs.

Theorem worth proving next: that `onprem_upgrade.sh` composed with
`after_upgrade_restart.sh` keeps the passwords (the second only syncs and
deletes applications that own none).

Models that remain, in this order: `onprem/storage_backup.sh` against ArgoCD's
selfHeal; `onprem/vault_unseal.sh`; the installer's environment file; jobs with
identities in `ArgoSync` (hazard at :515); the helpers of `onprem_upgrade.sh`
that report a timeout and return success (:248-476), and a second upgrade over
the files of the first.

## 6. Not modelled

Text (configuration, YAML, messages; `generate.go` is nothing else),
certificates, downloads, cloud infrastructure, the services the clients call,
and the Kubernetes and ArgoCD controllers beyond what the programs observe;
build, lint, test and publish targets. In `Tenancy`, `KindDeploy` and
`EdgeNode`: commands run one at a time, as the person at the machine runs them;
two people, or two machines, are not modelled.

Observed on the way, without a run. The first five are disagreements with what
the repository says of itself; each follows from an action of the model.

- `after_upgrade_restart.sh`:17-18 says that obsolete applications
  (tenancy-api-mapping, tenancy-datamodel) are deleted. Both are still among
  argocd's templates, enabled by multitenant_gateway
  (`orch-configs/profiles/enable-platform.yaml`:30), and `delete_app` ends by
  syncing root-app (:435-436): they come back, as `DeletedAppsReturn` says.
- The calls of `argocd app sync` (:395, 1085, 1090, 1133, 1249) have no
  `--timeout`; APP_MAX_WAIT is looked at after them only. An operation that stays
  Running holds the script up for ever, where the header promises exit code 1
  (:41). `Ends` names it as its premise.
- `check_sync_success` (:1685) counts the lines of `kubectl | jq | wc -l`: when
  kubectl fails there are none, and the script prints "All applications are
  Healthy+Synced" (:1697) and exits with 0. The passes end early in the same way
  (:1335). `VerifyApps` and `NamespaceGreen` have both outcomes.
- `mage/upgrade.go`:272 says that the path only has necessary intermediate
  versions. From a patch of 1.34 newer than the target's it is `[v1.34.4]`, a
  downgrade; from another minor version that is not listed it is the whole list,
  from v1.30.14 on (:316-331). It is the exception (`OutOfRange`) of
  `UpgradesStepwise`.
- `mage/upgrade.go`:74-79 ignores every error of the deletion of the Plans, and
  waits for no job: a rerun after a timeout applies the next Plan while the job
  for the version before still has the node cordoned. `OneUpgradeAtATime` is
  therefore about first runs.

- `onprem_upgrade.sh`:1171-1174: the message "All database user passwords
  updated successfully" has no code behind it.
- `mage/wait.go`:128: one listing in which every application is green ends the
  wait, also when root-app has not created all of them yet; no property is
  stated on what a success promises.
- `mage/Magefile.go`:1419 returns an error when the login to ArgoCD has succeeded;
  `router.go`:200 tests `err` where `errDown` was assigned; the day of
  `checkExternalDeps` (`router.go`) is 24 minutes.
- `saveGatewayTLSSecret` and its restoration do nothing for the target "aws".
- `mage/Magefile.go`:559 removes the pid file also when the process could not be
  ended; after a failed call `ProxyIsOnFile` is therefore not claimed.
- A failed command between `use:edgeCluster` and `use:orch` leaves kubectl at
  the edge cluster; every later deployment fails at `GetProject` until use:orch
  is run, and waitForEnic, whose loop has no limit, then never ends. Both are
  the conditions of `EnicRedeploys` and `CommandsReturn`.
- `getEdgeAndApiUsers` (`tenant_utils.go`:1063) returns the users listed last, of
  whatever project of the organization, and no error when there are none.
- Hosts of earlier pods are never deleted; a deployment in one project leaves
  the cluster of another on a node that is gone.
- A failed restart of systemd-resolved in undeploy:edgeNetworkDNS is not made up
  for by a rerun, which finds no backup and returns: `ResolverKept` therefore
  says only without failures what the running resolver has read.
- A copy of `resolved.conf` that was cut short (`Magefile.go`:719) has the final
  name: deploy:edgeNetworkDNS and undeploy:edgeNetworkDNS, which begin by looking
  for it (:341), move it over the file that is still whole (:346), and the
  machine's own file is lost. It is the exception that `ResolverKept` names.
- A `resolved.conf` that is cut short while it is written is in place until the
  backup is put back; `ResolverKept` is about the machine's own file only.
- undeploy:VEN undefines the machine and leaves its disk in pool edge
  (`Magefile.go`:454, 1190), although :443 says it destroys the nodes. The pool is
  then not empty, its destruction fails, and with it undeploy:onPrem (:376, 384)
  and deploy:onPrem, which begins with it. The same holds for a disk that
  terraform was interrupted behind. It is the condition (`Orphans`) of
  `OnPremRedeploys`.
- Disks of virtual edge nodes and lost disks have to be removed by hand
  (`virsh vol-delete`) before the pool can be destroyed; the model's pool is
  destroyed or not, what libvirt leaves of one that is stopped but not
  deleted is not modelled.
- createDefaultClusterTemplate fails at its POST when a former run has failed
  behind it.
- The terraform state of a virtual edge node is in a directory that is removed;
  undeploy:VEN ignores errors; the loop that fetches the certificate
  (`Magefile.go`:1054) also ends, without an error, when there is none.
- `infra_test.go`:174 says "Stop retrying" where `UntilItSucceeds` goes on.
- CreateOrg, run again, succeeds as soon as the organization has an id, active
  or not; DeleteOrg takes every error of the lookup for "not present".
