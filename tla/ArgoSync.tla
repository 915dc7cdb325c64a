------------------------------ MODULE ArgoSync ------------------------------
(***************************************************************************)
(* on-prem-installers/onprem/after_upgrade_restart.sh: after an upgrade,   *)
(* bring every ArgoCD application to Healthy and Synced.                   *)
(*                                                                         *)
(* The script runs alone, but against a cluster that ArgoCD keeps changing *)
(* and that it only sees through kubectl.  It reads the status of an       *)
(* application, decides, and acts some seconds later.                      *)
(*                                                                         *)
(* Application 0 is root-app, 1..N are the others in sync-wave order.      *)
(***************************************************************************)
EXTENDS Integers

CONSTANTS
    N,          \* how many applications root-app has
    ServerSide, \* SERVER_SIDE_APPS
    Recreated,  \* those post_upgrade_cleanup deletes (tenancy-api-mapping, ...)
    MaxRetries, \* APP_MAX_RETRIES
    MaxPasses,  \* max_retries of sync_until_green_ns_exclude_root
    Polls,      \* APP_MAX_WAIT / GLOBAL_POLL_INTERVAL
    JobFaults,  \* bound: how often the job of an application fails
    Stubborn    \* applications whose job fails without bound

Root == 0
Children == 1..N
All == 0..N

ASSUME ArgoSyncAssumption ==
    /\ N \in Nat \ {0}
    /\ ServerSide \subseteq Children
    /\ Recreated \subseteq Children /\ Stubborn \subseteq Children
    /\ MaxRetries \in Nat \ {0} /\ MaxPasses \in Nat \ {0}
    /\ Polls \in Nat \ {0} /\ JobFaults \in Nat

VARIABLES
    pc,        \* the script's step
    pass,      \* retry_count
    cur,       \* the application being synced
    attempt,   \* attempts made for it
    polls,     \* elapsed time since start_ts, in poll intervals
    cleaned,   \* post_upgrade_cleanup has run
    app,       \* Healthy and Synced, not so, or no such application
    op,        \* the phase of its sync operation
    job,       \* whether one of its jobs is Degraded
    jobFaults, \* failures of jobs so far
    call       \* whether the script waits for `argocd app sync` of cur, and
               \* the outcome where the script looks at it

script == <<pass, cur, attempt, polls, cleaned>>
cluster == <<app, op, job, jobFaults, call>>
vars == <<pc, script, cluster>>

Steps == {"passes", "app", "attempt", "sync", "syncing", "wait", "retry",
          "root", "cleanup", "verify", "verifyapps", "exit0", "exit1"}

TypeOK ==
    /\ pc \in Steps
    /\ pass \in 0..MaxPasses
    /\ cur \in All
    /\ attempt \in 1..MaxRetries
    /\ polls \in 0..Polls
    /\ cleaned \in BOOLEAN
    /\ app \in [All -> {"green", "red", "absent"}]
    /\ op \in [All -> {"idle", "running", "failed"}]
    /\ job \in [Children -> BOOLEAN]
    /\ jobFaults \in 0..JobFaults
    /\ call \in {"none", "waits", "done", "failed"}

Init ==
    /\ pc = "passes" /\ pass = 0 /\ cur = Root /\ attempt = 1 /\ polls = 0
    /\ cleaned = FALSE
    /\ app \in [All -> {"green", "red"}]
    /\ op = [a \in All |-> "idle"]
    /\ job = [a \in Children |-> FALSE]
    /\ jobFaults = 0 /\ call = "none"

Present == {a \in All : app[a] # "absent"}
Green(a) == app[a] = "green"
AllGreen(as) == \A a \in as \cap Present : Green(a)

\* The script is at a step and not held up by a sync.
At(step) == pc = step /\ call # "waits"

-----------------------------------------------------------------------------
(* Commands on the cluster. *)

\* argocd app terminate-op, and what the operation leaves behind.
Terminated(a) == [op EXCEPT ![a] = "idle"]

\* clean_unhealthy_jobs_for_app: root-app has no jobs of its own.
Cleaned(a) == [x \in Children |-> job[x] /\ x # a]

\* root-app's sync makes the applications that are missing.
Remade(a) ==
    IF a = Root
      THEN [x \in All |-> IF app[x] = "absent" THEN "red" ELSE app[x]]
      ELSE app

\* `argocd app sync` of the current application, on the operations given.  It
\* is refused, or starts an operation and waits for its end: no --timeout.
Sync(ops) ==
    \/ /\ app[cur] # "absent" /\ ops[cur] # "running"
       /\ op' = [ops EXCEPT ![cur] = "running"] /\ call' = "waits"
    \/ op' = ops /\ UNCHANGED call

-----------------------------------------------------------------------------
(* sync_until_green_ns_exclude_root and the loop over the applications *)

\* The namespace reads as green, also when kubectl fails and nothing is read.
NamespaceGreen ==
    /\ At("passes") /\ pass < MaxPasses
    /\ pc' = "root" /\ UNCHANGED <<script, cluster>>

\* sync_all_apps_exclude_root finds no application when kubectl fails.
PassListsNothing ==
    /\ At("passes") /\ pass < MaxPasses /\ ~AllGreen(Children)
    /\ pass' = pass + 1
    /\ UNCHANGED <<pc, cur, attempt, polls, cleaned, cluster>>

StartPass ==
    /\ At("passes") /\ pass < MaxPasses /\ ~AllGreen(Children)
    /\ pc' = "app" /\ cur' = 1
    /\ UNCHANGED <<pass, attempt, polls, cleaned, cluster>>

PassesUsedUp ==
    /\ At("passes") /\ pass = MaxPasses
    /\ pc' = "root" /\ UNCHANGED <<script, cluster>>

\* "Proceeding to next app", or on from root-app.
Proceed ==
    /\ polls' = 0 /\ attempt' = 1 /\ UNCHANGED cleaned
    /\ \/ /\ cur \in Children /\ cur < N
          /\ pc' = "app" /\ cur' = cur + 1 /\ UNCHANGED pass
       \/ /\ cur = N
          /\ pc' = "passes" /\ pass' = pass + 1 /\ cur' = Root
       \/ /\ cur = Root
          /\ pc' = IF cleaned THEN "verify" ELSE "cleanup"
          /\ UNCHANGED <<pass, cur>>

\* A bug: one attempt too many.
OneAttemptMore ==
    IF attempt > MaxRetries
      THEN Proceed
      ELSE /\ attempt' = attempt + 1 /\ polls' = 0
           /\ pc' = IF cur = Root THEN "sync" ELSE "attempt"
           /\ UNCHANGED <<pass, cur, cleaned>>

\* attempt++: root-app's loop does not look at its status again.
NextAttempt ==
    IF attempt = MaxRetries
      THEN Proceed
      ELSE /\ attempt' = attempt + 1 /\ polls' = 0
           /\ pc' = IF cur = Root THEN "sync" ELSE "attempt"
           /\ UNCHANGED <<pass, cur, cleaned>>

\* check_and_handle_failed_sync.  Without a status nothing is done.
\* (check_and_fix_crd_version_mismatch refreshes at most.)
HandleFailedSync ==
    \/ UNCHANGED <<op, job, call>>
    \/ /\ op[cur] = "failed"
       /\ job' = Cleaned(cur)
       /\ Sync(Terminated(cur))

BeforeApp ==
    /\ At("app")
    /\ HandleFailedSync
    /\ pc' = "attempt" /\ UNCHANGED <<script, app, jobFaults>>

AlreadyGreen ==
    /\ At("attempt") /\ Green(cur)
    /\ Proceed /\ UNCHANGED cluster

\* What was seen to fail is cleaned up; without a status nothing is.
PrepareSync ==
    /\ At("attempt")
    /\ \/ /\ ~Green(cur)
          /\ job' = Cleaned(cur)
          /\ op' = IF op[cur] = "failed" THEN Terminated(cur) ELSE op
       \/ UNCHANGED <<job, op>>
    /\ pc' = "sync" /\ UNCHANGED <<script, app, jobFaults, call>>

\* What is terminated or restarted before the sync command: root-app's own
\* operation, and for SERVER_SIDE_APPS theirs, with root-app's sync restarted.
OpsBeforeSync ==
    IF cur = Root THEN Terminated(Root)
    ELSE IF cur \in ServerSide
           THEN [Terminated(cur) EXCEPT ![Root] = "running"]
           ELSE op

JobsBeforeSync == IF cur \in ServerSide THEN Cleaned(cur) ELSE job

SyncStarts ==
    /\ At("sync") /\ app[cur] # "absent" /\ OpsBeforeSync[cur] # "running"
    /\ op' = [OpsBeforeSync EXCEPT ![cur] = "running"]
    /\ job' = JobsBeforeSync
    /\ call' = "waits" /\ pc' = "syncing"
    /\ UNCHANGED <<script, app, jobFaults>>

\* start_ts is taken before the sync.
SyncDone ==
    /\ At("syncing") /\ call = "done" /\ call' = "none"
    /\ polls' \in 0..Polls /\ pc' = "wait"
    /\ UNCHANGED <<pass, cur, attempt, cleaned, app, op, job, jobFaults>>

\* The sync is refused, or it ends in an error.
SyncError ==
    \/ /\ At("sync") /\ op' = OpsBeforeSync /\ job' = JobsBeforeSync
       /\ UNCHANGED call
    \/ /\ At("syncing") /\ call = "failed" /\ call' = "none"
       /\ UNCHANGED <<op, job>>

\* A bug: `continue` without attempt++.
SyncAgain ==
    /\ SyncError
    /\ pc' = IF cur = Root THEN "sync" ELSE "attempt"
    /\ UNCHANGED <<script, app, jobFaults>>

SyncFails == SyncError /\ NextAttempt /\ UNCHANGED <<app, jobFaults>>

\* "... is deleting. Skipping further attempts."
SyncSkipped == SyncError /\ Proceed /\ UNCHANGED <<app, jobFaults>>

-----------------------------------------------------------------------------
(* Polling until the application is green, APP_MAX_WAIT seconds at most. *)

JobFailed == cur \in Children /\ job[cur]

WaitTimeout ==
    /\ At("wait") /\ polls = Polls
    /\ pc' = "retry" /\ UNCHANGED <<script, cluster>>

\* A bug: start_ts is taken inside the loop.
WaitFromNow ==
    /\ At("wait") /\ polls < Polls
    /\ polls' = 0
    /\ UNCHANGED <<pc, pass, cur, attempt, cleaned, cluster>>

\* No status could be read, or the application is not green yet.
WaitOn ==
    /\ At("wait") /\ polls < Polls
    /\ polls' = polls + 1
    /\ UNCHANGED <<pc, pass, cur, attempt, cleaned, cluster>>

\* A failed job is deleted, the sync started again, and so is the timer.
WaitJobFailed ==
    /\ At("wait") /\ polls < Polls /\ JobFailed
    /\ job' = Cleaned(cur)
    /\ Sync(Terminated(cur))
    /\ polls' = 1
    /\ UNCHANGED <<pc, pass, cur, attempt, cleaned, app, jobFaults>>

WaitOpFailed ==
    /\ At("wait") /\ polls < Polls /\ ~JobFailed /\ op[cur] = "failed"
    /\ pc' = "retry" /\ UNCHANGED <<script, cluster>>

WaitGreen ==
    /\ At("wait") /\ polls < Polls /\ ~JobFailed /\ op[cur] # "failed"
    /\ Green(cur)
    /\ Proceed /\ UNCHANGED cluster

Retry ==
    /\ At("retry") /\ NextAttempt
    /\ IF attempt < MaxRetries
         THEN job' = Cleaned(cur) /\ op' = Terminated(cur)
         ELSE UNCHANGED <<job, op>>
    /\ UNCHANGED <<app, jobFaults, call>>

-----------------------------------------------------------------------------
(* root-app, the cleanup, and the exit code *)

\* root-app is not there (or not readable), or it was green when it was read:
\* the status read first decides, whatever check_and_handle_failed_sync does.
RootSkipped ==
    /\ At("root")
    /\ \/ UNCHANGED <<op, job, call>>
       \/ Green(Root) /\ HandleFailedSync
    /\ Proceed /\ UNCHANGED <<app, jobFaults>>

RootNotGreen ==
    /\ At("root") /\ ~Green(Root)
    /\ \/ HandleFailedSync
       \/ /\ op[Root] = "failed" /\ op' = Terminated(Root)
          /\ UNCHANGED <<job, call>>
    /\ pc' = "sync" /\ UNCHANGED <<script, app, jobFaults>>

\* delete_app for each, between stopping root-app's sync and starting it.
PostUpgradeCleanup ==
    /\ At("cleanup")
    /\ app' = [a \in All |-> IF a \in Recreated THEN "absent" ELSE app[a]]
    /\ op' = [a \in All |-> IF a \in Recreated THEN "idle"
                            ELSE IF a = Root THEN "running" ELSE op[a]]
    /\ job' = [a \in Children |-> job[a] /\ a \notin Recreated]
    /\ cleaned' = TRUE /\ pc' = "root"
    /\ UNCHANGED <<pass, cur, attempt, polls, jobFaults, call>>

\* check_sync_success: root-app is read first, then all applications.
VerifyRoot ==
    /\ At("verify")
    /\ \/ Green(Root) /\ pc' = "verifyapps"
       \/ pc' = "exit1"
    /\ UNCHANGED <<script, cluster>>

\* A listing that fails counts no application that is not healthy.
VerifyApps ==
    /\ At("verifyapps")
    /\ \/ ~AllGreen(All) /\ pc' = "exit1"
       \/ pc' = "exit0"
    /\ UNCHANGED <<script, cluster>>

-----------------------------------------------------------------------------
(* ArgoCD *)

\* What the script is told, if it waits for a's operation and looks.
Answered(a, outcome) ==
    call' = IF call = "waits" /\ a = cur
              THEN IF pc = "syncing" THEN outcome ELSE "none"
              ELSE call

\* The application's health may lag behind.
OpSucceeds(a) ==
    /\ op[a] = "running" /\ app[a] # "absent"
    /\ \E health \in {"green", "red"} : app' = [Remade(a) EXCEPT ![a] = health]
    /\ op' = [op EXCEPT ![a] = "idle"] /\ Answered(a, "done")
    /\ UNCHANGED <<pc, script, job, jobFaults>>

OpFails(a) ==
    /\ op[a] = "running" /\ op' = [op EXCEPT ![a] = "failed"]
    /\ Answered(a, "failed")
    /\ UNCHANGED <<pc, script, app, job, jobFaults>>

\* The connection to the server is lost; the operation goes on.
CallDrops ==
    /\ call = "waits" /\ Answered(cur, "failed")
    /\ UNCHANGED <<pc, script, app, op, job, jobFaults>>

\* A bug: argo.autosync is off.
NoAutoSync(a) == a \notin All /\ UNCHANGED vars

\* syncPolicy.automated with selfHeal.
AutoSync(a) ==
    /\ app[a] = "red" /\ op[a] # "running"
    /\ op' = [op EXCEPT ![a] = "running"]
    /\ UNCHANGED <<pc, script, app, job, jobFaults, call>>

JobFails(a) ==
    /\ app[a] = "red" /\ ~job[a]
    /\ a \in Stubborn \/ jobFaults < JobFaults
    /\ job' = [job EXCEPT ![a] = TRUE]
    /\ jobFaults' = IF a \in Stubborn THEN jobFaults ELSE jobFaults + 1
    /\ UNCHANGED <<pc, script, app, op, call>>

Degrades(a) ==
    /\ Green(a) /\ app' = [app EXCEPT ![a] = "red"]
    /\ UNCHANGED <<pc, script, op, job, jobFaults, call>>

\* root-app is compared with what it should consist of.
Recovers(a) ==
    /\ app[a] = "red"
    /\ IF a = Root THEN Present = All ELSE ~job[a]
    /\ app' = [app EXCEPT ![a] = "green"]
    /\ UNCHANGED <<pc, script, op, job, jobFaults, call>>

-----------------------------------------------------------------------------
Script ==
    \/ NamespaceGreen \/ PassListsNothing \/ StartPass \/ PassesUsedUp
    \/ BeforeApp \/ AlreadyGreen \/ PrepareSync
    \/ SyncStarts \/ SyncDone \/ SyncFails \/ SyncSkipped
    \/ WaitTimeout \/ WaitOn \/ WaitJobFailed \/ WaitOpFailed \/ WaitGreen
    \/ Retry \/ RootSkipped \/ RootNotGreen \/ PostUpgradeCleanup
    \/ VerifyRoot \/ VerifyApps

ArgoCD ==
    \/ \E a \in All :
         \/ OpSucceeds(a) \/ OpFails(a)
         \/ AutoSync(a) \/ Degrades(a) \/ Recovers(a)
    \/ \E a \in Children : JobFails(a)
    \/ CallDrops

Next == Script \/ ArgoCD

Spec == Init /\ [][Next]_vars

\* The script goes on until it ends.  ArgoCD notices that root-app is not as
\* it should be, starts a sync, and does not fail at it forever.
FairSpec ==
    /\ Spec /\ WF_vars(Script)
    /\ WF_vars(Present # All /\ Degrades(Root))
    /\ WF_vars(AutoSync(Root)) /\ SF_vars(OpSucceeds(Root))

-----------------------------------------------------------------------------
(* Properties *)

Ended == pc \in {"exit0", "exit1"}

\* The five nested loops end: the script exits whatever ArgoCD and kubectl do,
\* as long as each sync it waits for ends somehow and no job fails again after
\* each cleanup.
Ends == []<>(call # "waits") => <>Ended

\* What the script has left to do, the outermost loop first.
Phase ==
    IF Ended THEN 0 ELSE IF pc \in {"verify", "verifyapps"} THEN 1
    ELSE IF pc = "cleanup" THEN 3
    ELSE IF cur = Root /\ pc # "passes" THEN (IF cleaned THEN 2 ELSE 4)
    ELSE 5

StepsLeft ==
    CASE pc \in {"passes", "app", "root", "verify"} -> 5
      [] pc = "attempt" -> 4 [] pc = "sync" -> 3 [] pc = "syncing" -> 2
      [] pc = "wait" -> 1
      [] OTHER -> 0

AppsLeft == IF cur = Root THEN N + 1 ELSE N - cur

Work == <<Phase, MaxPasses - pass, AppsLeft, MaxRetries - attempt, StepsLeft,
          Polls - polls>>

Less(v, w) ==
    \E i \in 1..6 : v[i] < w[i] /\ \A j \in 1..(i - 1) : v[j] = w[j]

\* Every step of the script leaves less to do; only the cleanup of a failed
\* job while waiting may not, because it starts the timer again.
WorkShrinks == [][ArgoCD \/ WaitJobFailed \/ Less(Work', Work)]_vars

\* An application deleted by the cleanup comes back, although the script
\* terminates the very operation of root-app that brings it back (the templates
\* still have it).  The header says otherwise: "Delete obsolete applications"
\* (after_upgrade_restart.sh:18).
DeletedAppsReturn == \A a \in Recreated : app[a] = "absent" ~> app[a] # "absent"
=============================================================================
