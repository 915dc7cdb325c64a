-------------------------- MODULE ArgoSync_proofs --------------------------
(***************************************************************************)
(* The nested loops of after_upgrade_restart.sh make progress, for any     *)
(* number of applications, passes, retries and polls.  (That the script    *)
(* ends follows by fairness, which is left to TLC.)                        *)
(***************************************************************************)
EXTENDS ArgoSync, TLAPS

\* Where the script is tells which application it works on.
ChildSteps == {"app", "attempt", "sync", "syncing", "wait", "retry"}

Calls == {"none", "waits", "done", "failed"}

Control ==
    /\ pc \in {"app", "attempt"} => cur # Root
    /\ cur # Root => pc \in ChildSteps /\ pass < MaxPasses
    /\ pc = "cleanup" => ~cleaned
    /\ pc \in {"verify", "verifyapps"} => cleaned

IInv == TypeOK /\ Control

-----------------------------------------------------------------------------
(* What the commands do to the cluster, whatever they are applied to. *)

LEMMA SyncType ==
    ASSUME TypeOK, NEW ops \in [All -> {"idle", "running", "failed"}], Sync(ops)
    PROVE  op' \in [All -> {"idle", "running", "failed"}] /\ call' \in Calls
BY DEF TypeOK, Sync, Calls

\* Terminating operations and cleaning jobs keep the types.
LEMMA CommandTypes ==
    ASSUME TypeOK, NEW a \in All
    PROVE  /\ Terminated(a) \in [All -> {"idle", "running", "failed"}]
           /\ Cleaned(a) \in [Children -> BOOLEAN]
           /\ a = cur =>
                /\ OpsBeforeSync \in [All -> {"idle", "running", "failed"}]
                /\ JobsBeforeSync \in [Children -> BOOLEAN]
BY DEF TypeOK, Terminated, Cleaned, OpsBeforeSync, JobsBeforeSync, Root, All

\* So does handling a failed sync of the current application.
LEMMA HandleFailedSyncType ==
    ASSUME TypeOK, HandleFailedSync
    PROVE  /\ op' \in [All -> {"idle", "running", "failed"}]
           /\ job' \in [Children -> BOOLEAN]
           /\ call' \in Calls
BY CommandTypes, SyncType DEF HandleFailedSync, TypeOK, Calls

ClusterOK ==
    /\ app \in [All -> {"green", "red", "absent"}]
    /\ op \in [All -> {"idle", "running", "failed"}]
    /\ job \in [Children -> BOOLEAN]
    /\ jobFaults \in 0..JobFaults
    /\ call \in Calls

ControlOK ==
    /\ pc \in Steps /\ pass \in 0..MaxPasses /\ cur \in All
    /\ attempt \in 1..MaxRetries /\ polls \in 0..Polls /\ cleaned \in BOOLEAN

\* Types of the cluster and of the script's own counters.
LEMMA TypeParts == TypeOK <=> ClusterOK /\ ControlOK
BY DEF TypeOK, ClusterOK, ControlOK, Calls

\* Both halves of the script's and ArgoCD's steps keep the cluster's types.
LEMMA ScriptClusterStep == ASSUME IInv, Script PROVE ClusterOK'
<1> USE CommandTypes DEF IInv, TypeOK, ClusterOK, Calls, cluster
<1>1. CASE NamespaceGreen \/ PassListsNothing \/ StartPass \/ PassesUsedUp
           \/ AlreadyGreen \/ WaitTimeout \/ WaitOn \/ WaitOpFailed
           \/ WaitGreen \/ VerifyRoot \/ VerifyApps
  BY <1>1 DEF NamespaceGreen, PassListsNothing, StartPass, PassesUsedUp,
     AlreadyGreen, WaitTimeout, WaitOn, WaitOpFailed, WaitGreen, VerifyRoot,
     VerifyApps
<1>2. CASE BeforeApp \/ RootNotGreen \/ RootSkipped
  <2>1. CASE HandleFailedSync /\ UNCHANGED <<app, jobFaults>>
    BY <2>1, HandleFailedSyncType
  <2>2. CASE /\ UNCHANGED <<app, job, jobFaults, call>>
             /\ op' \in {op, Terminated(Root)}
    <3>1. Root \in All
      BY ArgoSyncAssumption DEF Root, All
    <3> QED
      BY <2>2, <3>1
  <2> QED
    BY <1>2, <2>1, <2>2 DEF BeforeApp, RootNotGreen, RootSkipped
<1>3. CASE PrepareSync
  BY <1>3 DEF PrepareSync
<1>4. CASE SyncStarts
  BY <1>4 DEF SyncStarts
<1>5. CASE SyncDone
  BY <1>5 DEF SyncDone
<1>6. CASE SyncFails \/ SyncSkipped
  BY <1>6 DEF SyncFails, SyncSkipped, SyncError
<1>7. CASE WaitJobFailed
  BY <1>7, SyncType DEF WaitJobFailed
<1>8. CASE Retry
  BY <1>8 DEF Retry
<1>9. CASE PostUpgradeCleanup
  BY <1>9 DEF PostUpgradeCleanup
<1> QED
  BY <1>1, <1>2, <1>3, <1>4, <1>5, <1>6, <1>7, <1>8, <1>9 DEF Script

\* ArgoCD leaves the script's counters alone.
LEMMA ArgoCDStep ==
    ASSUME IInv, ArgoCD PROVE ClusterOK' /\ UNCHANGED <<pc, script>>
<1> USE DEF IInv, TypeOK, ClusterOK, Calls
<1>1. ASSUME NEW a \in All, OpSucceeds(a)
      PROVE  ClusterOK' /\ UNCHANGED <<pc, script>>
  BY <1>1 DEF OpSucceeds, Remade, Answered
<1>2. ASSUME NEW a \in All,
             OpFails(a) \/ AutoSync(a) \/ Degrades(a) \/ Recovers(a)
      PROVE  ClusterOK' /\ UNCHANGED <<pc, script>>
  BY <1>2 DEF OpFails, AutoSync, Degrades, Recovers, Answered
<1>3. ASSUME NEW a \in Children, JobFails(a)
      PROVE  ClusterOK' /\ UNCHANGED <<pc, script>>
  <2>1. jobFaults' \in 0..JobFaults
    BY <1>3, ArgoSyncAssumption DEF JobFails
  <2>2. job' \in [Children -> BOOLEAN]
    BY <1>3 DEF JobFails
  <2> QED
    BY <1>3, <2>1, <2>2 DEF JobFails
<1>4. CASE CallDrops
  BY <1>4 DEF CallDrops, Answered
<1> QED
  BY <1>1, <1>2, <1>3, <1>4 DEF ArgoCD
-----------------------------------------------------------------------------
(* The script's own variables. *)

\* Moving on is typed, and leaves less to do.
LEMMA ProceedStep ==
    ASSUME IInv, Proceed,
           pc \in {"attempt", "sync", "syncing", "wait", "retry", "root"}
    PROVE  /\ ControlOK' /\ Control'
           /\ \/ Phase' < Phase
              \/ Phase' = Phase /\ pass' > pass
              \/ Phase' = Phase /\ pass' = pass /\ AppsLeft' < AppsLeft
<1> USE ArgoSyncAssumption DEF IInv, TypeOK, ControlOK, Control, Steps,
    ChildSteps, Children, All, Root, Phase, Ended, AppsLeft
<1>1. CASE cur \in Children /\ cur < N
  BY <1>1 DEF Proceed
<1>2. CASE cur = N
  BY <1>2 DEF Proceed
<1>3. CASE cur = Root
  BY <1>3 DEF Proceed
<1> QED
  BY <1>1, <1>2, <1>3

\* Another attempt, or the next application: the counters stay in range.
LEMMA NextAttemptStep ==
    ASSUME IInv, NextAttempt, pc \in {"sync", "syncing", "retry"}
    PROVE  /\ ControlOK' /\ Control'
           /\ \/ Phase' < Phase
              \/ Phase' = Phase /\ pass' > pass
              \/ Phase' = Phase /\ pass' = pass /\ AppsLeft' < AppsLeft
              \/ /\ Phase' = Phase /\ pass' = pass /\ AppsLeft' = AppsLeft
                 /\ attempt' > attempt
<1>1. CASE attempt = MaxRetries
  BY <1>1, ProceedStep DEF NextAttempt
<1>2. CASE attempt # MaxRetries
  BY <1>2, ArgoSyncAssumption DEF NextAttempt, IInv, TypeOK, ControlOK, Control,
     Steps, ChildSteps, Children, All, Root, Phase, Ended, AppsLeft
<1> QED
  BY <1>1, <1>2

\* What the disjuncts above and below amount to.
LessWork ==
    \/ Phase' < Phase
    \/ Phase' = Phase /\ pass' > pass
    \/ Phase' = Phase /\ pass' = pass /\ AppsLeft' < AppsLeft
    \/ /\ Phase' = Phase /\ pass' = pass /\ AppsLeft' = AppsLeft
       /\ attempt' > attempt
    \/ /\ Phase' = Phase /\ pass' = pass /\ AppsLeft' = AppsLeft
       /\ attempt' = attempt /\ StepsLeft' < StepsLeft
    \/ /\ Phase' = Phase /\ pass' = pass /\ AppsLeft' = AppsLeft
       /\ attempt' = attempt /\ StepsLeft' = StepsLeft /\ polls' > polls

\* Each step of the script keeps its counters and its position together.
LEMMA ScriptControlStep ==
    ASSUME IInv, Script
    PROVE  ControlOK' /\ Control' /\ (WaitJobFailed \/ LessWork)
<1> USE ArgoSyncAssumption DEF IInv, TypeOK, ControlOK, Control, Steps,
    ChildSteps, Children, All, Root, script, LessWork, At
<1>1. CASE NamespaceGreen \/ PassListsNothing \/ StartPass \/ PassesUsedUp
  BY <1>1 DEF NamespaceGreen, PassListsNothing, StartPass, PassesUsedUp, Phase,
     Ended, AppsLeft
<1>2. CASE BeforeApp \/ PrepareSync
  BY <1>2 DEF BeforeApp, PrepareSync, Phase, Ended, AppsLeft, StepsLeft
<1>3. CASE AlreadyGreen \/ SyncSkipped \/ WaitGreen \/ RootSkipped
  BY <1>3, ProceedStep DEF AlreadyGreen, SyncSkipped, SyncError, WaitGreen,
     RootSkipped
<1>4. CASE SyncFails \/ Retry
  BY <1>4, NextAttemptStep DEF SyncFails, SyncError, Retry
<1>5. CASE SyncStarts \/ SyncDone \/ WaitTimeout \/ WaitOpFailed \/ WaitOn
  <2>1. CASE SyncDone
    BY <2>1 DEF SyncDone, Phase, Ended, AppsLeft, StepsLeft
  <2>2. CASE WaitTimeout
    BY <2>2 DEF WaitTimeout, Phase, Ended, AppsLeft, StepsLeft
  <2>3. CASE WaitOpFailed
    BY <2>3 DEF WaitOpFailed, Phase, Ended, AppsLeft, StepsLeft
  <2>4. CASE WaitOn
    BY <2>4 DEF WaitOn, Phase, Ended, AppsLeft, StepsLeft
  <2>5. CASE SyncStarts
    BY <2>5 DEF SyncStarts, Phase, Ended, AppsLeft, StepsLeft
  <2> QED BY <1>5, <2>1, <2>2, <2>3, <2>4, <2>5
<1>6. CASE WaitJobFailed
  BY <1>6 DEF WaitJobFailed
<1>7. CASE RootNotGreen
  BY <1>7 DEF RootNotGreen, Phase, Ended, AppsLeft, StepsLeft
<1>8. CASE PostUpgradeCleanup
  BY <1>8 DEF PostUpgradeCleanup, Phase, Ended
<1>9. CASE VerifyRoot \/ VerifyApps
  BY <1>9 DEF VerifyRoot, VerifyApps, Phase, Ended, AppsLeft, StepsLeft
<1> QED
  BY <1>1, <1>2, <1>3, <1>4, <1>5, <1>6, <1>7, <1>8, <1>9 DEF Script
-----------------------------------------------------------------------------
(* The invariant and the theorems. *)

LEMMA InductiveInit == Init => IInv
<1> SUFFICES ASSUME Init PROVE IInv
  OBVIOUS
<1>1. app \in [All -> {"green", "red", "absent"}]
  BY DEF Init
<1>2. pc \in Steps /\ cleaned \in BOOLEAN
  BY DEF Init, Steps
<1>4. /\ pass \in 0..MaxPasses /\ attempt \in 1..MaxRetries
      /\ polls \in 0..Polls /\ jobFaults \in 0..JobFaults
  BY ArgoSyncAssumption DEF Init
<1>5. cur \in All
  BY ArgoSyncAssumption DEF Init, All, Root
<1>3. op \in [All -> {"idle", "running", "failed"}]
      /\ job \in [Children -> BOOLEAN] /\ call = "none"
  BY DEF Init
<1> QED
  BY <1>1, <1>2, <1>3, <1>4, <1>5 DEF IInv, TypeOK, Control, Init

\* Each step, of the script or of ArgoCD, keeps the invariant.
LEMMA InductiveStep == IInv /\ [Next]_vars => IInv'
<1> SUFFICES ASSUME IInv, [Next]_vars PROVE IInv'
  OBVIOUS
<1>1. CASE Script
  BY <1>1, ScriptClusterStep, ScriptControlStep
     DEF IInv, TypeOK, ClusterOK, ControlOK, Calls
<1>2. CASE ArgoCD
  BY <1>2, ArgoCDStep
     DEF IInv, TypeOK, ClusterOK, Calls, Control, script
<1>3. CASE UNCHANGED vars
  BY <1>3 DEF IInv, TypeOK, Control, vars, script, cluster
<1> QED
  BY <1>1, <1>2, <1>3 DEF Next

\* The step's type and the invariant hold in every state of a behaviour.
THEOREM Inductive == Spec => []IInv
<1> QED
  BY InductiveInit, InductiveStep, PTL DEF Spec

\* The script and the cluster it works on keep their types, for any number of
\* applications, passes, retries and polls.
THEOREM TypeCorrect == Spec => []TypeOK
<1>1. IInv => TypeOK
  BY DEF IInv
<1> QED
  BY <1>1, Inductive, PTL

\* What is left of a limit shrinks when more of it is used.
LEMMA MoreUsedLessLeft ==
    ASSUME NEW limit \in Int, NEW used \in Int, NEW after \in Int, after > used
    PROVE  limit - after < limit - used
OBVIOUS

\* The first component that differs decides.
LEMMA FirstDifference ==
    ASSUME NEW v, NEW w,
           \/ v[1] < w[1]
           \/ v[1] = w[1] /\ v[2] < w[2]
           \/ v[1] = w[1] /\ v[2] = w[2] /\ v[3] < w[3]
           \/ v[1] = w[1] /\ v[2] = w[2] /\ v[3] = w[3] /\ v[4] < w[4]
           \/ /\ v[1] = w[1] /\ v[2] = w[2] /\ v[3] = w[3] /\ v[4] = w[4]
              /\ v[5] < w[5]
           \/ /\ v[1] = w[1] /\ v[2] = w[2] /\ v[3] = w[3] /\ v[4] = w[4]
              /\ v[5] = w[5] /\ v[6] < w[6]
    PROVE  Less(v, w)
<1> DEFINE Same(i) == \A j \in 1..(i - 1) : v[j] = w[j]
<1>1. 1..0 = {} /\ 1..1 = {1} /\ 1..2 = {1, 2} /\ 1..3 = {1, 2, 3}
      /\ 1..4 = {1, 2, 3, 4} /\ 1..5 = {1, 2, 3, 4, 5}
  OBVIOUS
<1>2. PICK i \in 1..6 : v[i] < w[i] /\ Same(i)
  <2>1. CASE v[1] < w[1]
    <3>1. Same(1)
      OBVIOUS
    <3> QED
      BY <2>1, <3>1
  <2>2. CASE v[1] = w[1] /\ v[2] < w[2]
    <3>1. Same(2)
      BY <1>1, <2>2
    <3> QED
      BY <2>2, <3>1
  <2>3. CASE v[1] = w[1] /\ v[2] = w[2] /\ v[3] < w[3]
    <3>1. Same(3)
      BY <1>1, <2>3
    <3> QED
      BY <2>3, <3>1
  <2>4. CASE v[1] = w[1] /\ v[2] = w[2] /\ v[3] = w[3] /\ v[4] < w[4]
    <3>1. Same(4)
      BY <1>1, <2>4
    <3> QED
      BY <2>4, <3>1
  <2>5. CASE /\ v[1] = w[1] /\ v[2] = w[2] /\ v[3] = w[3] /\ v[4] = w[4]
             /\ v[5] < w[5]
    <3>1. Same(5)
      BY <1>1, <2>5
    <3> QED
      BY <2>5, <3>1
  <2>6. CASE /\ v[1] = w[1] /\ v[2] = w[2] /\ v[3] = w[3] /\ v[4] = w[4]
             /\ v[5] = w[5] /\ v[6] < w[6]
    <3>1. Same(6)
      BY <1>1, <2>6
    <3> QED
      BY <2>6, <3>1
  <2> QED
    BY <2>1, <2>2, <2>3, <2>4, <2>5, <2>6
<1> QED
  BY <1>2 DEF Less

\* The order of the components of Work is the order of LessWork.
LEMMA LessWorkIsLess == ASSUME IInv, IInv', LessWork PROVE Less(Work', Work)
<1>1. /\ Work[1] = Phase /\ Work[2] = MaxPasses - pass /\ Work[3] = AppsLeft
      /\ Work[4] = MaxRetries - attempt /\ Work[5] = StepsLeft
      /\ Work[6] = Polls - polls
  BY DEF Work
<1>2. /\ Work'[1] = Phase' /\ Work'[2] = MaxPasses - pass'
      /\ Work'[3] = AppsLeft' /\ Work'[4] = MaxRetries - attempt'
      /\ Work'[5] = StepsLeft' /\ Work'[6] = Polls - polls'
  BY DEF Work
<1>3. /\ pass' > pass => MaxPasses - pass' < MaxPasses - pass
      /\ attempt' > attempt => MaxRetries - attempt' < MaxRetries - attempt
      /\ polls' > polls => Polls - polls' < Polls - polls
  <2>1. pass \in Int /\ pass' \in Int /\ MaxPasses \in Int
    BY ArgoSyncAssumption DEF IInv, TypeOK
  <2>2. attempt \in Int /\ attempt' \in Int /\ MaxRetries \in Int
    BY ArgoSyncAssumption DEF IInv, TypeOK
  <2>3. polls \in Int /\ polls' \in Int /\ Polls \in Int
    BY ArgoSyncAssumption DEF IInv, TypeOK
  <2> QED
    BY <2>1, <2>2, <2>3, MoreUsedLessLeft
<1> QED
  BY <1>1, <1>2, <1>3, FirstDifference DEF LessWork

\* No step of the script's loops goes back: passes, applications, attempts,
\* the steps of an attempt and polls are used up in that order, whatever ArgoCD
\* does and kubectl answers, except that a failed job restarts the wait.
THEOREM WorkAlwaysShrinks == Spec => WorkShrinks
<1>1. ASSUME IInv, IInv', [Next]_vars
      PROVE  [ArgoCD \/ WaitJobFailed \/ Less(Work', Work)]_vars
  BY <1>1, ScriptControlStep, LessWorkIsLess DEF Next
<1> QED
  BY <1>1, Inductive, PTL DEF Spec, WorkShrinks
=============================================================================
