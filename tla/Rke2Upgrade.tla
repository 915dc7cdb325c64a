---------------------------- MODULE Rke2Upgrade ----------------------------
(***************************************************************************)
(* on-prem-installers/mage/upgrade.go: upgrading RKE2 on the single node   *)
(* of an on-prem cluster, one Kubernetes minor version after the other.    *)
(*                                                                         *)
(* For each version of the path the program applies a Plan and polls the   *)
(* node; the system-upgrade-controller (SUC) runs the job that cordons the *)
(* node, replaces RKE2 and uncordons it.  All waits of a run share one     *)
(* time budget.  A run that fails is started again by the operator.        *)
(*                                                                         *)
(* A version is a pair <<minor, patch>>.                                   *)
(***************************************************************************)
EXTENDS Integers, Sequences, FiniteSetsExt

CONSTANTS
    Listed,     \* allVersions
    Target,     \* targetVersion
    Installed,  \* the versions a node may have before the upgrade
    Apart,      \* whether the SUC keeps the jobs of one node apart
    Budget,     \* DEPLOYMENT_TIMEOUT, in polls of 5 seconds
    MaxRuns     \* bound: runs of the program

Versions == Installed \cup {Listed[i] : i \in DOMAIN Listed}

Newer(v, w) == v[1] > w[1] \/ (v[1] = w[1] /\ v[2] > w[2])

\* Going from v to w is an upgrade Kubernetes supports.
Supports(v, w) == Newer(w, v) /\ w[1] <= v[1] + 1

None == <<0, 0>>

-----------------------------------------------------------------------------
(* determineUpgradePath: the part of Listed from Start(current) to Last. *)

At(v) == {i \in DOMAIN Listed : Listed[i] = v}
SameMinor(v) == {i \in DOMAIN Listed : Listed[i][1] = v[1]}

\* One past the current version, or past the first one of its minor version.
Start(v) ==
    IF At(v) # {} THEN Min(At(v)) + 1
    ELSE IF SameMinor(v) # {} THEN Min(SameMinor(v)) + 1
    ELSE 1

Last ==
    IF At(Target) # {} THEN Min(At(Target))
    ELSE IF SameMinor(Target) # {} THEN Max(SameMinor(Target))
    ELSE Len(Listed)

\* What holds of the list in the code: it goes up by at most one minor version
\* at a time, it leaves out none up to the target's, and only the target comes
\* second in its minor version.  A node may have any version.
ASSUME Rke2Assumption ==
    /\ Listed \in Seq(Nat \X Nat) /\ Installed \subseteq Nat \X Nat
    /\ None \notin Versions
    /\ \A i, j \in DOMAIN Listed : i < j => Newer(Listed[j], Listed[i])
    /\ \A i \in 1..(Len(Listed) - 1) :
         /\ Supports(Listed[i], Listed[i + 1])
         /\ Listed[i][1] = Listed[i + 1][1] => Listed[i + 1] = Target
    /\ \A n \in Listed[1][1]..Target[1] : SameMinor(<<n, 0>>) # {}
    /\ \E i \in DOMAIN Listed : Target = Listed[i]
    /\ Apart \in BOOLEAN /\ Budget \in Nat /\ MaxRuns \in Nat

-----------------------------------------------------------------------------
VARIABLES
    pc,        \* the program's step
    runs,      \* runs so far
    next,      \* the position in Listed of the version being installed
    left,      \* what is left of the budget
    spent,     \* how long this run has waited (for WaitsWithinBudget only)
    \* the node
    ver,       \* kubeletVersion
    ready,     \* status of the condition Ready
    cordoned,  \* whether it has a NoSchedule taint
    label,     \* whether rke2-upgrade=true
    \* the system-upgrade-controller
    plan,      \* the version of server-plan
    applied,   \* whether the node went through the plan
    job,       \* the version the upgrade job of server-plan installs
    strays     \* the versions of jobs whose Plan is gone or has been changed

program == <<pc, runs, next, left, spent>>
node == <<ver, ready, cordoned, label>>
suc == <<plan, applied, job, strays>>
vars == <<program, node, suc>>

Waits == {"version", "ready", "taints"}
Active == {"setup", "plan", "cleanup"} \cup Waits

TypeOK ==
    /\ pc \in Active \cup {"idle", "failed", "done"}
    /\ runs \in 0..MaxRuns
    /\ next \in 1..Len(Listed)
    /\ left \in -1..Budget
    /\ spent \in Nat
    /\ ver \in Versions
    /\ ready \in {"True", "False", "Unknown"}
    /\ cordoned \in BOOLEAN /\ label \in BOOLEAN /\ applied \in BOOLEAN
    /\ plan \in Versions \cup {None} /\ job \in Versions \cup {None}
    /\ strays \subseteq Versions

Init ==
    /\ pc = "idle" /\ runs = 0 /\ next = 1 /\ left = Budget /\ spent = 0
    /\ ver \in Installed /\ ready = "True"
    /\ cordoned = FALSE /\ label = FALSE
    /\ plan = None /\ applied = FALSE /\ job = None /\ strays = {}

Goto(step) == pc' = step /\ UNCHANGED <<runs, next, left, spent>>

-----------------------------------------------------------------------------
(* The program *)

\* "No upgrade needed" ends the run at once, and so does an empty path.
Begin ==
    /\ pc \in {"idle", "failed"} /\ runs < MaxRuns
    /\ runs' = runs + 1 /\ left' = Budget /\ spent' = 0
    /\ \/ ver = Target /\ pc' = "done" /\ UNCHANGED next
       \/ /\ ver # Target
          /\ IF Start(ver) <= Last
               THEN pc' = "setup" /\ next' = Start(ver)
               ELSE pc' = "failed" /\ UNCHANGED next
    /\ UNCHANGED <<node, suc>>

\* A command that is not retried fails and ends the run.
CommandFails ==
    /\ pc \in {"setup", "plan", "cleanup"}
    /\ Goto("failed")
    /\ UNCHANGED <<node, suc>>

\* server-plan is deleted (None) or changed: nobody waits for the job of the
\* former one, which is taken along or left to its end.
ReplacePlan(p) ==
    /\ plan' = p /\ applied' = FALSE /\ job' = None
    /\ strays' \in {strays, strays \cup ({job} \ {None})}

\* That deleting the Plans fails is ignored.  Then the node is labelled, which
\* may fail.
Setup ==
    /\ pc = "setup"
    /\ \/ UNCHANGED suc
       \/ ReplacePlan(None)
    /\ \/ Goto("plan") /\ label' = TRUE
       \/ Goto("failed") /\ UNCHANGED label
    /\ UNCHANGED <<ver, ready, cordoned>>

\* Applying the same Plan again changes nothing.
ApplyPlan ==
    /\ pc = "plan" /\ Goto("version")
    /\ IF plan = Listed[next] THEN UNCHANGED suc ELSE ReplacePlan(Listed[next])
    /\ UNCHANGED node

\* A bug: an attempt is made although the time is over.
ElapseAtZero(d) == left >= 0 /\ spent' = spent + d

\* retry.UntilItSucceeds looks at the deadline before each attempt only, so an
\* answer may come after it.
Elapse(d) ==
    /\ left > 0 /\ left - d >= -1
    /\ spent' = spent + d

\* A bug: any answer will do.
SeesAnswer ==
    /\ pc = "version"
    /\ \E d \in 0..2 : Elapse(d) /\ left' = left - d
    /\ pc' = "ready" /\ UNCHANGED <<runs, next, node, suc>>

SeesVersion ==
    /\ pc = "version" /\ ver = Listed[next]
    /\ \E d \in 0..2 : Elapse(d) /\ left' = left - d
    /\ pc' = "ready" /\ UNCHANGED <<runs, next, node, suc>>

\* A bug: each attempt has the whole time again.
NotYetForFree ==
    /\ pc \in Waits /\ left > 0
    /\ pc' = IF pc = "taints" THEN "ready" ELSE pc
    /\ UNCHANGED <<runs, next, left, spent, node, suc>>

\* Not there yet, or kubectl failed: try again 5 seconds later.
NotYet ==
    /\ pc \in Waits
    /\ Elapse(1) /\ left' = left - 1
    /\ pc' = IF pc = "taints" THEN "ready" ELSE pc
    /\ UNCHANGED <<runs, next, node, suc>>

\* The first of two reads of the node: Unknown passes for Ready.
SeesReady ==
    /\ pc = "ready" /\ left > 0 /\ ready # "False"
    /\ Goto("taints") /\ UNCHANGED <<node, suc>>

\* What is left of the time is written back, 0 at least.
NextVersion ==
    /\ \E d \in 0..2 : Elapse(d) /\ left' = Max({0, left - d})
    /\ IF next = Last THEN pc' = "cleanup" /\ UNCHANGED next
                      ELSE pc' = "plan" /\ next' = next + 1
    /\ UNCHANGED <<runs, node, suc>>

\* A bug: the next version has the whole time again.
SeesSchedulableAnew ==
    /\ pc = "taints" /\ ~cordoned /\ left > 0
    /\ \E d \in 0..2 : Elapse(d) /\ left' = Budget
    /\ IF next = Last THEN pc' = "cleanup" /\ UNCHANGED next
                      ELSE pc' = "plan" /\ next' = next + 1
    /\ UNCHANGED <<runs, node, suc>>

\* A bug: readiness alone ends the wait.
SeesReadyOnly == pc = "taints" /\ NextVersion

SeesSchedulable == pc = "taints" /\ ~cordoned /\ NextVersion

TimesOut ==
    /\ pc \in Waits /\ left <= 0
    /\ Goto("failed") /\ UNCHANGED <<node, suc>>

\* The label goes first, then the controller with its Plans and jobs.
Cleanup ==
    /\ pc = "cleanup" /\ label' = FALSE
    /\ \/ Goto("failed") /\ UNCHANGED suc
       \/ /\ Goto("done")
          /\ plan' = None /\ applied' = FALSE /\ job' = None /\ strays' = {}
    /\ UNCHANGED <<ver, ready, cordoned>>

-----------------------------------------------------------------------------
(* The controller and the node *)

\* The pod of a new job waits for the node's others if they are kept apart.
StartJob ==
    /\ plan # None /\ label /\ ~applied /\ job = None
    /\ Apart => strays = {}
    /\ job' = plan /\ cordoned' = TRUE
    /\ UNCHANGED <<program, ver, ready, label, plan, applied, strays>>

Replace ==
    /\ ver' \in (strays \cup {job}) \ {None, ver}
    /\ ready' \in {"True", "False"}
    /\ UNCHANGED <<program, cordoned, label, suc>>

EndJob ==
    /\ job # None /\ ver = job
    /\ cordoned' = FALSE /\ job' = None
    /\ applied' = (applied \/ plan = job)
    /\ UNCHANGED <<program, ver, ready, label, plan, strays>>

\* A job without its Plan ends, or is collected before it does.
EndStray ==
    /\ \E v \in strays : strays' = strays \ {v}
    /\ cordoned' \in {cordoned, FALSE}
    /\ UNCHANGED <<program, ver, ready, label, plan, applied, job>>

\* The kubelet or the node controller reports another condition.
Reports ==
    /\ ready' \in {"True", "False", "Unknown"} \ {ready}
    /\ UNCHANGED <<program, ver, cordoned, label, suc>>

-----------------------------------------------------------------------------
Program ==
    \/ Begin \/ CommandFails \/ Setup \/ ApplyPlan \/ SeesVersion \/ NotYet
    \/ SeesReady \/ SeesSchedulable \/ TimesOut \/ Cleanup

Cluster == StartJob \/ Replace \/ EndJob \/ EndStray \/ Reports

Next == Program \/ Cluster

Spec == Init /\ [][Next]_vars

FairSpec == Spec /\ WF_vars(pc \in Active /\ Program)

-----------------------------------------------------------------------------
(* Properties *)

\* The list has nothing to go on from: determineUpgradePath falls back to the
\* target, or to the first version it lists, without a look at the distance.
OutOfRange(v) ==
    At(v) = {} /\ (v[1] + 1 < Listed[1][1] \/ Newer(v, Target))

\* The kubelet never goes back and never skips a minor version, but for the
\* first step from a version the list is not made for; not even in a rerun,
\* where jobs of an earlier run may be left, if the controller keeps them apart.
UpgradesStepwise ==
    [][ver' # ver /\ (Apart \/ runs = 1) =>
         Supports(ver, ver') \/ OutOfRange(ver)]_vars

\* In a first run the next Plan comes only when the job of the one before is
\* over: the version, the condition and the taint are polled for in that order.
\* In a rerun nothing waits for a job that an earlier run has left.
OneUpgradeAtATime ==
    [][plan' \notin {plan, None} /\ runs = 1 => job = None /\ ~cordoned]_vars

\* A run waits no longer than DEPLOYMENT_TIMEOUT, however many versions there
\* are; only the last answer of each kind may be late.
WaitsWithinBudget == spent <= Budget + 1

\* Every run returns, whatever the cluster does.
RunsReturn == pc \in Active ~> pc \in {"failed", "done"}

\* "Then wait for Ready state which means upgrade has been completed"
\* (upgrade.go:121): when the program has returned without an error the node
\* is no longer being upgraded.
SuccessMeansCompleted == pc = "done" => job = None /\ ~cordoned
=============================================================================
