------------------------- MODULE KindDeploy_proofs -------------------------
(***************************************************************************)
(* KindDeploy for all features, shares, durations, commands and failing    *)
(* calls: its types, the port-forward, Vault, and what a deployment leaves *)
(* behind.  A deployment is a sequence of 37 steps that relies on what its *)
(* earlier steps have done, and not on what other commands have left; the  *)
(* invariant says, for every place in the sequence, what that is.          *)
(***************************************************************************)
EXTENDS KindDeploy, Command_proofs

-----------------------------------------------------------------------------
(* Programs *)

\* The steps of all programs.
Steps ==
    {"tools", "policy", "cacheCert", "nodeCerts", "namespaces",
     "harborSecrets", "postgresSecret", "metalLB", "metalSetup", "mailpit",
     "giteaTls", "argoTls", "registryCerts", "repos", "chartOrg",
     "kyvernoPolicy", "validate", "checkTarget", "saveTls", "restoreTls",
     "cachePem", "revision", "renderCluster", "mergeProxy", "configClean",
     "undeploy", "kindCluster", "keycloakSecret", "sreSecrets", "sreMetrics",
     "giteaSecrets", "giteaHelm", "giteaAccounts", "argoHelm", "login",
     "loginRetried", "loginInverted", "rootApp", "orchCA", "routerStart",
     "routerStop", "poll", "stopProxy", "stopAllProxies", "portForward",
     "forwarding", "savePid", "keysSecret", "writeKeys", "share"}

\* A program without loose ends: the account of gitea_admin, which comes with
\* the server, is always followed by the step that makes the other accounts.
Whole(p) ==
    /\ p \in Seq(Steps) /\ Len(p) > 0
    /\ \A i \in 1..Len(p) : p[i] = "giteaHelm" =>
         i + 1 \in 1..Len(p) /\ p[i + 1] = "giteaAccounts"

\* Such programs may follow one another.
LEMMA WholeJoin ==
    ASSUME NEW s, NEW t, Whole(s), Whole(t) PROVE Whole(s \o t)
<1>1. PICK p : p = s \o t
  OBVIOUS
<1>2. /\ p \in Seq(Steps) /\ Len(p) = Len(s) + Len(t)
      /\ \A i \in 1..Len(s) : p[i] = s[i]
      /\ \A i \in 1..Len(t) : p[Len(s) + i] = t[i]
      /\ Len(s) \in Nat /\ Len(t) \in Nat /\ Len(s) > 0 /\ Len(t) > 0
  BY <1>1, Joining DEF Whole, Joins
<1>3. ASSUME NEW i \in 1..Len(p), p[i] = "giteaHelm"
      PROVE  i + 1 \in 1..Len(p) /\ p[i + 1] = "giteaAccounts"
  <2>1. CASE i \in 1..Len(s)
    <3>1. i + 1 \in 1..Len(s) /\ s[i + 1] = "giteaAccounts"
      BY <1>2, <1>3, <2>1 DEF Whole
    <3> QED BY <1>2, <3>1
  <2>2. CASE i \notin 1..Len(s)
    <3>1. PICK k \in 1..Len(t) : i = Len(s) + k
      <4>1. i - Len(s) \in 1..Len(t) /\ i = Len(s) + (i - Len(s))
        BY <1>2, <2>2
      <4> QED BY <4>1
    <3>2. k + 1 \in 1..Len(t) /\ t[k + 1] = "giteaAccounts"
      BY <1>2, <1>3, <3>1 DEF Whole
    <3>3. i + 1 = Len(s) + (k + 1) /\ i + 1 \in 1..Len(p)
      BY <1>2, <3>1, <3>2
    <3> QED BY <1>2, <3>2, <3>3
  <2> QED BY <2>1, <2>2
<1> QED BY <1>1, <1>2, <1>3 DEF Whole

\* The parts that the targets are put together from are such programs.
LEMMA Parts ==
    /\ Whole(UsePreset) /\ Whole(<<"validate">>) /\ Whole(Kind)
    /\ Whole(LocalSecret) /\ Whole(Gitea) /\ Whole(Argocd)
    /\ Whole(<<"namespaces">>) /\ Whole(OrchLocal)
    /\ Whole(<<"restoreTls", "metalLB", "metalSetup", "mailpit", "giteaTls",
               "argoTls">>)
    /\ Whole(<<"routerStop", "routerStart", "loginRetried", "repos",
               "chartOrg">>)
<1>1. Whole(UsePreset) /\ Whole(<<"validate">>) /\ Whole(<<"namespaces">>)
  BY DEF Whole, Steps, UsePreset
<1>2. Whole(Kind)
  BY DEF Whole, Steps, Kind
<1>3. Whole(LocalSecret)
  BY DEF Whole, Steps, LocalSecret
<1>4. Whole(Gitea) 
  BY DEF Whole, Steps, Gitea
<1>5. Whole(Argocd) /\ Whole(OrchLocal)
  BY DEF Whole, Steps, Argocd, OrchLocal
<1>6. Whole(<<"restoreTls", "metalLB", "metalSetup", "mailpit", "giteaTls",
               "argoTls">>)
  BY DEF Whole, Steps
<1>7. Whole(<<"routerStop", "routerStart", "loginRetried", "repos",
               "chartOrg">>)
  BY DEF Whole, Steps
<1> QED BY <1>1, <1>2, <1>3, <1>4, <1>5, <1>6, <1>7

\* ... and so is what is done before the Orchestrator is deployed.
LEMMA WholePreOrchDeploy == Whole(PreOrchDeploy)
  BY Parts, WholeJoin DEF PreOrchDeploy

\* ... and a whole deployment.
LEMMA WholeAll == Whole(All)
  BY Parts, WholePreOrchDeploy, WholeJoin DEF All

\* Every target's program is one.
LEMMA Programs == \A c \in DOMAIN Program : Whole(Program[c])
<1>1. Whole(UsePreset \o All) /\ Whole(Kind \o PreOrchDeploy)
  BY Parts, WholeAll, WholePreOrchDeploy, WholeJoin
<1>2. /\ Whole(<<"configClean">>) /\ Whole(<<"login">>)
      /\ Whole(<<"login", "repos">>) /\ Whole(<<"loginInverted", "repos">>)
      /\ Whole(<<"sreMetrics">>) /\ Whole(<<"kyvernoPolicy">>)
      /\ Whole(<<"orchCA">>) /\ Whole(<<"routerStart">>)
      /\ Whole(<<"routerStop", "routerStart">>) /\ Whole(<<"routerStop">>)
  BY DEF Whole, Steps
<1>3. /\ Whole(<<"poll">>) /\ Whole(<<"stopProxy">>)
      /\ Whole(<<"stopProxy", "portForward", "forwarding", "savePid">>)
      /\ Whole(<<"stopAllProxies">>) /\ Whole(<<"keysSecret", "writeKeys">>)
      /\ Whole(<<"keysSecret", "share">>) /\ Whole(<<"undeploy">>)
  BY DEF Whole, Steps
<1>4. DOMAIN Program =
        {"kindAll", "kindPreset", "kind", "usePreset", "configClean",
         "orchLocal", "gitea", "argocd", "argoLogin", "addGithubRepos",
         "addLocalRepos", "victoriaMetrics", "kyverno", "orchCA",
         "routerStart", "routerRestart", "routerStop", "wait", "startProxy",
         "stopProxy", "stopAllProxies", "vaultKeys", "unseal", "undeploy"}
  BY DEF Program
<1>5. /\ Whole(Program["kindAll"]) /\ Whole(Program["kindPreset"])
      /\ Whole(Program["kind"]) /\ Whole(Program["usePreset"])
      /\ Whole(Program["orchLocal"]) /\ Whole(Program["gitea"])
      /\ Whole(Program["argocd"])
  BY <1>1, Parts, WholeAll DEF Program
<1>6. /\ Whole(Program["configClean"]) /\ Whole(Program["argoLogin"])
      /\ Whole(Program["addGithubRepos"]) /\ Whole(Program["addLocalRepos"])
      /\ Whole(Program["victoriaMetrics"]) /\ Whole(Program["kyverno"])
      /\ Whole(Program["orchCA"]) /\ Whole(Program["routerStart"])
      /\ Whole(Program["routerRestart"]) /\ Whole(Program["routerStop"])
  BY <1>2 DEF Program
<1>7. /\ Whole(Program["wait"]) /\ Whole(Program["stopProxy"])
      /\ Whole(Program["startProxy"]) /\ Whole(Program["stopAllProxies"])
      /\ Whole(Program["vaultKeys"]) /\ Whole(Program["unseal"])
      /\ Whole(Program["undeploy"])
  BY <1>3 DEF Program
<1> QED BY <1>4, <1>5, <1>6, <1>7

-----------------------------------------------------------------------------
(* The running command *)

\* A command runs the rest of its program, and its loop over users or key
\* shares is within their list.
Running ==
    /\ cmd \in DOMAIN Program /\ arg \in Args(cmd)
    /\ todo \in Seq(Steps) /\ todo # <<>> /\ Rest(todo, Program[cmd])
    /\ job \in [i : Nat]
    /\ job.i \in 1..(IF At("share") THEN Shares ELSE Len(GiteaUsers))

\* No command runs.
Idle == cmd = "none" /\ arg = <<>> /\ todo = <<>> /\ job = <<>>

\* A command runs or none does; the counters keep to their bounds.
Turn ==
    /\ Running \/ Idle
    /\ ticks \in 0..Ticks /\ ok \in BOOLEAN /\ done \in 0..MaxCommands
    /\ fails \in 0..MaxFails /\ clean \in BOOLEAN

\* "none" is no command.
LEMMA Names == "none" \notin DOMAIN Program
  BY DEF Program

\* A step starts with the first user or share, and there is one.
LEMMA FirstItem ==
    /\ NewJob \in [i : Nat] /\ NewJob.i = 1 /\ Len(GiteaUsers) = 4
    /\ Shares \in Nat /\ Shares >= 1
  BY KindDeployAssumption DEF NewJob, GiteaUsers

\* The server of Gitea is installed before its accounts are made.
LEMMA HelmPlace ==
    ASSUME Running, At("giteaHelm")
    PROVE  Len(todo) >= 2 /\ todo[2] = "giteaAccounts"
<1>1. Whole(Program[cmd])
  BY Programs DEF Running
<1>2. PICK p, n : p = Program[cmd] /\ n = Len(p) - Len(todo)
  OBVIOUS
<1>3. /\ Len(todo) \in Nat \ {0} /\ Len(p) \in Nat /\ n \in Nat
      /\ \A i \in 1..Len(todo) : todo[i] = p[n + i]
      /\ Head(todo) = todo[1] /\ n + 1 \in 1..Len(p)
  BY <1>1, <1>2 DEF Running, Rest, Whole
<1>4. p[n + 1] = "giteaHelm"
  BY <1>3 DEF At
<1>5. n + 2 \in 1..Len(p) /\ p[n + 2] = "giteaAccounts"
  <2>1. (n + 1) + 1 \in 1..Len(p) /\ p[(n + 1) + 1] = "giteaAccounts"
    BY <1>1, <1>2, <1>3, <1>4 DEF Whole
  <2> QED BY <1>3, <2>1
<1>6. 2 \in 1..Len(todo)
  BY <1>2, <1>3, <1>5
<1> QED BY <1>3, <1>5, <1>6

\* Leaving a step behind ends the command or goes on to the next step.
LEMMA Advances ==
    ASSUME Turn, Running, NEW j \in [i : Nat], AdvanceWith(1, j),
           fails' \in 0..MaxFails, clean' \in BOOLEAN,
           j.i = 1 \/ (At("giteaHelm") /\ j.i = 2)
    PROVE  /\ Turn'
           /\ \/ Len(todo) = 1 /\ Return(TRUE)
              \/ /\ Running' /\ Len(todo') = Len(todo) - 1
                 /\ job' = j /\ UNCHANGED <<cmd, arg, ok, done>>
                 /\ todo' = Tail(todo) /\ ticks' = Ticks
<1>1. Program[cmd] \in Seq(Steps) /\ 1 \in 1..Len(todo)
  BY Programs DEF Running, Whole
<1>2. CASE Len(todo) = 1 /\ Return(TRUE)
  <2>1. Turn'
    BY <1>2, KindDeployAssumption DEF Return, Turn, Idle
  <2> QED BY <1>2, <2>1
<1>3. CASE ~(Len(todo) = 1 /\ Return(TRUE))
  <2>1. /\ todo' \in Seq(Steps) /\ todo' # <<>> /\ Rest(todo', Program[cmd])
        /\ Len(todo') = Len(todo) - 1
        /\ job' = j /\ ticks' = Ticks /\ UNCHANGED <<cmd, arg, ok, done>>
    BY <1>1, <1>3, Advancing DEF Running
  <2>2. todo' = Tail(todo)
    <3>1. todo' = SubSeq(todo, 1 + 1, Len(todo))
      BY <1>3 DEF AdvanceWith
    <3>2. 1 + 1 = 2
      OBVIOUS
    <3> QED BY <3>1, <3>2 DEF Running
  <2>3. At("giteaHelm") => Head(todo') = "giteaAccounts"
    BY <1>1, <2>1, <2>2, HelmPlace, TailRest DEF Running
  <2>4. j.i \in 1..(IF At("share")' THEN Shares ELSE Len(GiteaUsers))
    BY <2>3, FirstItem DEF At
  <2>5. Running'
    BY <2>1, <2>4 DEF Running
  <2>6. ticks' \in 0..Ticks
    BY <2>1, KindDeployAssumption
  <2>7. Turn'
    BY <2>1, <2>5, <2>6 DEF Turn
  <2> QED BY <2>1, <2>2, <2>5, <2>7
<1> QED BY <1>2, <1>3

\* The length of the list that the current step goes through.
Last == IF At("share") THEN Shares ELSE Len(GiteaUsers)

\* The loop of a step goes on to the next user or share.
NextItem == job.i < Last /\ Within([job EXCEPT !.i = @ + 1])

\* A wait has one tick less left.
Waited ==
    /\ ticks > 0 /\ ticks' = ticks - 1
    /\ UNCHANGED <<cmd, arg, todo, job, ok, done>>

\* What a step does to the command that it belongs to.
Moves ==
    \/ Return(FALSE) \/ Advance \/ NextItem \/ Within(job) \/ Waited
    \/ At("giteaHelm") /\ AdvanceWith(1, [i |-> 2])

\* Whatever a step does to it, a command runs or none does.
LEMMA MovesTurn ==
    ASSUME Turn, Running, Moves, fails' \in 0..MaxFails, clean' \in BOOLEAN
    PROVE  Turn'
<1>1. CASE Return(FALSE)
  <2>1. Idle' /\ ticks' = 0 /\ ok' \in BOOLEAN /\ done' = done
    BY <1>1 DEF Return, Idle
  <2>2. ticks' \in 0..Ticks
    BY <2>1, KindDeployAssumption
  <2> QED BY <2>1, <2>2 DEF Turn
<1>2. CASE Advance
  BY <1>2, FirstItem, Advances DEF Advance
<1>3. CASE At("giteaHelm") /\ AdvanceWith(1, [i |-> 2])
  <2>1. [i |-> 2] \in [i : Nat] /\ [i |-> 2].i = 2
    OBVIOUS
  <2> QED BY <1>3, <2>1, Advances
<1>4. CASE NextItem
  <2>1. /\ job' = [job EXCEPT !.i = job.i + 1] /\ job.i < Last
        /\ UNCHANGED <<cmd, arg, todo, ticks, ok, done>>
    BY <1>4 DEF NextItem, Within
  <2>2. job' \in [i : Nat] /\ job'.i = job.i + 1 /\ job.i \in Nat
    BY <2>1 DEF Running
  <2>3. Last \in Nat /\ job.i >= 1
    BY FirstItem DEF Last, Running
  <2>4. job'.i \in 1..Last
    BY <2>1, <2>2, <2>3
  <2>5. Running'
    BY <2>1, <2>2, <2>4 DEF Running, At, Last
  <2> QED BY <2>1, <2>5 DEF Turn
<1>5. CASE Within(job)
  <2>1. UNCHANGED command
    BY <1>5 DEF Within, command
  <2>2. Running'
    BY <2>1 DEF Running, command, At
  <2> QED BY <2>1, <2>2 DEF Turn, command
<1>6. CASE Waited
  <2>1. UNCHANGED <<cmd, arg, todo, job, ok, done>>
    BY <1>6 DEF Waited
  <2>2. Running'
    BY <2>1 DEF Running, At
  <2>3. ticks' \in 0..Ticks
    BY <1>6, KindDeployAssumption DEF Waited, Turn
  <2> QED BY <2>1, <2>2, <2>3 DEF Turn
<1> QED BY <1>1, <1>2, <1>3, <1>4, <1>5, <1>6 DEF Moves

\* A command starts with its first step.
LEMMA Starts ==
    ASSUME Turn, NEW c \in Commands, NEW a \in Args(c), Start(c, a)
    PROVE  Turn' /\ Running' /\ todo' = Program[c] /\ job' = NewJob
<1>1. c \in DOMAIN Program /\ Whole(Program[c])
  BY CommandsAssumption, Programs
<1>2. /\ cmd' = c /\ arg' = a /\ todo' = Program[c] /\ job' = NewJob
      /\ ticks' = Ticks /\ done' = done + 1 /\ ok' = ok
      /\ cmd = "none" /\ done < MaxCommands
      /\ clean' = TRUE /\ fails' = fails
  BY DEF Start, Begin
<1>3. PICK p : p = Program[c]
  OBVIOUS
<1>4. Rest(p, p) /\ p \in Seq(Steps) /\ p # <<>>
  BY <1>1, <1>3 DEF Whole, Rest
<1>5. job'.i \in 1..(IF At("share")' THEN Shares ELSE Len(GiteaUsers))
  BY <1>2, FirstItem
<1>6. Running'
  BY <1>1, <1>2, <1>3, <1>4, <1>5, FirstItem DEF Running
<1>7. done' \in 0..MaxCommands /\ ticks' \in 0..Ticks
  BY <1>2, KindDeployAssumption DEF Turn
<1> QED BY <1>2, <1>6, <1>7 DEF Turn

\* Steps are left only of a command that runs.
LEMMA AtRuns == ASSUME Turn, todo # <<>> PROVE Running
  BY DEF Turn, Idle

-----------------------------------------------------------------------------
(* Steps and the command *)

\* A call that must succeed ends its step or the command.
LEMMA RequireMoves == ASSUME NEW b, Require(b) PROVE Moves
  BY DEF Require, Moves

\* ... and so does a wait, or it goes on.
LEMMA WaitMoves ==
    ASSUME NEW s, NEW f, NEW b, WaitFor(s, f, b, NewJob) PROVE Moves
  BY DEF WaitFor, Moves, Waited, Advance

\* Steps that read, and those that make one thing.
LEMMA ReadSteps ==
    ASSUME Reads \/ Make \/ SreSecrets \/ SkipGitea
    PROVE  Moves /\ UNCHANGED same /\ todo # <<>>
  BY RequireMoves DEF Reads, Make, SreSecrets, SkipGitea, Moves, At

\* Steps that cannot fail but by a call that does.
LEMMA PresetSteps ==
    ASSUME RenderClusterTemplate \/ MergeProxy \/ ConfigClean \/ UndeployKind
             \/ RouterStop \/ StopGiteaProxy \/ StopAllKubectlProxies
             \/ SavePid \/ WriteKeys
    PROVE  Moves /\ UNCHANGED same /\ todo # <<>>
  BY DEF RenderClusterTemplate, MergeProxy, ConfigClean, UndeployKind,
         RouterStop, StopGiteaProxy, StopAllKubectlProxies, SavePid,
         WriteKeys, Moves, At

\* Steps that require something of what they find.
LEMMA RequireSteps ==
    ASSUME KindCluster \/ Login \/ LoginInverted \/ RootApp \/ OrchCA
             \/ StartGiteaPortForward
    PROVE  Moves /\ UNCHANGED same /\ todo # <<>>
  BY RequireMoves DEF KindCluster, Login, LoginInverted, RootApp, OrchCA,
     StartGiteaPortForward, At

\* The loop over the users of Gitea.
LEMMA NextUserMoves ==
    ASSUME NextUserOr(Len(GiteaUsers)), ~At("share") PROVE Moves
  BY DEF NextUserOr, Moves, NextItem, Last

\* The steps of Gitea.
LEMMA GiteaSteps ==
    ASSUME CreateOrUpdateGiteaSecret \/ GiteaHelm
             \/ CreateOrUpdateGiteaAccount
    PROVE  Moves /\ UNCHANGED same /\ todo # <<>>
<1>1. CASE CreateOrUpdateGiteaSecret
  <2>1. ~At("share") /\ todo # <<>> /\ UNCHANGED same
    BY <1>1 DEF CreateOrUpdateGiteaSecret, InGitea, At
  <2> QED BY <1>1, <2>1, NextUserMoves DEF CreateOrUpdateGiteaSecret, Moves
<1>2. CASE GiteaHelm
  BY <1>2 DEF GiteaHelm, InGitea, Moves, At
<1>3. CASE CreateOrUpdateGiteaAccount
  <2>1. ~At("share") /\ todo # <<>> /\ UNCHANGED same
    BY <1>3 DEF CreateOrUpdateGiteaAccount, InGitea, At
  <2> QED BY <1>3, <2>1, NextUserMoves DEF CreateOrUpdateGiteaAccount
<1> QED BY <1>1, <1>2, <1>3

\* Keycloak's secret, ArgoCD, the router, the wait for applications and the
\* shares.
LEMMA OtherSteps ==
    ASSUME KeycloakSecret \/ ArgoHelm \/ RouterStart \/ CheckApps \/ Unseal
    PROVE  Moves /\ UNCHANGED same /\ todo # <<>>
<1>1. CASE KeycloakSecret \/ ArgoHelm
  BY <1>1 DEF KeycloakSecret, ArgoHelm, Moves, At
<1>2. CASE RouterStart \/ CheckApps
  BY <1>2 DEF RouterStart, CheckApps, Moves, At
<1>3. CASE Unseal
  BY <1>3 DEF Unseal, NextShare, Moves, NextItem, Last, At
<1> QED BY <1>1, <1>2, <1>3

\* The waits with a number of tries.
LEMMA WaitSteps ==
    ASSUME LoginRetried \/ Forwarding \/ KeysSecret
    PROVE  Moves /\ UNCHANGED same /\ todo # <<>>
<1>1. CASE LoginRetried
  BY <1>1, WaitMoves DEF LoginRetried, WaitFor, At
<1>2. CASE Forwarding
  BY <1>2, WaitMoves DEF Forwarding, WaitFor, At
<1>3. CASE KeysSecret
  BY <1>3, WaitMoves DEF KeysSecret, WaitFor, At
<1> QED BY <1>1, <1>2, <1>3

\* Every step moves its command in one of these ways, and none counts a failed
\* call.
LEMMA StepMoves ==
    ASSUME Step PROVE Moves /\ UNCHANGED same /\ todo # <<>>
  BY ReadSteps, PresetSteps, RequireSteps, GiteaSteps, OtherSteps, WaitSteps
     DEF Step

\* A call that fails moves the command in one of them as well.
LEMMA CallFailsMoves == ASSUME CallFails PROVE Moves
  BY DEF CallFails, Moves

\* Every step of the system leaves a command running or none.
LEMMA TurnStep == ASSUME Turn, [Next]_vars PROVE Turn'
<1>1. CASE \E c \in Commands : \E a \in Args(c) : Start(c, a)
  BY <1>1, Starts
<1>2. CASE Step
  <2>1. Moves /\ UNCHANGED same /\ todo # <<>>
    BY <1>2, StepMoves
  <2> QED BY <2>1, AtRuns, MovesTurn DEF Turn, same
<1>3. CASE CallFails
  <2>1. Moves /\ cmd # "none" /\ clean' \in BOOLEAN
    BY <1>3, CallFailsMoves DEF CallFails
  <2>2. fails' \in 0..MaxFails
    BY <1>3, KindDeployAssumption DEF CallFails, Fault, Turn
  <2> QED BY <2>1, <2>2, MovesTurn DEF Turn, Idle
<1>4. CASE Cluster \/ UNCHANGED vars
  <2>1. UNCHANGED <<command, same>>
    <3>1. CASE Applications \/ Addresses
      BY <3>1 DEF Applications, Addresses, command, same
    <3>2. CASE VaultInit \/ VaultRestart \/ ProxyEnds
      BY <3>2 DEF VaultInit, VaultRestart, ProxyEnds, command, same
    <3>3. CASE UNCHANGED vars
      BY <3>3 DEF vars, same
    <3> QED BY <1>4, <3>1, <3>2, <3>3 DEF Cluster
  <2>2. UNCHANGED <<cmd, arg, todo, job, ticks, ok, done, clean, fails>>
    BY <2>1 DEF command, same
  <2> QED BY <2>2 DEF Turn, Running, Idle, At
<1> QED BY <1>1, <1>2, <1>3, <1>4 DEF Next

-----------------------------------------------------------------------------
(* Types *)

\* All the things that commands make.
Kinds ==
    DOMAIN Things \cup
      {"sreSecrets", "sreMetrics", "gitea", "argocd", "rootApp"}

\* The passwords in use.
Pws == [keycloak : Passwords, weak : BOOLEAN, argo : Passwords,
        secret : [Users -> Passwords], account : [Users -> Passwords]]

\* What ArgoCD says of an application.
States == {"absent", "progressing", "degraded", "green"}

\* Applications and how long they have been what they are.
Ages ==
    /\ apps \in [AppNames -> [st : States, age : Nat, since : Nat]]
    /\ \A a \in AppNames :
         apps[a].age <= Limit[a] + 1 /\ apps[a].since <= Limit[a] + 1

\* What the file of the cluster definition holds.
Stages == {"none", "empty", "rendered", "merged"}

\* The types of what the commands leave behind.
Types ==
    /\ cluster \in 0..MaxCommands
    /\ things \subseteq Kinds
    /\ pw \in Pws
    /\ addr \subseteq {"argocd", "gitea", "traefik", "boots"}
    /\ Ages
    /\ vault \in [keys : BOOLEAN, shares : 0..Threshold, at : 0..MaxCommands]
    /\ preset.stage \in Stages
    /\ preset = [stage |-> preset.stage, features |-> preset.features]
    /\ session \in 0..MaxCommands
    /\ proxy \in [pids : SUBSET (0..MaxCommands), file : 0..MaxCommands]

\* A process has a number, and its password is one.
LEMMA Drawn ==
    ASSUME Turn
    PROVE  /\ done \in 0..MaxCommands /\ done \in Passwords
           /\ 0 \in Passwords /\ 0 \in 0..MaxCommands
           /\ FromEnv \in Passwords
  BY KindDeployAssumption DEF Turn, Passwords, FromEnv

\* The default password is a password or missing.
LEMMA DefaultType == ASSUME Turn, Types PROVE Default \in Passwords
<1>1. pw.keycloak \in Passwords
  BY DEF Types, Pws
<1> QED BY <1>1, Drawn DEF Default

\* The loops over the users stay in the list.
LEMMA UserType ==
    ASSUME Turn, Running, ~At("share")
    PROVE  job.i \in 1..4 /\ GiteaUsers[job.i] \in Users
  BY FirstItem DEF Running, Users, GiteaUsers

\* Types do not change with what does not.
LEMMA PwSame ==
    ASSUME Types, UNCHANGED <<inCluster, things, machine>> PROVE Types'
  BY DEF Types, Ages, inCluster, machine

\* Gitea's steps are not the one that gives shares.
LEMMA Unshare == At("giteaSecrets") \/ At("giteaAccounts") => ~At("share")
  BY DEF At

\* What is left of the types when the cluster is deleted.
LEMMA WipeTypes ==
    ASSUME Turn, Types, Wipe, UNCHANGED machine PROVE Types'
<1>1. cluster' = 0 /\ things' \subseteq things /\ addr' = {}
      /\ UNCHANGED <<preset, session, proxy>>
  BY DEF Wipe, machine
<1>2. Unused \in Pws
  <2>1. NoPasswords \in [Users -> Passwords]
    BY Drawn DEF NoPasswords
  <2> QED BY <2>1, Drawn DEF Unused, Pws
<1>3. Ages'
  <2>1. apps' = NoApps
    BY DEF Wipe
  <2>2. NoApps \in [AppNames -> [st : States, age : Nat, since : Nat]]
    BY DEF NoApps, States
  <2>3. \A a \in AppNames : NoApps[a].age = 0 /\ NoApps[a].since = 0
    BY DEF NoApps
  <2>4. \A a \in AppNames : Limit[a] \in Nat
    BY KindDeployAssumption
  <2>5. ASSUME NEW a \in AppNames
        PROVE  apps'[a].age <= Limit[a] + 1 /\ apps'[a].since <= Limit[a] + 1
    BY <2>1, <2>3, <2>4
  <2> QED BY <2>1, <2>2, <2>5 DEF Ages
<1>4. NoVault \in [keys : BOOLEAN, shares : 0..Threshold, at : 0..MaxCommands]
  BY KindDeployAssumption DEF NoVault
<1>5. pw' = Unused /\ vault' = NoVault
  BY DEF Wipe
<1>6. cluster' \in 0..MaxCommands
  BY <1>1, Drawn
<1> QED BY <1>1, <1>2, <1>3, <1>4, <1>5, <1>6 DEF Types

\* A thing more.
LEMMA ThingTypes ==
    ASSUME Types, things' \subseteq things \cup Kinds,
           UNCHANGED <<inCluster, machine>>
    PROVE  Types'
  BY DEF Types, Ages, inCluster, machine

\* The things that are made by a command line of their own.
LEMMA MakeTypes == ASSUME Types, Make PROVE Types'
<1>1. Head(todo) \in Kinds /\ UNCHANGED <<inCluster, machine>>
  BY DEF Make, Kinds
<1>2. things' \subseteq things \cup {Head(todo)}
  BY DEF Make
<1> QED BY <1>1, <1>2, ThingTypes

\* The secret of the metrics exporter.
LEMMA SreTypes == ASSUME Types, SreSecrets PROVE Types'
<1>1. Head(todo) \in Kinds /\ UNCHANGED <<inCluster, machine>>
  BY DEF SreSecrets, Kinds, At
<1>2. things' \subseteq things \cup {Head(todo)}
  BY DEF SreSecrets
<1> QED BY <1>1, <1>2, ThingTypes

\* The cluster definition.
LEMMA PresetTypes ==
    ASSUME Types, RenderClusterTemplate \/ MergeProxy \/ ConfigClean
    PROVE  Types'
<1>1. UNCHANGED <<inCluster, things, session, proxy>>
  BY DEF RenderClusterTemplate, MergeProxy, ConfigClean
<1>2. \E s \in Stages : \E f : preset' = [stage |-> s, features |-> f]
  <2>1. CASE RenderClusterTemplate
    BY <2>1 DEF RenderClusterTemplate, Stages
  <2>2. CASE MergeProxy
    <3>1. preset' = [stage |-> "merged", features |-> preset.features]
      BY <2>2 DEF MergeProxy, Types
    <3> QED BY <3>1 DEF Stages
  <2>3. CASE ConfigClean
    BY <2>3 DEF ConfigClean, Stages
  <2> QED BY <2>1, <2>2, <2>3
<1>3. PICK s \in Stages : \E g : preset' = [stage |-> s, features |-> g]
  BY <1>2
<1>4. PICK f : preset' = [stage |-> s, features |-> f]
  BY <1>3
<1>5. preset'.stage = s /\ preset'.features = f
  BY <1>4
<1> QED BY <1>1, <1>4, <1>5 DEF Types, Ages, inCluster

\* A new cluster has its process' number.
LEMMA KindClusterTypes ==
    ASSUME Turn, Types, cluster' \in {cluster, done},
           UNCHANGED <<things, pw, addr, apps, vault, machine>>
    PROVE  Types'
<1>1. cluster' \in 0..MaxCommands
  BY Drawn DEF Types
<1> QED BY <1>1 DEF Types, Ages, machine

\* Passwords, addresses and things that are typed.
LEMMA PwTypes ==
    ASSUME Types, pw' \in Pws, things' \subseteq things \cup Kinds,
           addr' \subseteq addr \cup {"argocd", "gitea", "traefik", "boots"},
           UNCHANGED <<cluster, apps, vault, machine>>
    PROVE  Types'
  BY DEF Types, Ages, machine

\* Keycloak's password.
LEMMA KeycloakTypes == ASSUME Turn, Types, KeycloakSecret PROVE Types'
<1>1. pw' \in Pws
  <2>1. CASE UNCHANGED pw
    BY <2>1 DEF Types
  <2>2. CASE \E w \in BOOLEAN :
               pw' = [pw EXCEPT !.keycloak = done, !.weak = w]
    BY <2>2, Drawn DEF Types, Pws
  <2> QED BY <2>1, <2>2 DEF KeycloakSecret
<1> QED BY <1>1, PwTypes DEF KeycloakSecret

\* The secrets of Gitea's users.
LEMMA GiteaSecretTypes ==
    ASSUME Turn, Running, Types, CreateOrUpdateGiteaSecret PROVE Types'
<1>1. pw' \in Pws
  <2>1. CASE UNCHANGED pw
    BY <2>1 DEF Types
  <2>2. CASE pw' = [pw EXCEPT !.secret[User] = done]
    <3>1. User \in Users
      BY UserType, Unshare DEF CreateOrUpdateGiteaSecret, InGitea, User
    <3> QED BY <2>2, <3>1, Drawn DEF Types, Pws
  <2> QED BY <2>1, <2>2 DEF CreateOrUpdateGiteaSecret
<1> QED BY <1>1, PwTypes DEF CreateOrUpdateGiteaSecret

\* The accounts of Gitea's users.
LEMMA GiteaAccountTypes ==
    ASSUME Turn, Running, Types, CreateOrUpdateGiteaAccount PROVE Types'
<1>1. pw' \in Pws
  <2>1. pw' = [pw EXCEPT !.account[User] = done]
    BY DEF CreateOrUpdateGiteaAccount
  <2>2. User \in Users
    BY UserType, Unshare DEF CreateOrUpdateGiteaAccount, InGitea, User
  <2> QED BY <2>1, <2>2, Drawn DEF Types, Pws
<1> QED BY <1>1, PwTypes DEF CreateOrUpdateGiteaAccount

\* Gitea's server.
LEMMA GiteaHelmTypes == ASSUME Turn, Types, GiteaHelm PROVE Types'
<1>1. "gitea_admin" \in Users
  <2>1. GiteaUsers[1] = "gitea_admin" /\ 1 \in DOMAIN GiteaUsers
    BY DEF GiteaUsers
  <2> QED BY <2>1 DEF Users
<1>2. CASE UNCHANGED <<things, addr, pw>>
  BY <1>2 DEF GiteaHelm, Types, Ages, machine
<1>3. CASE /\ things' = things \cup {"gitea"} /\ addr' = addr \cup {"gitea"}
           /\ pw' = [pw EXCEPT !.account["gitea_admin"] = done]
  <2>1. pw' \in Pws
    BY <1>1, <1>3, Drawn DEF Types, Pws
  <2>2. things' \subseteq things \cup Kinds
        /\ addr' \subseteq addr \cup {"argocd", "gitea", "traefik", "boots"}
    BY <1>3 DEF Kinds
  <2> QED BY <2>1, <2>2, PwTypes DEF GiteaHelm
<1> QED BY <1>2, <1>3 DEF GiteaHelm

\* ArgoCD.
LEMMA ArgoHelmTypes == ASSUME Turn, Types, ArgoHelm PROVE Types'
<1>2. CASE UNCHANGED <<things, addr, pw>>
  BY <1>2 DEF ArgoHelm, Types, Ages, machine
<1>3. CASE /\ things' = things \cup {"argocd"}
           /\ addr' = addr \cup {"argocd"}
           /\ pw' = [pw EXCEPT !.argo = Default]
  <2>1. pw' \in Pws
    BY <1>3, DefaultType DEF Types, Pws
  <2>2. things' \subseteq things \cup Kinds
        /\ addr' \subseteq addr \cup {"argocd", "gitea", "traefik", "boots"}
    BY <1>3 DEF Kinds
  <2> QED BY <2>1, <2>2, PwTypes DEF ArgoHelm
<1> QED BY <1>2, <1>3 DEF ArgoHelm

\* The client's session.
LEMMA SessionTypes ==
    ASSUME Types, Login \/ LoginRetried \/ LoginInverted PROVE Types'
<1>1. /\ session' \in {session, cluster}
      /\ UNCHANGED <<inCluster, things, preset, proxy>>
  BY DEF Login, LoginRetried, LoginInverted
<1> QED BY <1>1 DEF Types, Ages, inCluster

\* The root application.
LEMMA RootAppTypes == ASSUME Types, RootApp PROVE Types'
<1>1. /\ things' \subseteq things \cup Kinds
      /\ UNCHANGED <<cluster, pw, addr, vault, machine>>
  BY DEF RootApp, Kinds
<1>2. Ages'
  <2>1. CASE apps' = apps
    BY <2>1 DEF Types, Ages
  <2>2. CASE apps' = [apps EXCEPT !["root-app"].st = "progressing"]
    <3>1. /\ apps' \in [AppNames -> [st : States, age : Nat, since : Nat]]
          /\ \A a \in AppNames : /\ apps'[a].age = apps[a].age
                                 /\ apps'[a].since = apps[a].since
      BY <2>2, KindDeployAssumption DEF Types, Ages, States
    <3> QED BY <3>1 DEF Types, Ages
  <2> QED BY <2>1, <2>2 DEF RootApp
<1> QED BY <1>1, <1>2 DEF Types, machine

\* A poll of the applications, which grow older up to their duration.
LEMMA CheckTypes == ASSUME Types, CheckApps PROVE Types'
<1>1. UNCHANGED <<cluster, things, pw, addr, vault, machine>>
  BY DEF CheckApps
<1>2. Ages'
  <2>1. CASE apps' = apps
    BY <2>1 DEF Types, Ages
  <2>2. CASE apps' = Later
    <3>1. \A a \in AppNames : Limit[a] \in Nat
      BY KindDeployAssumption
    <3>2. ASSUME NEW a \in AppNames
          PROVE  /\ Later[a] \in [st : States, age : Nat, since : Nat]
                 /\ Later[a].age <= Limit[a] + 1
                 /\ Later[a].since <= Limit[a] + 1
      <4>1. /\ apps[a] \in [st : States, age : Nat, since : Nat]
            /\ apps[a].age <= Limit[a] + 1 /\ apps[a].since <= Limit[a] + 1
        BY DEF Types, Ages
      <4>2. \A n \in Nat : n <= Limit[a] + 1 =>
              Cap(a, n) \in Nat /\ Cap(a, n) <= Limit[a] + 1
        BY <3>1 DEF Cap
      <4>3. \/ Later[a] = apps[a]
            \/ Later[a] = [apps[a] EXCEPT !.age = Cap(a, apps[a].age),
                                          !.since = Cap(a, apps[a].since)]
        BY DEF Later
      <4> QED BY <4>1, <4>2, <4>3
    <3>3. Later = [a \in AppNames |-> Later[a]]
      BY DEF Later
    <3>4. Later \in [AppNames -> [st : States, age : Nat, since : Nat]]
      BY <3>2, <3>3
    <3> QED BY <2>2, <3>2, <3>4 DEF Ages
  <2> QED BY <2>1, <2>2 DEF CheckApps
<1> QED BY <1>1, <1>2 DEF Types, machine

\* The commands and the end of a port-forward.
LEMMA PortTypes ==
    ASSUME Turn, Types,
           StopGiteaProxy \/ StopAllKubectlProxies \/ StartGiteaPortForward
             \/ Forwarding \/ SavePid \/ ProxyEnds
    PROVE  Types'
<1>1. UNCHANGED <<inCluster, things, preset, session>>
  BY DEF StopGiteaProxy, StopAllKubectlProxies, StartGiteaPortForward,
         Forwarding, SavePid, ProxyEnds
<1>2. proxy \in [pids : SUBSET (0..MaxCommands), file : 0..MaxCommands]
  BY DEF Types
<1>3. proxy' \in [pids : SUBSET (0..MaxCommands), file : 0..MaxCommands]
  <2>1. CASE StopGiteaProxy \/ StopAllKubectlProxies \/ SavePid \/ ProxyEnds
    BY <1>2, <2>1, Drawn
       DEF StopGiteaProxy, StopAllKubectlProxies, SavePid, ProxyEnds
  <2>2. CASE StartGiteaPortForward
    <3>1. CASE proxy' = [proxy EXCEPT !.pids = {done}]
      <4>1. {done} \in SUBSET (0..MaxCommands)
        BY Drawn
      <4> QED BY <1>2, <3>1, <4>1
    <3> QED BY <1>2, <2>2, <3>1 DEF StartGiteaPortForward
  <2>3. CASE Forwarding
    <3>1. CASE proxy' = [proxy EXCEPT !.pids = proxy.pids \ {done}]
      BY <1>2, <3>1
    <3> QED BY <1>2, <2>3, <3>1 DEF Forwarding, KillForward
  <2> QED BY <2>1, <2>2, <2>3
<1> QED BY <1>1, <1>3 DEF Types, Ages, inCluster

\* Vault's shares never exceed its threshold.
LEMMA VaultTypes ==
    ASSUME Turn, Types, Unseal \/ VaultInit \/ VaultRestart PROVE Types'
<1>1. UNCHANGED <<cluster, things, pw, addr, apps, machine>>
  BY DEF Unseal, VaultInit, VaultRestart
<1>2. vault \in [keys : BOOLEAN, shares : 0..Threshold, at : 0..MaxCommands]
  BY DEF Types
<1>3. vault' \in [keys : BOOLEAN, shares : 0..Threshold, at : 0..MaxCommands]
  <2>1. CASE Unseal
    <3>1. CASE Sealed
      <4>1. vault.shares + 1 \in 0..Threshold
        BY <1>2, <3>1, KindDeployAssumption DEF Sealed
      <4>2. vault' = [vault EXCEPT !.shares = vault.shares + 1]
        BY <2>1, <3>1 DEF Unseal
      <4> QED BY <1>2, <4>1, <4>2
    <3>2. CASE ~Sealed
      BY <1>2, <2>1, <3>2 DEF Unseal
    <3> QED BY <3>1, <3>2
  <2>2. CASE VaultInit
    BY <1>2, <2>2 DEF VaultInit
  <2>3. CASE VaultRestart
    <3>1. 0 \in 0..Threshold
      BY KindDeployAssumption
    <3>2. vault' = [vault EXCEPT !.shares = 0, !.at = done]
      BY <2>3 DEF VaultRestart
    <3> QED BY <1>2, <3>1, <3>2, Drawn
  <2> QED BY <2>1, <2>2, <2>3
<1> QED BY <1>1, <1>3 DEF Types, Ages, machine

\* Steps that change nothing with a type of its own.
LEMMA PlainTypes ==
    ASSUME Types,
           Reads \/ SkipGitea \/ KeysSecret \/ OrchCA \/ WriteKeys
             \/ RouterStart \/ RouterStop
    PROVE  Types'
<1>1. UNCHANGED <<inCluster, things, preset, session, proxy>>
  BY DEF Reads, SkipGitea, KeysSecret, OrchCA, WriteKeys, RouterStart,
         RouterStop, world, machine
<1> QED BY <1>1 DEF Types, Ages, inCluster

\* An application whose state changed is as old as before.
LEMMA Touched ==
    ASSUME NEW r \in [st : States, age : Nat, since : Nat], NEW st \in States,
           NEW t, t = [r EXCEPT !.st = st, !.since = 0]
    PROVE  /\ t \in [st : States, age : Nat, since : Nat]
           /\ t.age = r.age /\ t.since = 0
<1>1. r = [st |-> r.st, age |-> r.age, since |-> r.since]
  OBVIOUS
<1>2. PICK x, y, z : x = r.st /\ y = r.age /\ z = r.since
  OBVIOUS
<1>3. r = [st |-> x, age |-> y, since |-> z] /\ y \in Nat
  BY <1>1, <1>2
<1>4. t = [st |-> st, age |-> y, since |-> 0]
  BY <1>3
<1>5. t \in [st : States, age : Nat, since : Nat] /\ t.age = y /\ t.since = 0
  BY <1>3, <1>4
<1> QED BY <1>2, <1>5

\* Applications and addresses that change by themselves.
LEMMA ClusterTypes ==
    ASSUME Types, Applications \/ Addresses PROVE Types'
<1>1. CASE Applications
  <2>1. UNCHANGED <<cluster, things, pw, addr, vault, machine>>
    BY <1>1 DEF Applications
  <2>2. PICK b \in AppNames, st \in {"progressing", "degraded", "green"} :
          apps' = [apps EXCEPT ![b].st = st, ![b].since = 0]
    BY <1>1 DEF Applications
  <2>3. apps' = [apps EXCEPT ![b] = [apps[b] EXCEPT !.st = st, !.since = 0]]
    BY <2>2 DEF Types, Ages
  <2>4. ASSUME NEW a \in AppNames
        PROVE  /\ apps'[a] \in [st : States, age : Nat, since : Nat]
               /\ apps'[a].age <= Limit[a] + 1
               /\ apps'[a].since <= Limit[a] + 1
    <3>1. /\ apps[a] \in [st : States, age : Nat, since : Nat]
          /\ apps[a].age <= Limit[a] + 1 /\ apps[a].since <= Limit[a] + 1
          /\ st \in States /\ Limit[a] \in Nat
      BY KindDeployAssumption DEF Types, Ages, States
    <3>2. CASE a = b
      <4>1. apps'[a] = [apps[a] EXCEPT !.st = st, !.since = 0]
        BY <2>3, <3>2 DEF Types, Ages
      <4>2. /\ apps'[a] \in [st : States, age : Nat, since : Nat]
            /\ apps'[a].age = apps[a].age /\ apps'[a].since = 0
        BY <3>1, <4>1, Touched
      <4> QED BY <3>1, <4>2
    <3>3. CASE a # b
      <4>1. apps'[a] = apps[a]
        BY <2>3, <3>3 DEF Types, Ages
      <4> QED BY <3>1, <4>1
    <3> QED BY <3>2, <3>3
  <2>5. apps' = [a \in AppNames |-> apps'[a]]
    BY <2>3 DEF Types, Ages
  <2>6. apps' \in [AppNames -> [st : States, age : Nat, since : Nat]]
    BY <2>4, <2>5
  <2> QED BY <2>1, <2>4, <2>6 DEF Types, Ages, machine
<1>2. CASE Addresses
  BY <1>2, PwTypes DEF Addresses, Types
<1> QED BY <1>1, <1>2

\* Whatever a call has done when it fails is typed.
LEMMA HalfTypes ==
    ASSUME Turn, Types, Half PROVE Types'
<1>1. CASE UNCHANGED world
  BY <1>1, PwSame DEF world
<1>2. CASE /\ preset' = [stage |-> "empty", features |-> {}]
           /\ UNCHANGED <<inCluster, things, session, host, router, proxy>>
  <2>1. preset'.stage = "empty" /\ preset'.features = {}
    BY <1>2
  <2> QED BY <1>2, <2>1 DEF Types, Ages, inCluster, Stages
<1>3. CASE Wipe /\ UNCHANGED machine
  BY <1>3, WipeTypes
<1>4. CASE cluster' = done
           /\ UNCHANGED <<things, pw, addr, apps, vault, machine>>
  BY <1>4, KindClusterTypes
<1>5. CASE things' = things \cup {"gitea"} /\ UNCHANGED <<inCluster, machine>>
  BY <1>5, ThingTypes DEF Kinds
<1>6. CASE pw' = [pw EXCEPT !.argo = Default]
           /\ UNCHANGED <<cluster, things, addr, apps, vault, machine>>
  <2>1. pw' \in Pws
    BY <1>6, DefaultType DEF Types, Pws
  <2> QED BY <1>6, <2>1, PwTypes
<1>7. CASE UNCHANGED <<inCluster, things, preset, session, host, proxy>>
  BY <1>7 DEF Types, Ages, inCluster
<1>8. CASE proxy' = [proxy EXCEPT !.file = 0]
           /\ UNCHANGED <<inCluster, things, preset, session, host, router>>
  <2>1. proxy \in [pids : SUBSET (0..MaxCommands), file : 0..MaxCommands]
    BY DEF Types
  <2>2. proxy' \in [pids : SUBSET (0..MaxCommands), file : 0..MaxCommands]
    BY <1>8, <2>1, Drawn
  <2> QED BY <1>8, <2>2 DEF Types, Ages, inCluster
<1> QED BY <1>1, <1>2, <1>3, <1>4, <1>5, <1>6, <1>7, <1>8 DEF Half

\* Every step keeps the types.
LEMMA TypesStep == ASSUME Turn, Types, [Next]_vars PROVE Types'
<1>1. CASE \E c \in Commands : \E a \in Args(c) : Start(c, a)
  BY <1>1, PwSame DEF Start, world
<1>2. CASE Reads \/ Make \/ RenderClusterTemplate \/ MergeProxy
           \/ ConfigClean \/ SreSecrets \/ SkipGitea
  BY <1>2, PlainTypes, MakeTypes, PresetTypes, SreTypes
<1>3. CASE UndeployKind
  BY <1>3, WipeTypes DEF UndeployKind
<1>4. CASE KindCluster
  BY <1>4, KindClusterTypes DEF KindCluster
<1>5. CASE CreateOrUpdateGiteaSecret \/ CreateOrUpdateGiteaAccount
  <2>1. Running
    BY <1>5, StepMoves, AtRuns DEF Step
  <2> QED BY <1>5, <2>1, GiteaSecretTypes, GiteaAccountTypes
<1>6. CASE KeycloakSecret \/ GiteaHelm \/ ArgoHelm \/ Login \/ LoginRetried
           \/ LoginInverted \/ RootApp \/ OrchCA
  BY <1>6, KeycloakTypes, GiteaHelmTypes, ArgoHelmTypes, SessionTypes,
     RootAppTypes, PlainTypes
<1>7. CASE RouterStart \/ RouterStop \/ CheckApps \/ KeysSecret \/ WriteKeys
           \/ Unseal
  BY <1>7, PlainTypes, CheckTypes, VaultTypes
<1>8. CASE StopGiteaProxy \/ StopAllKubectlProxies \/ StartGiteaPortForward
             \/ Forwarding \/ SavePid \/ ProxyEnds
  BY <1>8, PortTypes
<1>9. CASE Applications \/ Addresses \/ VaultInit \/ VaultRestart
  BY <1>9, ClusterTypes, VaultTypes
<1>10. CASE CallFails
  BY <1>10, HalfTypes DEF CallFails
<1>11. CASE UNCHANGED vars
  BY <1>11, PwSame DEF vars, world
<1> QED BY <1>1, <1>2, <1>3, <1>4, <1>5, <1>6, <1>7, <1>8, <1>9, <1>10, <1>11
     DEF Next, Step, Cluster

\* The types, spelled as the runs check them.
LEMMA RunsTyped ==
    ASSUME Turn, Types PROVE TypeOK
<1>1. /\ pw.keycloak \in Passwords /\ pw.argo \in Passwords
      /\ pw.secret \in [Users -> Passwords]
      /\ pw.account \in [Users -> Passwords] /\ pw.weak \in BOOLEAN
  BY DEF Types, Pws
<1>2. \A a \in AppNames :
        {apps[a].age, apps[a].since} \subseteq 0..Limit[a] + 1
  <2>1. ASSUME NEW a \in AppNames
        PROVE  {apps[a].age, apps[a].since} \subseteq 0..Limit[a] + 1
    <3>1. /\ apps[a].age \in Nat /\ apps[a].since \in Nat
          /\ apps[a].age <= Limit[a] + 1 /\ apps[a].since <= Limit[a] + 1
      BY DEF Types, Ages
    <3>2. Limit[a] \in Nat
      BY KindDeployAssumption
    <3> QED BY <3>1, <3>2
  <2> QED BY <2>1
<1>3. /\ things \subseteq Kinds /\ vault.shares \in 0..Threshold
      /\ proxy.file \in 0..MaxCommands
  BY DEF Types
<1>4. cmd # "none" =>
         /\ cmd \in DOMAIN Program /\ todo # <<>> /\ arg \in Args(cmd)
         /\ job.i \in 1..(IF At("share") THEN Shares ELSE Len(GiteaUsers))
  BY DEF Turn, Idle, Running
<1>5. CommandType /\ clean \in BOOLEAN
  BY DEF Turn, CommandType
<1> QED BY <1>1, <1>2, <1>3, <1>4, <1>5 DEF TypeOK, Types, Kinds, Stages

\* The types of an untouched machine.
LEMMA InitTypes == Init => Turn /\ Types
<1> SUFFICES ASSUME Init PROVE Turn /\ Types
  OBVIOUS
<1>1. Turn
  <2>1. Idle
    BY DEF Init, Idle
  <2> QED BY <2>1, KindDeployAssumption DEF Init, Turn
<1>2. Types
  <2>1. /\ pw = Unused /\ apps = NoApps /\ vault = NoVault
        /\ preset = [stage |-> "none", features |-> {}]
        /\ cluster = 0 /\ things = {} /\ addr = {} /\ session = 0
        /\ proxy = [pids |-> {}, file |-> 0]
    BY DEF Init
  <2>2. 0 \in 0..MaxCommands
    BY KindDeployAssumption
  <2>3. Unused \in Pws
    <3>1. 0 \in Passwords
      BY KindDeployAssumption DEF Passwords, FromEnv
    <3>2. NoPasswords \in [Users -> Passwords]
      BY <3>1 DEF NoPasswords
    <3> QED BY <3>1, <3>2 DEF Unused, Pws
  <2>4. Ages
    <3>1. NoApps \in [AppNames -> [st : States, age : Nat, since : Nat]]
      BY DEF NoApps, States
    <3>2. ASSUME NEW a \in AppNames
          PROVE  apps[a].age <= Limit[a] + 1 /\ apps[a].since <= Limit[a] + 1
      <4>1. apps[a].age = 0 /\ apps[a].since = 0
        BY <2>1 DEF NoApps
      <4>2. Limit[a] \in Nat
        BY KindDeployAssumption
      <4> QED BY <4>1, <4>2
    <3> QED BY <2>1, <3>1, <3>2 DEF Ages
  <2>5. NoVault \in
          [keys : BOOLEAN, shares : 0..Threshold, at : 0..MaxCommands]
    BY KindDeployAssumption DEF NoVault
  <2>6. preset.stage = "none" /\ preset.features = {}
    BY <2>1
  <2>7. proxy \in [pids : SUBSET (0..MaxCommands), file : 0..MaxCommands]
    BY <2>1, <2>2
  <2> QED BY <2>1, <2>2, <2>3, <2>4, <2>5, <2>6, <2>7 DEF Types, Stages
<1> QED BY <1>1, <1>2

\* Whatever is run, fails or happens in the cluster, all variables keep their
\* types, a running command has a step left, and its loops stay in their
\* lists.
THEOREM TypeCorrect == Spec => []TypeOK
<1>1. Init => Turn /\ Types
  BY InitTypes
<1>2. Turn /\ Types /\ [Next]_vars => (Turn /\ Types)'
  BY TurnStep, TypesStep
<1>3. Turn /\ Types => TypeOK
  BY RunsTyped
<1> QED BY <1>1, <1>2, <1>3, PTL DEF Spec

-----------------------------------------------------------------------------
(* The port-forward and the pid on file *)

\* The steps left tell the current one.
LEMMA HeadOfTodo ==
    ASSUME Running
    PROVE  /\ Len(todo) \in 1..Len(Program[cmd])
           /\ Head(todo) = Program[cmd][Len(Program[cmd]) - Len(todo) + 1]
<1>1. Program[cmd] \in Seq(Steps)
  BY Programs DEF Running, Whole
<1> QED BY <1>1, HeadOfRest DEF Running

\* The steps of startGiteaProxy behind the stop of the old one.
Forwards == {"portForward", "forwarding", "savePid"}

\* No other program has them.
LEMMA Backward ==
    \A c \in DOMAIN Program \ {"startProxy"} :
      Program[c] \in Seq(Steps \ Forwards)
<1> DEFINE Others == Steps \ Forwards
<1>1. /\ UsePreset \in Seq(Others) /\ <<"validate">> \in Seq(Others)
      /\ <<"namespaces">> \in Seq(Others)
  BY DEF Steps, Forwards, UsePreset
<1>2. Kind \in Seq(Others) /\ LocalSecret \in Seq(Others)
  BY DEF Steps, Forwards, Kind, LocalSecret
<1>3. Gitea \in Seq(Others) /\ Argocd \in Seq(Others)
  BY DEF Steps, Forwards, Gitea, Argocd
<1>4. <<"restoreTls", "metalLB", "metalSetup", "mailpit", "giteaTls",
        "argoTls">> \in Seq(Others)
  BY DEF Steps, Forwards
<1>5. /\ <<"routerStop", "routerStart", "loginRetried", "repos",
           "chartOrg">> \in Seq(Others)
      /\ OrchLocal \in Seq(Others)
  BY DEF Steps, Forwards, OrchLocal
<1>6. /\ <<"configClean">> \in Seq(Others) /\ <<"login">> \in Seq(Others)
      /\ <<"login", "repos">> \in Seq(Others)
      /\ <<"loginInverted", "repos">> \in Seq(Others)
      /\ <<"sreMetrics">> \in Seq(Others)
      /\ <<"kyvernoPolicy">> \in Seq(Others) /\ <<"orchCA">> \in Seq(Others)
      /\ <<"routerStart">> \in Seq(Others)
      /\ <<"routerStop", "routerStart">> \in Seq(Others)
      /\ <<"routerStop">> \in Seq(Others)
  BY DEF Steps, Forwards
<1>7. /\ <<"poll">> \in Seq(Others) /\ <<"stopProxy">> \in Seq(Others)
      /\ <<"stopAllProxies">> \in Seq(Others)
      /\ <<"keysSecret", "writeKeys">> \in Seq(Others)
      /\ <<"keysSecret", "share">> \in Seq(Others)
      /\ <<"undeploy">> \in Seq(Others)
  BY DEF Steps, Forwards
<1> HIDE DEF Others
<1>8. PreOrchDeploy \in Seq(Others)
  BY <1>1, <1>2, <1>3, <1>4, <1>5, Joining DEF PreOrchDeploy
<1>9. All \in Seq(Others)
  BY <1>1, <1>2, <1>5, <1>8, Joining DEF All
<1>10. UsePreset \o All \in Seq(Others) /\ Kind \o PreOrchDeploy \in Seq(Others)
  BY <1>1, <1>2, <1>8, <1>9, Joining
<1>11. DOMAIN Program =
        {"kindAll", "kindPreset", "kind", "usePreset", "configClean",
         "orchLocal", "gitea", "argocd", "argoLogin", "addGithubRepos",
         "addLocalRepos", "victoriaMetrics", "kyverno", "orchCA",
         "routerStart", "routerRestart", "routerStop", "wait", "startProxy",
         "stopProxy", "stopAllProxies", "vaultKeys", "unseal", "undeploy"}
  BY DEF Program
<1>12. /\ Program["kindAll"] \in Seq(Others)
       /\ Program["kindPreset"] \in Seq(Others)
       /\ Program["kind"] \in Seq(Others)
       /\ Program["usePreset"] \in Seq(Others)
       /\ Program["orchLocal"] \in Seq(Others)
       /\ Program["gitea"] \in Seq(Others) /\ Program["argocd"] \in Seq(Others)
  BY <1>1, <1>3, <1>5, <1>9, <1>10 DEF Program
<1>13. /\ Program["configClean"] \in Seq(Others)
       /\ Program["argoLogin"] \in Seq(Others)
       /\ Program["addGithubRepos"] \in Seq(Others)
       /\ Program["addLocalRepos"] \in Seq(Others)
       /\ Program["victoriaMetrics"] \in Seq(Others)
       /\ Program["kyverno"] \in Seq(Others)
       /\ Program["orchCA"] \in Seq(Others)
       /\ Program["routerStart"] \in Seq(Others)
       /\ Program["routerRestart"] \in Seq(Others)
       /\ Program["routerStop"] \in Seq(Others)
  BY <1>6 DEF Program
<1>14. /\ Program["wait"] \in Seq(Others)
       /\ Program["stopProxy"] \in Seq(Others)
       /\ Program["stopAllProxies"] \in Seq(Others)
       /\ Program["vaultKeys"] \in Seq(Others)
       /\ Program["unseal"] \in Seq(Others)
       /\ Program["undeploy"] \in Seq(Others)
  BY <1>7 DEF Program
<1> QED BY <1>11, <1>12, <1>13, <1>14 DEF Others

\* No other command is at one of them.
LEMMA NoForward ==
    ASSUME Running, cmd # "startProxy" PROVE Head(todo) \notin Forwards
<1>1. Program[cmd] \in Seq(Steps \ Forwards)
  BY Backward DEF Running
<1>2. PICK p, k : p = Program[cmd] /\ k = Len(p) - Len(todo) + 1
  OBVIOUS
<1>3. p \in Seq(Steps \ Forwards) /\ Head(todo) = p[k]
      /\ Len(todo) \in 1..Len(p)
  BY <1>1, <1>2, HeadOfTodo
<1>4. k \in 1..Len(p)
  BY <1>2, <1>3
<1> QED BY <1>3, <1>4

\* The steps of startGiteaProxy, by their number.
LEMMA ProxyProgram ==
    ASSUME Running, cmd = "startProxy"
    PROVE  \/ Len(todo) = 4 /\ Head(todo) = "stopProxy"
           \/ Len(todo) = 3 /\ Head(todo) = "portForward"
           \/ Len(todo) = 2 /\ Head(todo) = "forwarding"
           \/ Len(todo) = 1 /\ Head(todo) = "savePid"
<1>1. PICK p : p = Program[cmd]
  OBVIOUS
<1>2. p = <<"stopProxy", "portForward", "forwarding", "savePid">>
  BY <1>1 DEF Program
<1>3. /\ p[1] = "stopProxy" /\ p[2] = "portForward" /\ p[3] = "forwarding"
      /\ p[4] = "savePid" /\ Len(p) = 4
  BY <1>2
<1>4. Len(todo) \in 1..4 /\ Head(todo) = p[4 - Len(todo) + 1]
  BY <1>1, <1>3, HeadOfTodo
<1>5. PICK n \in 1..4 : n = Len(todo)
  BY <1>4
<1>6. Head(todo) = p[5 - n]
  <2>1. 4 - n + 1 = 5 - n
    OBVIOUS
  <2> QED BY <1>4, <1>5, <2>1
<1>7. CASE n = 1
  <2>1. Head(todo) = p[4]
    BY <1>6, <1>7
  <2> QED BY <1>3, <1>5, <1>7, <2>1
<1>8. CASE n = 2
  <2>1. Head(todo) = p[3]
    BY <1>6, <1>8
  <2> QED BY <1>3, <1>5, <1>8, <2>1
<1>9. CASE n = 3
  <2>1. Head(todo) = p[2]
    BY <1>6, <1>9
  <2> QED BY <1>3, <1>5, <1>9, <2>1
<1>10. CASE n = 4
  <2>1. Head(todo) = p[1]
    BY <1>6, <1>10
  <2> QED BY <1>3, <1>5, <1>10, <2>1
<1> QED BY <1>7, <1>8, <1>9, <1>10

\* What becomes of a command in a step.
LEMMA Goes ==
    ASSUME Turn, Running, Moves, fails' \in 0..MaxFails, clean' \in BOOLEAN
    PROVE  \/ /\ cmd' = "none" /\ todo' = <<>>
              /\ (~ok' \/ (ok' /\ Len(todo) = 1 /\ Advance))
           \/ /\ Running' /\ UNCHANGED <<cmd, arg, done>> /\ job' = NewJob
              /\ Len(todo') = Len(todo) - 1 /\ ticks' = Ticks
              /\ Advance
           \/ /\ Running' /\ UNCHANGED <<cmd, arg, done, todo>>
              /\ \/ NextItem \/ Within(job) \/ Waited
           \/ /\ Running' /\ UNCHANGED <<cmd, arg, done>>
              /\ Len(todo') = Len(todo) - 1 /\ At("giteaHelm")
              /\ job' = [i |-> 2]
<1>1. CASE Return(FALSE)
  BY <1>1 DEF Return
<1>2. CASE Advance
  <2>1. CASE Len(todo) = 1 /\ Return(TRUE)
    BY <1>2, <2>1 DEF Return
  <2>2. CASE ~(Len(todo) = 1 /\ Return(TRUE))
    BY <1>2, <2>2, FirstItem, Advances DEF Advance
  <2> QED BY <2>1, <2>2
<1>3. CASE At("giteaHelm") /\ AdvanceWith(1, [i |-> 2])
  <2>1. [i |-> 2] \in [i : Nat] /\ [i |-> 2].i = 2
    OBVIOUS
  <2>2. Len(todo) # 1
    BY <1>3, HelmPlace DEF Running
  <2> QED BY <1>3, <2>1, <2>2, Advances
<1>4. CASE NextItem \/ Within(job) \/ Waited
  <2>1. UNCHANGED <<cmd, arg, done, todo>> /\ Turn'
    BY <1>4, MovesTurn DEF NextItem, Within, Waited
  <2>2. Running'
    BY <2>1 DEF Turn, Idle, Running
  <2> QED BY <1>4, <2>1, <2>2
<1> QED BY <1>1, <1>2, <1>3, <1>4 DEF Moves

\* What runs is on file, or was started by the command that is about to put it
\* there, which has stopped the one on file before.
Pids ==
    fails = 0 =>
      /\ cmd # "startProxy" => proxy.pids \subseteq {proxy.file}
      /\ cmd = "startProxy" =>
           /\ Len(todo) = 4 => proxy.pids \subseteq {proxy.file}
           /\ Len(todo) = 3 => proxy.pids = {}
           /\ Len(todo) \in {1, 2} => proxy.pids \subseteq {done}

\* ... which does not change with what does not.
LEMMA PidsSame ==
    ASSUME Pids, UNCHANGED <<fails, proxy, cmd, todo, done>> PROVE Pids'
  BY DEF Pids

\* The steps that leave the port-forward alone.
LEMMA ProxyKept ==
    ASSUME Step, ~StopGiteaProxy, ~StopAllKubectlProxies,
           ~StartGiteaPortForward, ~Forwarding, ~SavePid
    PROVE  UNCHANGED <<proxy, fails>>
<1>1. UNCHANGED fails
  BY StepMoves DEF same
<1>2. CASE Reads \/ Make \/ RenderClusterTemplate \/ MergeProxy
           \/ ConfigClean \/ UndeployKind \/ KindCluster \/ KeycloakSecret
  BY <1>1, <1>2 DEF Reads, Make, RenderClusterTemplate, MergeProxy, ConfigClean,
              UndeployKind, KindCluster, KeycloakSecret, world, machine
<1>3. CASE SreSecrets \/ SkipGitea \/ CreateOrUpdateGiteaSecret
           \/ GiteaHelm \/ CreateOrUpdateGiteaAccount \/ ArgoHelm
  BY <1>1, <1>3 DEF SreSecrets, SkipGitea, CreateOrUpdateGiteaSecret, GiteaHelm,
              CreateOrUpdateGiteaAccount, ArgoHelm, world, machine
<1>4. CASE Login \/ LoginRetried \/ LoginInverted \/ RootApp \/ OrchCA
           \/ RouterStart \/ RouterStop \/ CheckApps
  BY <1>1, <1>4 DEF Login, LoginRetried, LoginInverted, RootApp, OrchCA,
              RouterStart, RouterStop, CheckApps, machine
<1>5. CASE KeysSecret \/ WriteKeys \/ Unseal
  BY <1>1, <1>5 DEF KeysSecret, WriteKeys, Unseal, world, machine
<1> QED BY <1>1, <1>2, <1>3, <1>4, <1>5 DEF Step

\* The other commands stop a port-forward, if anything.
LEMMA PidsOutside ==
    ASSUME Turn, Running, Types, Pids, Step, cmd # "startProxy" PROVE Pids'
<1>1. ~StartGiteaPortForward /\ ~Forwarding /\ ~SavePid
  BY NoForward DEF StartGiteaPortForward, Forwarding, SavePid, WaitFor, At,
     Forwards
<1>2. cmd' # "startProxy" /\ fails' = fails
  BY StepMoves, Goes DEF same, Turn
<1>3. CASE StopGiteaProxy
  <2>1. proxy'.pids = proxy.pids \ {proxy.file}
    BY <1>3 DEF StopGiteaProxy
  <2> QED BY <1>2, <2>1 DEF Pids
<1>4. CASE StopAllKubectlProxies
  <2>1. proxy'.pids = {}
    BY <1>4 DEF StopAllKubectlProxies, Types
  <2> QED BY <1>2, <2>1 DEF Pids
<1>5. CASE ~StopGiteaProxy /\ ~StopAllKubectlProxies
  <2>1. UNCHANGED proxy
    BY <1>1, <1>5, ProxyKept
  <2> QED BY <1>2, <2>1 DEF Pids
<1> QED BY <1>3, <1>4, <1>5

\* startGiteaProxy stops the old one, starts its own, kills it when it does
\* not answer, and puts it on file.
LEMMA PidsInside ==
    ASSUME Turn, Running, Types, Pids, Step, cmd = "startProxy" PROVE Pids'
<1>1. /\ Moves /\ fails' = fails /\ fails' \in 0..MaxFails
      /\ clean' \in BOOLEAN
  BY StepMoves DEF same, Turn
<1>2. proxy \in [pids : SUBSET (0..MaxCommands), file : 0..MaxCommands]
  BY DEF Types
<1>3. CASE fails # 0
  BY <1>1, <1>3 DEF Pids
<1>4. CASE fails = 0 /\ StopGiteaProxy
  <2>1. Len(todo) = 4 /\ proxy'.pids = {} /\ Advance
    BY <1>4, ProxyProgram DEF StopGiteaProxy, At, Pids
  <2>2. cmd' = cmd /\ Len(todo') = 3
    BY <2>1, Advances, FirstItem, <1>1 DEF Advance
  <2> QED BY <2>1, <2>2 DEF Pids
<1>5. CASE fails = 0 /\ StartGiteaPortForward
  <2>1. Len(todo) = 3 /\ proxy.pids = {} /\ (Advance \/ Return(FALSE))
    BY <1>5, ProxyProgram DEF StartGiteaPortForward, At, Pids, Require
  <2>2. CASE "gitea" \in things
    <3>1. Advance /\ proxy'.pids = {done}
      BY <1>2, <1>5, <2>1, <2>2 DEF StartGiteaPortForward, Require
    <3>2. cmd' = cmd /\ Len(todo') = 2 /\ done' = done
      BY <2>1, <3>1, Advances, FirstItem, <1>1 DEF Advance
    <3> QED BY <3>1, <3>2 DEF Pids
  <2>3. CASE "gitea" \notin things
    <3>1. cmd' = "none" /\ proxy' = proxy
      BY <1>5, <2>3 DEF StartGiteaPortForward, Require, Return
    <3> QED BY <2>1, <3>1 DEF Pids
  <2> QED BY <2>2, <2>3
<1>6. CASE fails = 0 /\ Forwarding
  <2>1. Len(todo) = 2 /\ proxy.pids \subseteq {done}
    BY <1>6, ProxyProgram DEF Forwarding, WaitFor, At, Pids
  <2>2. CASE cmd' = "none"
    <3>1. proxy'.pids = proxy.pids \ {done}
      BY <1>2, <1>6, <2>2 DEF Forwarding, KillForward
    <3> QED BY <2>1, <2>2, <3>1 DEF Pids
  <2>3. CASE cmd' # "none"
    <3>1. proxy' = proxy
      BY <1>6, <2>3 DEF Forwarding
    <3>2. /\ cmd' = cmd /\ done' = done
          /\ Len(todo') = Len(todo) \/ Len(todo') = Len(todo) - 1
      BY <1>1, <2>3, Goes
    <3> QED BY <2>1, <3>1, <3>2 DEF Pids
  <2> QED BY <2>2, <2>3
<1>7. CASE fails = 0 /\ SavePid
  <2>1. /\ Len(todo) = 1 /\ Advance /\ proxy.pids \subseteq {done}
        /\ proxy' = [proxy EXCEPT !.file = done]
    BY <1>7, ProxyProgram DEF SavePid, At, Pids
  <2>2. proxy'.pids = proxy.pids /\ proxy'.file = done
    BY <1>2, <2>1
  <2>3. cmd' = "none"
    BY <2>1 DEF Advance, AdvanceWith, Return
  <2> QED BY <2>1, <2>2, <2>3 DEF Pids
<1>8. CASE /\ ~StopGiteaProxy /\ ~StartGiteaPortForward
           /\ ~Forwarding /\ ~SavePid
  <2>1. Head(todo) \in {"stopProxy", "portForward", "forwarding", "savePid"}
        /\ todo # <<>>
    BY ProxyProgram DEF Running
  <2>2. ~(Reads \/ Make \/ RenderClusterTemplate \/ MergeProxy
           \/ ConfigClean \/ UndeployKind \/ KindCluster \/ KeycloakSecret)
    BY <2>1 DEF Reads, ReadOnly, Make, Things, RenderClusterTemplate,
                MergeProxy, ConfigClean, UndeployKind, KindCluster,
                KeycloakSecret, At
  <2>3. ~(SreSecrets \/ SkipGitea \/ CreateOrUpdateGiteaSecret
           \/ GiteaHelm \/ CreateOrUpdateGiteaAccount \/ ArgoHelm)
    BY <2>1 DEF SreSecrets, SkipGitea, CreateOrUpdateGiteaSecret, GiteaHelm,
                CreateOrUpdateGiteaAccount, ArgoHelm, InGitea, At
  <2>4. ~(Login \/ LoginRetried \/ LoginInverted \/ RootApp \/ OrchCA
           \/ RouterStart \/ RouterStop \/ CheckApps)
    BY <2>1 DEF Login, LoginRetried, LoginInverted, RootApp, OrchCA,
                RouterStart, RouterStop, CheckApps, WaitFor, At
  <2>5. ~(KeysSecret \/ WriteKeys \/ Unseal \/ StopAllKubectlProxies)
    BY <2>1 DEF KeysSecret, WriteKeys, Unseal, StopAllKubectlProxies,
                WaitFor, At
  <2> QED BY <1>8, <2>2, <2>3, <2>4, <2>5 DEF Step
<1> QED BY <1>3, <1>4, <1>5, <1>6, <1>7, <1>8

\* Every step keeps what runs on file.
LEMMA PidsStep == ASSUME Turn, Types, Pids, [Next]_vars PROVE Pids'
<1>1. CASE \E c \in Commands : \E a \in Args(c) : Start(c, a)
  <2>1. PICK c \in Commands : \E a \in Args(c) : Start(c, a)
    BY <1>1
  <2>2. /\ UNCHANGED <<proxy, fails>> /\ cmd = "none" /\ cmd' = c
        /\ todo' = Program[c] /\ c \in DOMAIN Program
    BY <2>1, CommandsAssumption DEF Start, Begin, world, machine
  <2>3. c = "startProxy" => Len(todo') = 4
    BY <2>2 DEF Program
  <2> QED BY <2>2, <2>3 DEF Pids
<1>2. CASE Step
  <2>1. Running
    BY <1>2, StepMoves, AtRuns
  <2> QED BY <1>2, <2>1, PidsOutside, PidsInside
<1>3. CASE CallFails
  <2>1. fails' # 0
    BY <1>3 DEF CallFails, Fault, Turn
  <2> QED BY <2>1 DEF Pids
<1>4. CASE Applications \/ Addresses \/ VaultInit \/ VaultRestart
           \/ UNCHANGED vars
  <2>1. UNCHANGED <<fails, proxy, cmd, todo, done>>
    BY <1>4 DEF Applications, Addresses, VaultInit, VaultRestart, vars, world,
                machine, command, same
  <2> QED BY <2>1, PidsSame
<1>5. CASE ProxyEnds
  <2>1. UNCHANGED <<fails, cmd, todo, done>> /\ proxy'.pids = {}
    BY <1>5 DEF ProxyEnds, command, same, Types
  <2> QED BY <2>1 DEF Pids
<1> QED BY <1>1, <1>2, <1>3, <1>4, <1>5 DEF Next, Cluster

\* The port-forward that runs is the one whose pid is on file, so that the
\* next start or stop ends it, for any number of commands, as long as no call
\* fails.
THEOREM ForwardsAreOnFile == Spec => []ProxyIsOnFile
<1>1. Init => Turn /\ Types /\ Pids
  <2>1. Init => Pids
    BY DEF Init, Pids
  <2> QED BY <2>1, InitTypes
<1>2. Turn /\ Types /\ Pids /\ [Next]_vars => (Turn /\ Types /\ Pids)'
  BY TurnStep, TypesStep, PidsStep
<1>3. Turn /\ Types /\ Pids => ProxyIsOnFile
  BY DEF Pids, ProxyIsOnFile
<1> QED BY <1>1, <1>2, <1>3, PTL DEF Spec

-----------------------------------------------------------------------------
(* Unsealing Vault *)

\* The step that an action is taken at.
LEMMA Heads ==
    /\ Reads => Head(todo) \in {"validate", "checkTarget", "saveTls",
                                "restoreTls", "cachePem", "revision"}
    /\ Make => Head(todo) \in
         {"tools", "policy", "cacheCert", "nodeCerts", "namespaces",
          "harborSecrets", "postgresSecret", "metalLB", "metalSetup",
          "mailpit", "giteaTls", "argoTls", "registryCerts", "repos",
          "chartOrg", "kyvernoPolicy"}
    /\ RenderClusterTemplate => Head(todo) = "renderCluster"
    /\ MergeProxy => Head(todo) = "mergeProxy"
    /\ ConfigClean => Head(todo) = "configClean"
    /\ UndeployKind => Head(todo) = "undeploy"
    /\ KindCluster => Head(todo) = "kindCluster"
    /\ KeycloakSecret => Head(todo) = "keycloakSecret"
    /\ SreSecrets => Head(todo) \in {"sreSecrets", "sreMetrics"}
    /\ SkipGitea => Head(todo) \in {"giteaSecrets", "giteaHelm",
                                    "giteaAccounts"}
    /\ CreateOrUpdateGiteaSecret => Head(todo) = "giteaSecrets"
    /\ GiteaHelm => Head(todo) = "giteaHelm"
    /\ CreateOrUpdateGiteaAccount => Head(todo) = "giteaAccounts"
    /\ ArgoHelm => Head(todo) = "argoHelm"
    /\ Login => Head(todo) = "login"
    /\ LoginRetried => Head(todo) = "loginRetried"
    /\ LoginInverted => Head(todo) = "loginInverted"
    /\ RootApp => Head(todo) = "rootApp"
    /\ OrchCA => Head(todo) = "orchCA"
    /\ RouterStart => Head(todo) = "routerStart"
    /\ RouterStop => Head(todo) = "routerStop"
    /\ CheckApps => Head(todo) = "poll"
    /\ StopGiteaProxy => Head(todo) = "stopProxy"
    /\ StopAllKubectlProxies => Head(todo) = "stopAllProxies"
    /\ StartGiteaPortForward => Head(todo) = "portForward"
    /\ Forwarding => Head(todo) = "forwarding"
    /\ SavePid => Head(todo) = "savePid"
    /\ KeysSecret => Head(todo) = "keysSecret"
    /\ WriteKeys => Head(todo) = "writeKeys"
    /\ Unseal => Head(todo) = "share"
<1>1. /\ Reads => Head(todo) \in DOMAIN ReadOnly
      /\ Make => Head(todo) \in DOMAIN Things
  BY DEF Reads, Make
<1>2. /\ DOMAIN ReadOnly = {"validate", "checkTarget", "saveTls",
                            "restoreTls", "cachePem", "revision"}
      /\ DOMAIN Things =
           {"tools", "policy", "cacheCert", "nodeCerts", "namespaces",
            "harborSecrets", "postgresSecret", "metalLB", "metalSetup",
            "mailpit", "giteaTls", "argoTls", "registryCerts", "repos",
            "chartOrg", "kyvernoPolicy"}
  BY DEF ReadOnly, Things
<1> QED
  BY <1>1, <1>2 DEF RenderClusterTemplate, MergeProxy, ConfigClean,
     UndeployKind, KindCluster, KeycloakSecret, SreSecrets, SkipGitea,
     CreateOrUpdateGiteaSecret, GiteaHelm, CreateOrUpdateGiteaAccount,
     ArgoHelm, Login, LoginRetried, LoginInverted, RootApp, OrchCA,
     RouterStart, RouterStop, CheckApps, StopGiteaProxy,
     StopAllKubectlProxies, StartGiteaPortForward, Forwarding, SavePid,
     KeysSecret, WriteKeys, Unseal, InGitea, WaitFor, At

\* The steps of unseal, by their number.
LEMMA UnsealProgram ==
    ASSUME Running, cmd = "unseal"
    PROVE  \/ Len(todo) = 2 /\ Head(todo) = "keysSecret"
           \/ Len(todo) = 1 /\ Head(todo) = "share"
<1>1. PICK p : p = Program[cmd]
  OBVIOUS
<1>2. p = <<"keysSecret", "share">>
  BY <1>1 DEF Program
<1>3. p[1] = "keysSecret" /\ p[2] = "share" /\ Len(p) = 2
  BY <1>2
<1>4. Len(todo) \in 1..2 /\ Head(todo) = p[2 - Len(todo) + 1]
  BY <1>1, <1>3, HeadOfTodo
<1>5. PICK n \in 1..2 : n = Len(todo)
  BY <1>4
<1>6. Head(todo) = p[3 - n]
  <2>1. 2 - n + 1 = 3 - n
    OBVIOUS
  <2> QED BY <1>4, <1>5, <2>1
<1>7. CASE n = 1
  <2>1. Head(todo) = p[2]
    BY <1>6, <1>7
  <2> QED BY <1>3, <1>5, <1>7, <2>1
<1>8. CASE n = 2
  <2>1. Head(todo) = p[1]
    BY <1>6, <1>8
  <2> QED BY <1>3, <1>5, <1>8, <2>1
<1> QED BY <1>7, <1>8

\* Before share i is given, i - 1 shares are, unless Vault is unsealed or its
\* pod has restarted since the command started.
Given ==
    (cmd = "unseal" /\ At("share")) =>
      \/ vault.at = done \/ vault.shares >= Threshold
      \/ vault.shares + 1 >= job.i

\* unseal waits for the keys and gives them.
LEMMA UnsealSteps ==
    ASSUME Turn, Running, cmd = "unseal", Step
    PROVE  \/ Len(todo) = 2 /\ KeysSecret
           \/ Len(todo) = 1 /\ Unseal
  BY UnsealProgram, Heads DEF Step

\* Every share counts, so that with the last one enough are given: there are
\* as many shares as the threshold asks for.
LEMMA UnsealStep ==
    ASSUME Turn, Running, Types, Given, cmd = "unseal", Step
    PROVE  /\ Given'
           /\ (cmd' = "none" /\ ok') => ~Sealed' \/ vault.at = done
<1>0. /\ Moves /\ fails' \in 0..MaxFails /\ clean' \in BOOLEAN
  BY StepMoves DEF same, Turn
<1>1. CASE Len(todo) = 2 /\ KeysSecret
  <2>1. vault' = vault
    BY <1>1 DEF KeysSecret, world, inCluster
  <2>2. ~(cmd' = "none" /\ ok') /\ (cmd' = "unseal" => job'.i = 1 \/
                                      (todo' = todo /\ ~At("share")))
    BY <1>0, <1>1, Goes, FirstItem, UnsealProgram DEF At
  <2>3. vault'.shares \in Nat
    BY <2>1, KindDeployAssumption DEF Types
  <2> QED BY <2>2, <2>3 DEF Given, At
<1>2. CASE Len(todo) = 1 /\ Unseal
  <2>1. /\ At("share") /\ vault.shares \in Nat /\ job.i \in Nat
        /\ Threshold \in Nat /\ Shares \in Nat /\ Shares >= Threshold
    BY <1>2, KindDeployAssumption DEF Unseal, Types, Running
  <2>2. /\ vault'.at = vault.at /\ vault'.shares \in Nat
        /\ Sealed => vault'.shares = vault.shares + 1
        /\ ~Sealed => vault'.shares = vault.shares
    <3>1. CASE Sealed
      <4>1. vault' = [vault EXCEPT !.shares = vault.shares + 1]
        BY <1>2, <3>1 DEF Unseal
      <4> QED BY <2>1, <3>1, <4>1 DEF Types
    <3>2. CASE ~Sealed
      <4>1. vault' = [vault EXCEPT !.shares = vault.shares]
        BY <1>2, <3>2 DEF Unseal
      <4> QED BY <2>1, <3>2, <4>1 DEF Types
    <3> QED BY <3>1, <3>2
  <2>3. \/ vault.at = done \/ vault'.shares >= Threshold
        \/ vault'.shares >= job.i
    BY <2>1, <2>2 DEF Given, Sealed
  <2>4. CASE job.i < Shares
    <3>1. job' = [job EXCEPT !.i = job.i + 1] /\ cmd' = cmd /\ done' = done
      BY <1>2, <2>4 DEF Unseal, NextShare, Within
    <3>2. job'.i = job.i + 1
      BY <3>1 DEF Running
    <3>3. cmd' # "none"
      BY <3>1
    <3> QED BY <2>1, <2>2, <2>3, <3>1, <3>2, <3>3 DEF Given
  <2>5. CASE ~(job.i < Shares)
    <3>1. cmd' = "none"
      BY <1>2, <2>5 DEF Unseal, NextShare, Advance, AdvanceWith, Return
    <3>2. vault.at = done \/ vault'.shares >= Threshold
      BY <2>1, <2>2, <2>3, <2>5
    <3> QED BY <2>1, <2>2, <3>1, <3>2 DEF Given, Sealed
  <2> QED BY <2>4, <2>5
<1> QED BY <1>1, <1>2, UnsealSteps

\* A step belongs to one command.
LEMMA CmdKept ==
    ASSUME Turn, Running, Step \/ CallFails PROVE cmd' \in {cmd, "none"}
<1>1. Moves
  BY StepMoves, CallFailsMoves
<1> QED BY <1>1 DEF Moves, Return, Advance, AdvanceWith, NextItem, Within,
           Waited

\* A call that fails ends unseal with an error.
LEMMA UnsealFails ==
    ASSUME Running, cmd = "unseal", CallFails PROVE cmd' = "none" /\ ~ok'
<1>1. Head(todo) \in {"keysSecret", "share"}
  BY UnsealProgram
<1> QED BY <1>1 DEF CallFails, Forgiven, At, Return

\* Every step keeps the count of the shares.
LEMMA GivenStep == ASSUME Turn, Types, Given, [Next]_vars PROVE Given'
<1>1. CASE \E c \in Commands : \E a \in Args(c) : Start(c, a)
  <2>1. PICK c \in Commands : \E a \in Args(c) : Start(c, a)
    BY <1>1
  <2>2. cmd' = c /\ todo' = Program[c]
    BY <2>1 DEF Start, Begin
  <2>3. c = "unseal" => Head(todo') = "keysSecret"
    BY <2>2 DEF Program
  <2> QED BY <2>2, <2>3 DEF Given, At
<1>2. CASE Step \/ CallFails
  <2>1. Running
    BY <1>2, StepMoves, AtRuns DEF Turn, CallFails, Idle
  <2>2. CASE cmd = "unseal"
    BY <1>2, <2>1, <2>2, UnsealStep, UnsealFails DEF Given
  <2>3. CASE cmd # "unseal"
    BY <1>2, <2>1, <2>3, CmdKept DEF Given
  <2> QED BY <2>2, <2>3
<1>3. CASE Applications \/ Addresses \/ ProxyEnds \/ UNCHANGED vars
  <2>1. UNCHANGED <<cmd, todo, job, done, vault>>
    BY <1>3 DEF Applications, Addresses, ProxyEnds, vars, world, inCluster,
                command
  <2> QED BY <2>1 DEF Given, At
<1>4. CASE VaultInit
  <2>1. UNCHANGED <<cmd, todo, job, done>> /\ vault'.shares = vault.shares
        /\ vault'.at = vault.at
    BY <1>4 DEF VaultInit, command, Types
  <2> QED BY <2>1 DEF Given, At
<1>5. CASE VaultRestart
  <2>1. UNCHANGED <<cmd, todo, job, done>> /\ vault'.at = done
    BY <1>5 DEF VaultRestart, command, Types
  <2> QED BY <2>1 DEF Given, At
<1> QED BY <1>1, <1>2, <1>3, <1>4, <1>5 DEF Next, Cluster

\* Vault is unsealed when unseal reports so, for any number of shares and any
\* threshold, unless its pod restarted meanwhile.
THEOREM UnsealIsReported == Spec => UnsealedWhenReported
<1>1. Init => Turn /\ Types /\ Given
  <2>1. Init => Given
    BY DEF Init, Given, At
  <2> QED BY <2>1, InitTypes
<1>2. Turn /\ Types /\ Given /\ [Next]_vars => (Turn /\ Types /\ Given)'
  BY TurnStep, TypesStep, GivenStep
<1>3. Turn /\ Types /\ Given /\ [Next]_vars =>
        [(Succeeds /\ cmd = "unseal") => ~Sealed' \/ vault.at = done]_vars
  <2> SUFFICES ASSUME Turn, Types, Given, Next, Succeeds, cmd = "unseal"
               PROVE  ~Sealed' \/ vault.at = done
    BY DEF vars
  <2>1. Running /\ cmd' = "none" /\ ok'
    BY DEF Turn, Idle, Succeeds
  <2>2. ~\E c \in Commands : \E a \in Args(c) : Start(c, a)
    BY DEF Start, Begin, Succeeds
  <2>3. ~Cluster
    BY <2>1 DEF Cluster, Applications, Addresses, VaultInit, VaultRestart,
       ProxyEnds, command, Succeeds
  <2>4. ~CallFails
    BY <2>1, UnsealFails
  <2> QED BY <2>1, <2>2, <2>3, <2>4, UnsealStep DEF Next
<1> QED BY <1>1, <1>2, <1>3, PTL DEF Spec, UnsealedWhenReported

-----------------------------------------------------------------------------
(* Deployments: every place in the program *)

\* The longest deployment: the other ones, and deploy:gitea, are parts of it.
Order ==
    <<"renderCluster", "mergeProxy", "validate", "checkTarget", "tools",
      "policy", "saveTls", "undeploy", "cacheCert", "kindCluster",
      "nodeCerts", "namespaces", "harborSecrets", "keycloakSecret",
      "postgresSecret", "sreSecrets", "restoreTls", "metalLB", "metalSetup",
      "mailpit", "giteaTls", "argoTls", "checkTarget", "giteaSecrets",
      "giteaHelm", "giteaAccounts", "checkTarget", "cachePem",
      "registryCerts", "argoHelm", "routerStop", "routerStart",
      "loginRetried", "repos", "chartOrg", "revision", "rootApp">>

\* How many of its steps come after a program's last.
Behind == [kindPreset |-> 0, kindAll |-> 0, kind |-> 2, gitea |-> 11]

\* The place of the current step in that deployment.
Place == 38 - Len(todo) - Behind[cmd]

\* Its steps, one by one.
LEMMA Ordered ==
    /\ Order[1] = "renderCluster" /\ Order[2] = "mergeProxy"
    /\ Order[3] = "validate" /\ Order[4] = "checkTarget" /\ Order[5] = "tools"
    /\ Order[6] = "policy" /\ Order[7] = "saveTls" /\ Order[8] = "undeploy"
    /\ Order[9] = "cacheCert" /\ Order[10] = "kindCluster"
    /\ Order[11] = "nodeCerts" /\ Order[12] = "namespaces"
    /\ Order[13] = "harborSecrets" /\ Order[14] = "keycloakSecret"
    /\ Order[15] = "postgresSecret" /\ Order[16] = "sreSecrets"
    /\ Order[17] = "restoreTls" /\ Order[18] = "metalLB"
    /\ Order[19] = "metalSetup" /\ Order[20] = "mailpit"
    /\ Order[21] = "giteaTls" /\ Order[22] = "argoTls"
    /\ Order[23] = "checkTarget" /\ Order[24] = "giteaSecrets"
    /\ Order[25] = "giteaHelm" /\ Order[26] = "giteaAccounts"
    /\ Order[27] = "checkTarget" /\ Order[28] = "cachePem"
    /\ Order[29] = "registryCerts" /\ Order[30] = "argoHelm"
    /\ Order[31] = "routerStop" /\ Order[32] = "routerStart"
    /\ Order[33] = "loginRetried" /\ Order[34] = "repos"
    /\ Order[35] = "chartOrg" /\ Order[36] = "revision"
    /\ Order[37] = "rootApp"
  BY DEF Order

\* The places of a step, which is one place for all but checkTarget.
LEMMA Spots ==
    ASSUME NEW k \in 1..37
    PROVE  /\ Order[k] = "renderCluster" => k = 1
           /\ Order[k] = "mergeProxy" => k = 2
           /\ Order[k] = "validate" => k = 3
           /\ Order[k] = "checkTarget" => k \in {4, 23, 27}
           /\ Order[k] = "tools" => k = 5
           /\ Order[k] = "policy" => k = 6
           /\ Order[k] = "saveTls" => k = 7
           /\ Order[k] = "undeploy" => k = 8
           /\ Order[k] = "cacheCert" => k = 9
           /\ Order[k] = "kindCluster" => k = 10
           /\ Order[k] = "nodeCerts" => k = 11
           /\ Order[k] = "namespaces" => k = 12
           /\ Order[k] = "harborSecrets" => k = 13
           /\ Order[k] = "keycloakSecret" => k = 14
           /\ Order[k] = "postgresSecret" => k = 15
           /\ Order[k] = "sreSecrets" => k = 16
           /\ Order[k] = "restoreTls" => k = 17
           /\ Order[k] = "metalLB" => k = 18
           /\ Order[k] = "metalSetup" => k = 19
           /\ Order[k] = "mailpit" => k = 20
           /\ Order[k] = "giteaTls" => k = 21
           /\ Order[k] = "argoTls" => k = 22
           /\ Order[k] = "giteaSecrets" => k = 24
           /\ Order[k] = "giteaHelm" => k = 25
           /\ Order[k] = "giteaAccounts" => k = 26
           /\ Order[k] = "cachePem" => k = 28
           /\ Order[k] = "registryCerts" => k = 29
           /\ Order[k] = "argoHelm" => k = 30
           /\ Order[k] = "routerStop" => k = 31
           /\ Order[k] = "routerStart" => k = 32
           /\ Order[k] = "loginRetried" => k = 33
           /\ Order[k] = "repos" => k = 34
           /\ Order[k] = "chartOrg" => k = 35
           /\ Order[k] = "revision" => k = 36
           /\ Order[k] = "rootApp" => k = 37
<1>1. CASE k \in {1, 2, 3, 4, 5}
  BY <1>1, Ordered
<1>2. CASE k \in {6, 7, 8, 9, 10}
  BY <1>2, Ordered
<1>3. CASE k \in {11, 12, 13, 14, 15}
  BY <1>3, Ordered
<1>4. CASE k \in {16, 17, 18, 19, 20}
  BY <1>4, Ordered
<1>5. CASE k \in {21, 22, 23, 24, 25}
  BY <1>5, Ordered
<1>6. CASE k \in {26, 27, 28, 29, 30}
  BY <1>6, Ordered
<1>7. CASE k \in {31, 32, 33, 34, 35}
  BY <1>7, Ordered
<1>8. CASE k \in {36, 37}
  BY <1>8, Ordered
<1> QED BY <1>1, <1>2, <1>3, <1>4, <1>5, <1>6, <1>7, <1>8

\* p is the l steps behind the first n.
Fits(p, n, l) ==
    /\ p \in Seq(Steps) /\ Len(p) = l /\ n + l <= 37
    /\ \A i \in 1..l : n + i \in 1..37 /\ p[i] = Order[n + i]

\* Parts that follow one another fit together.
LEMMA FitsJoin ==
    ASSUME NEW s, NEW t, NEW n \in Nat, NEW m \in Nat, NEW a \in Nat,
           NEW b \in Nat, Fits(s, n, a), Fits(t, m, b), n + a = m
    PROVE  Fits(s \o t, n, a + b)
<1>1. PICK p : p = s \o t
  OBVIOUS
<1>2. s \in Seq(Steps) /\ t \in Seq(Steps) /\ Len(s) = a /\ Len(t) = b
  BY DEF Fits
<1>3. /\ p \in Seq(Steps) /\ Len(p) = a + b
      /\ \A i \in 1..a : p[i] = s[i]
      /\ \A i \in 1..b : p[a + i] = t[i]
  <2>1. p \in Seq(Steps) /\ Joins(p, s, t)
    BY <1>1, <1>2, Joining
  <2>2. /\ Len(p) = Len(s) + Len(t) /\ \A i \in 1..Len(s) : p[i] = s[i]
        /\ \A i \in 1..Len(t) : p[Len(s) + i] = t[i]
    BY <2>1 DEF Joins
  <2>3. Len(p) = a + b /\ \A i \in 1..a : p[i] = s[i]
    BY <1>2, <2>2
  <2>4. \A i \in 1..b : p[a + i] = t[i]
    BY <1>2, <2>2
  <2> QED BY <2>1, <2>3, <2>4
<1>4. n + (a + b) <= 37
  <2>1. m + b <= 37
    BY DEF Fits
  <2> QED BY <2>1
<1>5. ASSUME NEW i \in 1..(a + b)
      PROVE  n + i \in 1..37 /\ p[i] = Order[n + i]
  <2>1. CASE i \in 1..a
    <3>1. p[i] = s[i] /\ s[i] = Order[n + i] /\ n + i \in 1..37
      BY <1>2, <1>3, <2>1 DEF Fits
    <3> QED BY <3>1
  <2>2. CASE i \notin 1..a
    <3>1. PICK k \in 1..b : i = a + k
      <4>1. i - a \in 1..b /\ i = a + (i - a)
        BY <2>2
      <4> QED BY <4>1
    <3>2. m + k \in 1..37 /\ t[k] = Order[m + k]
      BY <1>2, <3>1 DEF Fits
    <3>3. m + k = n + i
      BY <3>1
    <3>4. p[i] = t[k]
      BY <1>3, <3>1
    <3> QED BY <3>2, <3>3, <3>4
  <2> QED BY <2>1, <2>2
<1> QED BY <1>1, <1>3, <1>4, <1>5 DEF Fits

\* The places of the parts.
LEMMA FitsParts ==
    /\ Fits(UsePreset, 0, 2) /\ Fits(<<"validate">>, 2, 1)
    /\ Fits(Kind, 3, 8) /\ Fits(<<"namespaces">>, 11, 1)
    /\ Fits(LocalSecret, 12, 4)
    /\ Fits(<<"restoreTls", "metalLB", "metalSetup", "mailpit", "giteaTls",
              "argoTls">>, 16, 6)
    /\ Fits(Gitea, 22, 4) /\ Fits(Argocd, 26, 4)
    /\ Fits(<<"routerStop", "routerStart", "loginRetried", "repos",
              "chartOrg">>, 30, 5)
    /\ Fits(OrchLocal, 35, 2)
<1>1. Fits(UsePreset, 0, 2)
  BY Ordered DEF Fits, Steps, UsePreset
<1>2. Fits(<<"validate">>, 2, 1)
  BY Ordered DEF Fits, Steps
<1>3. Fits(Kind, 3, 8)
  BY Ordered DEF Fits, Steps, Kind
<1>4. Fits(<<"namespaces">>, 11, 1)
  BY Ordered DEF Fits, Steps
<1>5. Fits(LocalSecret, 12, 4)
  BY Ordered DEF Fits, Steps, LocalSecret
<1>6. Fits(<<"restoreTls", "metalLB", "metalSetup", "mailpit", "giteaTls",
             "argoTls">>, 16, 6)
  BY Ordered DEF Fits, Steps
<1>7. Fits(Gitea, 22, 4)
  BY Ordered DEF Fits, Steps, Gitea
<1>8. Fits(Argocd, 26, 4)
  BY Ordered DEF Fits, Steps, Argocd
<1>9. Fits(<<"routerStop", "routerStart", "loginRetried", "repos",
             "chartOrg">>, 30, 5)
  BY Ordered DEF Fits, Steps
<1>10. Fits(OrchLocal, 35, 2)
  BY Ordered DEF Fits, Steps, OrchLocal
<1> QED BY <1>1, <1>2, <1>3, <1>4, <1>5, <1>6, <1>7, <1>8, <1>9, <1>10

\* ... of what is done before the Orchestrator is deployed.
LEMMA FitsPre == Fits(PreOrchDeploy, 11, 24)
<1> DEFINE n == <<"namespaces">>
           m == <<"restoreTls", "metalLB", "metalSetup", "mailpit",
                  "giteaTls", "argoTls">>
           r == <<"routerStop", "routerStart", "loginRetried", "repos",
                  "chartOrg">>
<1>1. /\ Fits(n, 11, 1) /\ Fits(LocalSecret, 12, 4) /\ Fits(m, 16, 6)
      /\ Fits(Gitea, 22, 4) /\ Fits(Argocd, 26, 4) /\ Fits(r, 30, 5)
  BY FitsParts
<1>2. PreOrchDeploy = n \o LocalSecret \o m \o Gitea \o Argocd \o r
  BY DEF PreOrchDeploy
<1> HIDE DEF n, m, r
<1>3. Fits(n \o LocalSecret, 11, 5)
  BY <1>1, FitsJoin
<1>4. Fits(n \o LocalSecret \o m, 11, 11)
  BY <1>1, <1>3, FitsJoin
<1>5. Fits(n \o LocalSecret \o m \o Gitea, 11, 15)
  BY <1>1, <1>4, FitsJoin
<1>6. Fits(n \o LocalSecret \o m \o Gitea \o Argocd, 11, 19)
  BY <1>1, <1>5, FitsJoin
<1>7. Fits(n \o LocalSecret \o m \o Gitea \o Argocd \o r, 11, 24)
  BY <1>1, <1>6, FitsJoin
<1> QED BY <1>2, <1>7

\* ... of a deployment of a given target.
LEMMA FitsAll == Fits(All, 2, 35)
<1> DEFINE v == <<"validate">>
<1>1. /\ Fits(v, 2, 1) /\ Fits(Kind, 3, 8) /\ Fits(PreOrchDeploy, 11, 24)
      /\ Fits(OrchLocal, 35, 2)
  BY FitsParts, FitsPre
<1>2. All = v \o Kind \o PreOrchDeploy \o OrchLocal
  BY DEF All
<1> HIDE DEF v
<1>3. Fits(v \o Kind, 2, 9)
  BY <1>1, FitsJoin
<1>4. Fits(v \o Kind \o PreOrchDeploy, 2, 33)
  BY <1>1, <1>3, FitsJoin
<1>5. Fits(v \o Kind \o PreOrchDeploy \o OrchLocal, 2, 35)
  BY <1>1, <1>4, FitsJoin
<1> QED BY <1>2, <1>5

\* All deployments, and deploy:gitea, are parts of the longest.
LEMMA FitsBehind ==
    ASSUME NEW c \in DOMAIN Behind
    PROVE  \E l \in 1..37 : /\ Behind[c] \in 0..37 - l
                            /\ Fits(Program[c], 37 - l - Behind[c], l)
<1>1. DOMAIN Behind = {"kindPreset", "kindAll", "kind", "gitea"}
  BY DEF Behind
<1>2. /\ Behind["kindPreset"] = 0 /\ Behind["kindAll"] = 0
      /\ Behind["kind"] = 2 /\ Behind["gitea"] = 11
  BY DEF Behind
<1>3. /\ Fits(UsePreset, 0, 2) /\ Fits(Kind, 3, 8) /\ Fits(Gitea, 22, 4)
      /\ Fits(All, 2, 35) /\ Fits(PreOrchDeploy, 11, 24)
  BY FitsParts, FitsAll, FitsPre
<1>4. CASE c = "kindPreset"
  <2>1. Fits(UsePreset \o All, 0, 37)
    BY <1>3, FitsJoin
  <2>2. Program[c] = UsePreset \o All
    BY <1>4 DEF Program
  <2>3. 37 \in 1..37 /\ 37 - 37 - 0 = 0 /\ 0 \in 0..37 - 37
    OBVIOUS
  <2> QED BY <1>2, <1>4, <2>1, <2>2, <2>3
<1>5. CASE c = "kindAll"
  <2>1. Program[c] = All
    BY <1>5 DEF Program
  <2>2. 35 \in 1..37 /\ 37 - 35 - 0 = 2 /\ 0 \in 0..37 - 35
    OBVIOUS
  <2> QED BY <1>2, <1>3, <1>5, <2>1, <2>2
<1>6. CASE c = "kind"
  <2>1. Fits(Kind \o PreOrchDeploy, 3, 32)
    BY <1>3, FitsJoin
  <2>2. Program[c] = Kind \o PreOrchDeploy
    BY <1>6 DEF Program
  <2>3. 32 \in 1..37 /\ 37 - 32 - 2 = 3 /\ 2 \in 0..37 - 32
    OBVIOUS
  <2> QED BY <1>2, <1>6, <2>1, <2>2, <2>3
<1>7. CASE c = "gitea"
  <2>1. Program[c] = Gitea
    BY <1>7 DEF Program
  <2>2. 4 \in 1..37 /\ 37 - 4 - 11 = 22 /\ 11 \in 0..37 - 4
    OBVIOUS
  <2> QED BY <1>2, <1>3, <1>7, <2>1, <2>2
<1> QED BY <1>1, <1>4, <1>5, <1>6, <1>7

\* The current step of a deployment is the one at its place.
LEMMA Placed ==
    ASSUME Running, cmd \in DOMAIN Behind
    PROVE  /\ Place \in 1..37 /\ Head(todo) = Order[Place]
           /\ Len(todo) \in Nat /\ Behind[cmd] \in Nat
<1>1. PICK p, m, b : p = Program[cmd] /\ m = Len(todo) /\ b = Behind[cmd]
  OBVIOUS
<1>2. PICK l \in 1..37 : b \in 0..37 - l /\ Fits(p, 37 - l - b, l)
  BY <1>1, FitsBehind
<1>3. m \in 1..l /\ Head(todo) = p[l - m + 1]
  BY <1>1, <1>2, HeadOfTodo DEF Fits
<1>4. PICK i \in 1..l : i = l - m + 1
  BY <1>3
<1>5. (37 - l - b) + i \in 1..37 /\ p[i] = Order[(37 - l - b) + i]
  BY <1>2, <1>4 DEF Fits
<1>6. (37 - l - b) + i = 38 - m - b
  BY <1>2, <1>3, <1>4
<1>7. Place = 38 - m - b /\ 38 - m - b \in 1..37
  BY <1>1, <1>5, <1>6 DEF Place
<1>8. Head(todo) = Order[38 - m - b]
  BY <1>3, <1>4, <1>5, <1>6
<1>9. m \in Nat /\ b \in Nat
  BY <1>2, <1>3
<1> QED BY <1>1, <1>7, <1>8, <1>9

-----------------------------------------------------------------------------
(* What a deployment has done up to a place *)

\* What the steps before the k-th have left, whatever was there when the
\* deployment started: an old cluster, router, session or certificate is gone
\* or replaced from the place on where a later step depends on it.
Deployed(k) ==
    /\ done > 0
    /\ k \in 9..10 => cluster = 0
    /\ k > 10 => cluster = done
    /\ k > 8 => "traefik" \notin addr
    /\ k \in 9..20 => "mailpit" \notin things
    /\ k \in 9..21 => "giteaTls" \notin things
    /\ k \in 9..22 => "argoTls" \notin things
    /\ (k > 9 /\ Asked("cache")) => "cacheCert" \in things
    /\ k > 12 => "namespaces" \in things
    /\ k > 18 => "metalLB" \in things
    /\ k > 19 => "metalSetup" \in things
    /\ (k > 21 /\ Asked("ao")) => "giteaTls" \in things
    /\ k > 29 => "registryCerts" \in things
    /\ k > 30 => /\ "argocd" \in things /\ "argocd" \in addr
                 /\ pw.argo = Default
    /\ (k = 32 /\ clean) => ~router.on
    /\ k > 32 => router.on /\ (clean => router.loaded.argo = cluster)
    /\ (k = 33 /\ clean /\ arg.env) => ticks = Ticks
    /\ k > 33 => session = cluster

\* A deployment has come as far as its place says.
Deploying == cmd \in Deployments => \A k \in 1..37 : k = Place => Deployed(k)

\* The fields of the router.
RouterForm ==
    router = [on |-> router.on, file |-> router.file,
              loaded |-> router.loaded]

\* A step that adds its thing, and Gitea or a password at most.
Adds(k) ==
    /\ UNCHANGED <<cluster, session, router, preset, arg, done, clean>>
    /\ k <= 29 \/ UNCHANGED pw
    /\ addr \subseteq addr' /\ addr' \subseteq addr \cup {"gitea"}
    /\ things \subseteq things'
    /\ things' \subseteq things \cup {Order[k], "gitea"}

\* The things that later steps need are there behind their steps.
Establishes(k) ==
    /\ (k = 9 /\ Asked("cache")) => "cacheCert" \in things
    /\ k = 12 => "namespaces" \in things
    /\ k = 18 => "metalLB" \in things
    /\ k = 19 => "metalSetup" \in things
    /\ (k = 21 /\ Asked("ao")) => "giteaTls" \in things
    /\ k = 29 => "registryCerts" \in things

\* The commands whose programs have a place.
LEMMA DeploymentsBehind ==
    /\ Deployments \subseteq DOMAIN Behind
    /\ DOMAIN Behind = Deployments \cup {"gitea"}
  BY DEF Behind, Deployments

\* A step left behind is a place further.
LEMMA PlaceMoves ==
    ASSUME Running, cmd \in DOMAIN Behind, cmd' = cmd
    PROVE  /\ todo' = todo => Place' = Place
           /\ Len(todo') = Len(todo) - 1 => Place' = Place + 1
<1>1. PICK m, b : m = Len(todo) /\ b = Behind[cmd]
  OBVIOUS
<1>2. m \in Nat /\ b \in Nat /\ Place = 38 - m - b
  BY <1>1, Placed DEF Place
<1>3. Place' = 38 - Len(todo') - b
  BY <1>1 DEF Place
<1> QED BY <1>1, <1>2, <1>3

\* A command that goes on behind its step.
LEMMA GoesOn ==
    ASSUME Turn, Running, Step \/ CallFails, Advance, cmd' # "none"
    PROVE  /\ Running' /\ UNCHANGED <<cmd, arg, done>> /\ ticks' = Ticks
           /\ Len(todo') = Len(todo) - 1 /\ job' = NewJob
<1>1. fails' \in 0..MaxFails /\ clean' \in BOOLEAN
  BY TurnStep DEF Next, Turn
<1>2. \/ Len(todo) = 1 /\ Return(TRUE)
      \/ /\ Running' /\ Len(todo') = Len(todo) - 1
         /\ job' = NewJob /\ UNCHANGED <<cmd, arg, ok, done>>
         /\ todo' = Tail(todo) /\ ticks' = Ticks
  BY <1>1, FirstItem, Advances DEF Advance
<1> QED BY <1>2 DEF Return

\* A requirement of a command that goes on was met.
LEMMA Required ==
    ASSUME NEW b, Require(b), cmd' # "none" PROVE b /\ Advance
  BY DEF Require, Return

\* A feature is asked for as long as the definition is the same.
LEMMA AskedSame ==
    ASSUME UNCHANGED <<preset, arg>>, NEW f PROVE Asked(f)' = Asked(f)
  BY DEF Asked, Features, Readable

\* A step that only adds keeps what the earlier steps have left.
LEMMA AddsOne ==
    ASSUME NEW k \in 9..36, k \notin {10, 30, 31, 32, 33}, Deployed(k),
           Adds(k), Establishes(k)'
    PROVE  Deployed(k + 1)'
<1>1. /\ Asked("cache")' = Asked("cache") /\ Asked("ao")' = Asked("ao")
      /\ k > 29 => Default' = Default /\ pw' = pw
  BY AskedSame DEF Adds, Default
<1>2. /\ k < 20 => Order[k] # "mailpit"
      /\ k < 21 => Order[k] # "giteaTls"
      /\ k < 22 => Order[k] # "argoTls"
  BY Spots
<1>3. /\ (k + 1 \in 9..20) => "mailpit" \notin things'
      /\ (k + 1 \in 9..21) => "giteaTls" \notin things'
      /\ (k + 1 \in 9..22) => "argoTls" \notin things'
  BY <1>2 DEF Deployed, Adds
<1>4. /\ (k + 1 > 9 /\ Asked("cache")') => "cacheCert" \in things'
      /\ (k + 1 > 21 /\ Asked("ao")') => "giteaTls" \in things'
  BY <1>1 DEF Deployed, Adds, Establishes
<1>5. /\ k + 1 > 12 => "namespaces" \in things'
      /\ k + 1 > 18 => "metalLB" \in things'
      /\ k + 1 > 19 => "metalSetup" \in things'
      /\ k + 1 > 29 => "registryCerts" \in things'
  BY DEF Deployed, Adds, Establishes
<1>6. k + 1 > 30 => /\ "argocd" \in things' /\ "argocd" \in addr'
                    /\ pw'.argo = Default'
  BY <1>1 DEF Deployed, Adds
<1>7. /\ done' > 0 /\ (k + 1 \in 9..10 => cluster' = 0)
      /\ (k + 1 > 10 => cluster' = done')
      /\ (k + 1 > 8 => "traefik" \notin addr')
  BY DEF Deployed, Adds
<1>8. /\ k + 1 # 32 /\ k + 1 # 33
      /\ k + 1 > 32 => router'.on /\ (clean' => router'.loaded.argo = cluster')
      /\ k + 1 > 33 => session' = cluster'
  BY DEF Deployed, Adds
<1> QED BY <1>3, <1>4, <1>5, <1>6, <1>7, <1>8 DEF Deployed

\* Things made by a command line of their own.
LEMMA MakeAdds ==
    ASSUME Turn, Running, Make, cmd' # "none", NEW k \in 9..36,
           Head(todo) = Order[k]
    PROVE  Adds(k) /\ Establishes(k)' /\ Advance
<1>1. PICK x : x = Head(todo)
  OBVIOUS
<1>2. /\ x = Order[k] /\ Advance
      /\ things' = things \/ things' = things \cup {x}
      /\ Asked(Things[x].when) => x \in things'
      /\ UNCHANGED <<inCluster, machine, same>>
  BY <1>1, Required DEF Make
<1>3. UNCHANGED <<arg, done>>
  BY <1>2, GoesOn DEF Step
<1>4. Adds(k)
  BY <1>2, <1>3 DEF Adds, inCluster, machine, same
<1>5. /\ Asked("cache")' = Asked("cache") /\ Asked("ao")' = Asked("ao")
      /\ Asked("")
  BY <1>4, AskedSame DEF Adds, Asked
<1>6. /\ Things["cacheCert"].when = "cache"
      /\ Things["namespaces"].when = ""
      /\ Things["metalLB"].when = "" /\ Things["metalSetup"].when = ""
      /\ Things["giteaTls"].when = "ao"
      /\ Things["registryCerts"].when = ""
  BY DEF Things, RegistryCacheCert, CreateNamespaces, MetalLB, MetalSetup,
         GiteaTls, RegistryCerts, Made, CreatedOnce
<1>7. /\ k = 9 => x = "cacheCert"
      /\ k = 12 => x = "namespaces"
      /\ k = 18 => x = "metalLB"
      /\ k = 19 => x = "metalSetup"
      /\ k = 21 => x = "giteaTls"
      /\ k = 29 => x = "registryCerts"
  BY <1>2, Ordered
<1>8. /\ (k = 9 /\ Asked("cache")') => "cacheCert" \in things'
      /\ (k = 21 /\ Asked("ao")') => "giteaTls" \in things'
  BY <1>2, <1>5, <1>6, <1>7
<1>9. /\ k = 12 => "namespaces" \in things'
      /\ k = 18 => "metalLB" \in things'
      /\ k = 19 => "metalSetup" \in things'
      /\ k = 29 => "registryCerts" \in things'
  BY <1>2, <1>5, <1>6, <1>7
<1>10. Establishes(k)'
  BY <1>8, <1>9 DEF Establishes
<1> QED BY <1>2, <1>4, <1>10

\* The other steps have no thing that is needed later.
LEMMA NoMake ==
    ASSUME NEW k \in 9..36,
           Order[k] \notin {"cacheCert", "namespaces", "metalLB",
                            "metalSetup", "giteaTls", "registryCerts"}
    PROVE  Establishes(k)'
  BY Ordered DEF Establishes

\* Steps that read, that are passed over, and two of the secrets.
LEMMA ReadAdds ==
    ASSUME Turn, Running, Reads \/ SkipGitea \/ SreSecrets \/ KeycloakSecret,
           cmd' # "none", NEW k \in 9..36, Head(todo) = Order[k],
           k <= 29 \/ Reads
    PROVE  Adds(k) /\ Establishes(k)' /\ Advance
<1>1. Advance
  BY Required DEF Reads, SkipGitea, SreSecrets, KeycloakSecret, Return
<1>2. UNCHANGED <<arg, done>>
  BY <1>1, GoesOn DEF Step
<1>3. Adds(k)
  <2>1. CASE Reads \/ SkipGitea
    BY <1>2, <2>1 DEF Reads, SkipGitea, Adds, world, inCluster, machine, same
  <2>2. CASE SreSecrets
    BY <1>2, <2>2 DEF SreSecrets, Adds, inCluster, machine, same
  <2>3. CASE KeycloakSecret
    <3>1. k <= 29
      BY <2>3, Heads, Spots
    <3> QED BY <1>2, <2>3, <3>1 DEF KeycloakSecret, Adds, machine, same
  <2> QED BY <2>1, <2>2, <2>3
<1>4. Order[k] \notin {"cacheCert", "namespaces", "metalLB",
                       "metalSetup", "giteaTls", "registryCerts"}
  BY Heads
<1> QED BY <1>1, <1>3, <1>4, NoMake

\* Gitea's server.
LEMMA GiteaHelmAdds ==
    ASSUME Turn, Running, GiteaHelm, cmd' # "none", NEW k \in 9..36,
           Head(todo) = Order[k], UNCHANGED <<arg, done>>
    PROVE  Adds(k) /\ Establishes(k)'
<1>1. k = 25
  BY Heads, Spots
<1>2. /\ things' = things \cup {"gitea"} /\ addr' = addr \cup {"gitea"}
      /\ UNCHANGED <<cluster, machine, same>>
  BY DEF GiteaHelm, Return
<1>3. Adds(k)
  BY <1>1, <1>2 DEF Adds, machine, same
<1> QED BY <1>1, <1>3 DEF Establishes

\* Gitea's secrets and accounts.
LEMMA GiteaUserAdds ==
    ASSUME Turn, Running,
           CreateOrUpdateGiteaSecret \/ CreateOrUpdateGiteaAccount,
           cmd' # "none", NEW k \in 9..36, Head(todo) = Order[k],
           UNCHANGED <<arg, done>>
    PROVE  Adds(k) /\ Establishes(k)' /\ k \in {24, 26} /\ things' = things
<1>1. k \in {24, 26}
  BY Heads, Spots
<1>2. UNCHANGED <<cluster, things, addr, machine, same>>
  BY DEF CreateOrUpdateGiteaSecret, CreateOrUpdateGiteaAccount
<1>3. Adds(k)
  BY <1>1, <1>2 DEF Adds, machine, same
<1> QED BY <1>1, <1>2, <1>3 DEF Establishes

\* ... as long as their loops go on.
LEMMA StaysDeployed ==
    ASSUME NEW k \in {24, 26}, Deployed(k), Adds(k), things' = things
    PROVE  Deployed(k)'
<1>1. Asked("cache")' = Asked("cache") /\ Asked("ao")' = Asked("ao")
  BY AskedSame DEF Adds
<1> QED BY <1>1 DEF Deployed, Adds

\* With the old cluster goes all that could be in the way.
LEMMA UndeployAdds ==
    ASSUME UndeployKind, done > 0, UNCHANGED <<arg, done>>
    PROVE  Deployed(9)'
<1>1. /\ cluster' = 0 /\ addr' = {} /\ done' > 0
      /\ things' \subseteq {"tools", "policy", "cacheCert"}
  BY DEF UndeployKind, Wipe, OnMachine
<1> QED BY <1>1 DEF Deployed

\* The new cluster is that of this process.
LEMMA KindClusterAdds ==
    ASSUME KindCluster, Deployed(10), UNCHANGED <<arg, done>>, cmd' # "none"
    PROVE  Deployed(11)'
<1>1. /\ cluster' = done'
      /\ UNCHANGED <<things, addr, done, preset, arg>>
  BY DEF KindCluster, Deployed, machine
<1>2. Asked("cache")' = Asked("cache")
  BY <1>1, AskedSame
<1> QED BY <1>1, <1>2 DEF Deployed

\* ArgoCD gets the default password of the moment.
LEMMA ArgoHelmAdds ==
    ASSUME ArgoHelm, Types, Deployed(30), UNCHANGED <<arg, done>>,
           cmd' # "none"
    PROVE  Deployed(31)'
<1>1. /\ things' = things \cup {"argocd"} /\ addr' = addr \cup {"argocd"}
      /\ pw' = [pw EXCEPT !.argo = Default]
      /\ UNCHANGED <<cluster, preset>>
  BY DEF ArgoHelm, Return, machine
<1>2. Asked("cache")' = Asked("cache") /\ Asked("ao")' = Asked("ao")
  BY <1>1, AskedSame
<1>3. pw'.argo = Default /\ pw'.keycloak = pw.keycloak
  BY <1>1 DEF Types, Pws
<1>4. pw'.argo = Default'
  BY <1>3 DEF Default, FromEnv
<1> QED BY <1>1, <1>2, <1>4 DEF Deployed

\* From there on, what the router and the client need.
LEMMA FromThirty ==
    ASSUME NEW k \in 31..36, Deployed(k),
           UNCHANGED <<cluster, things, pw, addr, preset, arg, done>>,
           (k + 1 = 32 /\ clean') => ~router'.on,
           k + 1 > 32 =>
             router'.on /\ (clean' => router'.loaded.argo = cluster'),
           (k + 1 = 33 /\ clean' /\ arg'.env) => ticks' = Ticks,
           k + 1 > 33 => session' = cluster'
    PROVE  Deployed(k + 1)'
<1>1. Asked("cache")' = Asked("cache") /\ Asked("ao")' = Asked("ao")
  BY AskedSame
<1>2. Default' = Default
  BY DEF Default
<1> QED BY <1>1, <1>2 DEF Deployed

\* The old router is stopped: its routes lead to the old cluster.
LEMMA RouterStopAdds ==
    ASSUME RouterStop, RouterForm, Deployed(31), UNCHANGED <<arg, done>>
    PROVE  Deployed(32)'
<1>1. UNCHANGED <<cluster, things, pw, addr, preset, arg, done>>
  BY DEF RouterStop, inCluster
<1>2. ~router'.on
  <2>1. PICK f, l : f = router.file /\ l = router.loaded
    OBVIOUS
  <2>2. router = [on |-> router.on, file |-> f, loaded |-> l]
    BY <2>1 DEF RouterForm
  <2>3. router' = [router EXCEPT !.on = FALSE]
    BY DEF RouterStop
  <2>4. router'.on = FALSE
    BY <2>2, <2>3
  <2> QED BY <2>4
<1>3. 31 + 1 = 32 /\ 31 \in 31..36
  OBVIOUS
<1>4. Deployed(31 + 1)'
  BY <1>1, <1>2, <1>3, FromThirty
<1> QED BY <1>3, <1>4

\* The new one reads the routes to the new cluster.
LEMMA RouterStartAdds ==
    ASSUME RouterStart, Deployed(32), UNCHANGED <<arg, done>>,
           cmd' # "none", ticks' = Ticks, clean' = clean
    PROVE  Deployed(33)'
<1>1. UNCHANGED <<cluster, things, pw, addr, preset, arg, done>>
  BY DEF RouterStart, inCluster
<1>2. PICK l \in {Conf, router.loaded} :
        /\ ~router.on \/ l.sandbox # Conf.sandbox => l = Conf
        /\ router' = [on |-> TRUE, file |-> Conf, loaded |-> l]
  BY DEF RouterStart, Return
<1>3. router'.on /\ router'.loaded = l
  BY <1>2
<1>4. clean => l = Conf
  BY <1>2 DEF Deployed
<1>5. Conf.argo = cluster
  <2>1. "argocd" \in addr
    BY DEF Deployed
  <2>2. Found("argocd") = cluster
    BY <2>1 DEF Found
  <2> QED BY <2>2 DEF Conf
<1>6. 32 + 1 = 33 /\ 32 \in 31..36
  OBVIOUS
<1>7. Deployed(32 + 1)'
  BY <1>1, <1>3, <1>4, <1>5, <1>6, FromThirty
<1> QED BY <1>6, <1>7

\* With the password in the environment, ArgoCD accepts it.
LEMMA EnvWorks ==
    ASSUME arg.env, NEW k \in 31..37, Deployed(k)
    PROVE  Acceptable /\ LoginWorks
<1>1. MaxCommands + 1 # 0
  BY KindDeployAssumption
<1>2. Acceptable
  BY <1>1 DEF Acceptable, Default, FromEnv
<1>3. "argocd" \in addr /\ pw.argo = Default
  BY DEF Deployed
<1> QED BY <1>2, <1>3 DEF LoginWorks

\* The client logs in to the new cluster.
LEMMA LoginRetriedAdds ==
    ASSUME LoginRetried, Deployed(33), UNCHANGED <<arg, done>>,
           cmd' # "none"
    PROVE  \/ Advance /\ Deployed(34)'
           \/ todo' = todo /\ Deployed(33)'
<1>1. /\ UNCHANGED <<cluster, things, pw, addr, preset, router, clean, done>>
      /\ 33 \in 31..36 /\ 33 \in 31..37 /\ 33 + 1 = 34
  BY DEF LoginRetried, inCluster, same
<1>2. CASE LoginWorks /\ Advance
  <2>1. session' = cluster'
    BY <1>1, <1>2 DEF LoginRetried
  <2>2. router'.on /\ (clean' => router'.loaded.argo = cluster')
    BY <1>1 DEF Deployed
  <2>3. Deployed(33 + 1)'
    BY <1>1, <2>1, <2>2, FromThirty
  <2> QED BY <1>1, <1>2, <2>3
<1>3. CASE ~LoginWorks /\ todo' = todo
  <2>1. ~arg.env
    BY <1>1, <1>3, EnvWorks
  <2>2. Asked("cache")' = Asked("cache") /\ Asked("ao")' = Asked("ao")
        /\ Default' = Default
    BY <1>1, AskedSame DEF Default
  <2>3. Deployed(33)'
    BY <1>1, <2>1, <2>2 DEF Deployed
  <2> QED BY <1>3, <2>3
<1> QED BY <1>2, <1>3 DEF LoginRetried, WaitFor, Return, Advance

\* A step of a deployment does what its place says.
LEMMA DeployStep ==
    ASSUME Turn, Running, Types, RouterForm, cmd \in Deployments,
           NEW k \in 1..37, k = Place, Deployed(k), Step, cmd' # "none"
    PROVE  \/ Place' = k + 1 /\ Deployed(k + 1)'
           \/ Place' = k /\ Deployed(k)'
<1>1. /\ Head(todo) = Order[k] /\ cmd \in DOMAIN Behind
  BY DeploymentsBehind, Placed
<1>2. /\ Moves /\ fails' \in 0..MaxFails /\ clean' = clean
      /\ clean' \in BOOLEAN
  BY StepMoves DEF same, Turn
<1>3. /\ UNCHANGED <<cmd, arg, done>> /\ Running'
      /\ \/ Len(todo') = Len(todo) - 1
         \/ todo' = todo
  BY <1>2, Goes
<1>4. done' > 0
  BY <1>3 DEF Deployed
<1>5. /\ (todo' = todo => Place' = k)
      /\ (Len(todo') = Len(todo) - 1 => Place' = k + 1)
      /\ Place' \in 1..37
  <2>1. Place' \in 1..37
    <3>1. cmd' \in DOMAIN Behind
      BY <1>1, <1>3
    <3>2. Len(todo') \in Nat /\ Len(todo') >= 1
      BY <1>3 DEF Running
    <3>3. PICK b : b = Behind[cmd]
      OBVIOUS
    <3>4. Place' = 38 - Len(todo') - b /\ Place = 38 - Len(todo) - b
      BY <1>3, <3>3 DEF Place
    <3>5. Place \in 1..37 /\ Len(todo) \in Nat /\ b \in Nat
      BY <1>1, <3>3, Placed
    <3>6. Place' <= 37
      BY <3>2, <3>4, <3>5
    <3>7. Place' \in {Place, Place + 1}
      BY <1>1, <1>3, PlaceMoves
    <3> QED BY <3>5, <3>6, <3>7
  <2> QED BY <1>1, <1>3, <2>1, PlaceMoves
<1>6. CASE k \in 1..7
  <2>1. k \in 1..8 /\ k + 1 \in 1..8
    BY <1>6
  <2>2. Deployed(k)' /\ Deployed(k + 1)'
    BY <1>4, <2>1 DEF Deployed
  <2> QED BY <1>3, <1>5, <2>2
<1>7. CASE k = 8
  <2>1. UndeployKind
    BY <1>1, <1>7, Ordered, Heads DEF Step
  <2>2. Advance
    BY <2>1 DEF UndeployKind
  <2>3. Place' = k + 1
    BY <1>5, <2>2, GoesOn
  <2>4. Deployed(9)'
    BY <1>3, <2>1, UndeployAdds DEF Deployed
  <2> QED BY <1>7, <2>3, <2>4
<1>8. CASE k = 10
  <2>1. KindCluster
    BY <1>1, <1>8, Ordered, Heads DEF Step
  <2>2. Advance
    BY <2>1, Required DEF KindCluster
  <2>3. Place' = k + 1
    BY <1>5, <2>2, GoesOn
  <2>4. Deployed(11)'
    BY <1>3, <1>8, <2>1, KindClusterAdds
  <2> QED BY <1>8, <2>3, <2>4
<1>9. CASE k = 30
  <2>1. ArgoHelm
    BY <1>1, <1>9, Ordered, Heads DEF Step
  <2>2. Advance
    BY <2>1 DEF ArgoHelm, Return
  <2>3. Place' = k + 1
    BY <1>5, <2>2, GoesOn
  <2>4. Deployed(31)'
    BY <1>3, <1>9, <2>1, ArgoHelmAdds
  <2> QED BY <1>9, <2>3, <2>4
<1>10. CASE k = 31
  <2>1. RouterStop
    BY <1>1, <1>10, Ordered, Heads DEF Step
  <2>2. Advance
    BY <2>1 DEF RouterStop
  <2>3. Place' = k + 1
    BY <1>5, <2>2, GoesOn
  <2>4. Deployed(32)'
    BY <1>3, <1>10, <2>1, RouterStopAdds
  <2> QED BY <1>10, <2>3, <2>4
<1>11. CASE k = 32
  <2>1. RouterStart
    BY <1>1, <1>11, Ordered, Heads DEF Step
  <2>2. Advance
    BY <2>1 DEF RouterStart, Return
  <2>3. Place' = k + 1 /\ ticks' = Ticks
    BY <1>5, <2>2, GoesOn
  <2>4. Deployed(33)'
    BY <1>2, <1>3, <1>11, <2>1, <2>3, RouterStartAdds
  <2> QED BY <1>11, <2>3, <2>4
<1>12. CASE k = 33
  <2>1. LoginRetried
    BY <1>1, <1>12, Ordered, Heads DEF Step
  <2>2. \/ Advance /\ Deployed(34)'
        \/ todo' = todo /\ Deployed(33)'
    BY <1>3, <1>12, <2>1, LoginRetriedAdds
  <2>3. Advance => Place' = k + 1
    BY <1>5, GoesOn
  <2>4. 33 + 1 = 34
    OBVIOUS
  <2> QED BY <1>5, <1>12, <2>2, <2>3, <2>4
<1>13. CASE k = 37
  <2>1. Place' = k
    BY <1>3, <1>5, <1>13
  <2>2. RootApp
    BY <1>1, <1>13, Ordered, Heads DEF Step
  <2>3. Advance
    BY <2>2, Required DEF RootApp
  <2>4. Place' = k + 1
    BY <1>5, <2>3, GoesOn
  <2> QED BY <2>1, <2>4
<1>14. CASE k \in 9..36 /\ k \notin {10, 30, 31, 32, 33}
  <2>1. Reads \/ Make \/ SkipGitea \/ SreSecrets \/ KeycloakSecret \/ GiteaHelm
          \/ CreateOrUpdateGiteaSecret \/ CreateOrUpdateGiteaAccount
    <3>1. Head(todo) \in
            {"cacheCert", "nodeCerts", "namespaces", "harborSecrets",
             "keycloakSecret", "postgresSecret", "sreSecrets", "restoreTls",
             "metalLB", "metalSetup", "mailpit", "giteaTls", "argoTls",
             "checkTarget", "giteaSecrets", "giteaHelm", "giteaAccounts",
             "cachePem", "registryCerts", "repos", "chartOrg", "revision"}
      BY <1>1, <1>14, Ordered
    <3> QED BY <3>1, Heads DEF Step
  <2>2. CASE Make
    <3>1. Adds(k) /\ Establishes(k)' /\ Advance
      BY <1>1, <1>14, <2>2, MakeAdds
    <3>2. Place' = k + 1
      BY <1>5, <3>1, GoesOn
    <3> QED BY <1>14, <3>1, <3>2, AddsOne
  <2>3. CASE Reads \/ SkipGitea \/ SreSecrets \/ KeycloakSecret
    <3>1. k <= 29 \/ Reads
      <4>1. Head(todo) \in {"giteaSecrets", "giteaHelm", "giteaAccounts",
                            "sreSecrets", "keycloakSecret"} => k <= 29
        BY <1>1, Spots
      <4>2. Head(todo) # "sreMetrics"
        BY <1>1, Ordered
      <4> QED BY <2>3, <4>1, <4>2, Heads
    <3>2. Adds(k) /\ Establishes(k)' /\ Advance
      BY <1>1, <1>14, <2>3, <3>1, ReadAdds
    <3>3. Place' = k + 1
      BY <1>5, <3>2, GoesOn
    <3> QED BY <1>14, <3>2, <3>3, AddsOne
  <2>4. CASE GiteaHelm
    <3>1. Adds(k) /\ Establishes(k)'
      BY <1>1, <1>3, <1>14, <2>4, GiteaHelmAdds
    <3>2. Place' = k + 1
      <4>1. AdvanceWith(1, [i |-> 2])
        BY <2>4 DEF GiteaHelm, Return
      <4>2. todo' # todo
        <5>1. todo' = SubSeq(todo, 1 + 1, Len(todo)) /\ Len(todo) # 1
          BY <4>1 DEF AdvanceWith, Return
        <5>2. todo \in Seq(Steps) /\ todo # <<>>
          BY DEF Running
        <5> QED BY <5>1, <5>2
      <4> QED BY <1>3, <1>5, <4>2
    <3> QED BY <1>14, <3>1, <3>2, AddsOne
  <2>5. CASE CreateOrUpdateGiteaSecret \/ CreateOrUpdateGiteaAccount
    <3>1. Adds(k) /\ Establishes(k)' /\ k \in {24, 26} /\ things' = things
      BY <1>1, <1>3, <1>14, <2>5, GiteaUserAdds
    <3>2. Deployed(k)' /\ Deployed(k + 1)'
      BY <1>14, <3>1, StaysDeployed, AddsOne
    <3> QED BY <1>3, <1>5, <3>2
  <2> QED BY <2>1, <2>2, <2>3, <2>4, <2>5
<1> QED BY <1>6, <1>7, <1>8, <1>9, <1>10, <1>11, <1>12, <1>13, <1>14

\* The router has its fields.
LEMMA RouterStep == ASSUME RouterForm, [Next]_vars PROVE RouterForm'
<1>1. PICK o, f, l : router = [on |-> o, file |-> f, loaded |-> l]
  BY DEF RouterForm
<1>2. ASSUME router' = router PROVE RouterForm'
  BY <1>2 DEF RouterForm
<1>3. CASE RouterStart
  <2>1. \E x, y, z : router' = [on |-> x, file |-> y, loaded |-> z]
    BY <1>1, <1>3 DEF RouterStart
  <2> QED BY <2>1 DEF RouterForm
<1>4. CASE RouterStop
  <2>1. router' = [on |-> FALSE, file |-> f, loaded |-> l]
    BY <1>1, <1>4 DEF RouterStop
  <2> QED BY <2>1 DEF RouterForm
<1>5. CASE CallFails
  <2>1. CASE At("routerStart") /\ router' = [router EXCEPT !.file = Conf]
    <3>1. router' = [on |-> o, file |-> Conf, loaded |-> l]
      BY <1>1, <2>1
    <3> QED BY <3>1 DEF RouterForm
  <2>2. CASE router' = router
    BY <1>2, <2>2
  <2> QED BY <1>5, <2>1, <2>2 DEF CallFails, Half, world, machine
<1>6. CASE Reads \/ Make \/ RenderClusterTemplate \/ MergeProxy
           \/ ConfigClean \/ UndeployKind \/ KindCluster \/ KeycloakSecret
  BY <1>2, <1>6 DEF Reads, Make, RenderClusterTemplate, MergeProxy,
     ConfigClean, UndeployKind, KindCluster, KeycloakSecret, world, machine
<1>7. CASE SreSecrets \/ SkipGitea \/ CreateOrUpdateGiteaSecret
           \/ GiteaHelm \/ CreateOrUpdateGiteaAccount \/ ArgoHelm
  BY <1>2, <1>7 DEF SreSecrets, SkipGitea, CreateOrUpdateGiteaSecret,
     GiteaHelm, CreateOrUpdateGiteaAccount, ArgoHelm, world, machine
<1>8. CASE Login \/ LoginRetried \/ LoginInverted \/ RootApp \/ OrchCA
           \/ CheckApps
  BY <1>2, <1>8 DEF Login, LoginRetried, LoginInverted, RootApp, OrchCA,
     CheckApps, machine
<1>9. CASE KeysSecret \/ WriteKeys \/ Unseal \/ StopGiteaProxy
           \/ StopAllKubectlProxies \/ StartGiteaPortForward \/ Forwarding
           \/ SavePid
  BY <1>2, <1>9 DEF KeysSecret, WriteKeys, Unseal, StopGiteaProxy,
     StopAllKubectlProxies, StartGiteaPortForward, Forwarding, SavePid,
     world, machine
<1>10. CASE Cluster \/ UNCHANGED vars
           \/ \E c \in Commands : \E a \in Args(c) : Start(c, a)
  BY <1>2, <1>10 DEF Cluster, Applications, Addresses, VaultInit,
     VaultRestart, ProxyEnds, vars, Start, world, machine
<1> QED BY <1>3, <1>4, <1>5, <1>6, <1>7, <1>8, <1>9, <1>10 DEF Next, Step

\* The calls whose errors are forgotten do nothing by halves.
LEMMA HalfNothing ==
    ASSUME Half, Head(todo) \in {"loginRetried", "saveTls", "restoreTls",
                                 "routerStop"}
    PROVE  UNCHANGED world
  BY DEF Half, At

\* A call that fails without ending a deployment is one whose work no later
\* step depends on, or the router was not stopped and the deployment is not
\* clean.
LEMMA DeployFails ==
    ASSUME Turn, Running, cmd \in Deployments, NEW k \in 1..37, k = Place,
           Deployed(k), CallFails, cmd' # "none"
    PROVE  \/ Place' = k + 1 /\ Deployed(k + 1)'
           \/ Place' = k /\ Deployed(k)'
<1>1. /\ Head(todo) = Order[k] /\ cmd \in DOMAIN Behind
  BY DeploymentsBehind, Placed
<1>2. clean' = FALSE
  BY DEF CallFails
<1>3. /\ Head(todo) \notin {"poll", "stopProxy", "stopAllProxies"}
      /\ Head(todo) = "loginRetried" => k = 33
      /\ Head(todo) = "saveTls" => k = 7
      /\ Head(todo) = "restoreTls" => k = 17
      /\ Head(todo) = "routerStop" => k = 31
  <2>1. /\ Head(todo) = "loginRetried" => k = 33
        /\ Head(todo) = "saveTls" => k = 7
        /\ Head(todo) = "restoreTls" => k = 17
        /\ Head(todo) = "routerStop" => k = 31
    BY <1>1, Spots
  <2>2. Head(todo) \notin {"poll", "stopProxy", "stopAllProxies"}
    BY <1>1, Ordered
  <2> QED BY <2>1, <2>2
<1>4. \/ Head(todo) = "loginRetried" /\ Within(job)
      \/ Head(todo) \in {"saveTls", "restoreTls", "routerStop"} /\ Advance
  BY <1>3 DEF CallFails, Forgiven, At, Return
<1>5. UNCHANGED world
  BY <1>4, HalfNothing DEF CallFails
<1>6. UNCHANGED <<cluster, things, pw, addr, session, router, preset>>
  BY <1>5 DEF world, inCluster, machine
<1>7. UNCHANGED <<cmd, arg, done>>
  BY <1>4, GoesOn DEF Within
<1>8. /\ Asked("cache")' = Asked("cache") /\ Asked("ao")' = Asked("ao")
      /\ Default' = Default
  BY <1>6, <1>7, AskedSame DEF Default
<1>9. CASE Head(todo) = "loginRetried" /\ Within(job)
  <2>1. Place' = k
    BY <1>1, <1>7, <1>9, PlaceMoves DEF Within
  <2>2. k = 33 /\ Deployed(k)'
    BY <1>2, <1>3, <1>6, <1>7, <1>8, <1>9 DEF Deployed
  <2> QED BY <2>1, <2>2
<1>10. CASE Head(todo) \in {"saveTls", "restoreTls", "routerStop"} /\ Advance
  <2>1. Place' = k + 1
    BY <1>1, <1>7, <1>10, GoesOn, PlaceMoves
  <2>2. CASE k = 7
    BY <1>7, <2>1, <2>2 DEF Deployed
  <2>3. CASE k = 17
    BY <1>6, <1>7, <1>8, <2>1, <2>3 DEF Deployed
  <2>4. CASE k = 31
    BY <1>2, <1>6, <1>7, <1>8, <2>1, <2>4 DEF Deployed
  <2> QED BY <1>3, <1>10, <2>2, <2>3, <2>4
<1> QED BY <1>4, <1>9, <1>10

\* A deployment starts before the old cluster is deleted.
LEMMA FirstPlace ==
    ASSUME NEW c \in Deployments
    PROVE  38 - Len(Program[c]) - Behind[c] \in 1..4
<1>1. /\ Fits(All, 2, 35) /\ Fits(UsePreset, 0, 2)
      /\ Fits(Kind, 3, 8) /\ Fits(PreOrchDeploy, 11, 24)
  BY FitsAll, FitsParts, FitsPre
<1>2. Fits(UsePreset \o All, 0, 37) /\ Fits(Kind \o PreOrchDeploy, 3, 32)
  BY <1>1, FitsJoin
<1>3. /\ Len(All) = 35 /\ Len(UsePreset \o All) = 37
      /\ Len(Kind \o PreOrchDeploy) = 32
  BY <1>1, <1>2 DEF Fits
<1>4. /\ Behind["kindPreset"] = 0 /\ Behind["kindAll"] = 0
      /\ Behind["kind"] = 2
  BY DEF Behind
<1>5. /\ Program["kindPreset"] = UsePreset \o All
      /\ Program["kindAll"] = All
      /\ Program["kind"] = Kind \o PreOrchDeploy
  BY DEF Program
<1>6. CASE c = "kindPreset"
  <2>1. Len(Program[c]) = 37 /\ Behind[c] = 0
    BY <1>3, <1>4, <1>5, <1>6
  <2> QED BY <2>1
<1>7. CASE c = "kindAll"
  <2>1. Len(Program[c]) = 35 /\ Behind[c] = 0
    BY <1>3, <1>4, <1>5, <1>7
  <2> QED BY <2>1
<1>8. CASE c = "kind"
  <2>1. Len(Program[c]) = 32 /\ Behind[c] = 2
    BY <1>3, <1>4, <1>5, <1>8
  <2> QED BY <2>1
<1> QED BY <1>6, <1>7, <1>8 DEF Deployments

\* Every step keeps a deployment as far as its place says.
LEMMA DeployingStep ==
    ASSUME Turn, Types, RouterForm, Deploying, [Next]_vars PROVE Deploying'
<1>1. CASE \E c \in Commands : \E a \in Args(c) : Start(c, a)
  <2>1. PICK c \in Commands : \E a \in Args(c) : Start(c, a)
    BY <1>1
  <2>2. /\ cmd' = c /\ todo' = Program[c] /\ done' = done + 1
        /\ c \in DOMAIN Program /\ done \in Nat
    BY <2>1, CommandsAssumption DEF Start, Begin, Turn
  <2>3. ASSUME c \in Deployments, NEW k \in 1..37, k = Place'
        PROVE  Deployed(k)'
    <3>4. k \in 1..4
      BY <2>2, <2>3, FirstPlace DEF Place
    <3>5. done' > 0
      BY <2>2
    <3> QED BY <3>4, <3>5 DEF Deployed
  <2> QED BY <2>2, <2>3 DEF Deploying
<1>2. CASE Step \/ CallFails
  <2>1. Running
    BY <1>2, StepMoves, AtRuns DEF Turn, CallFails, Idle
  <2>2. cmd' \in {cmd, "none"}
    BY <1>2, <2>1, CmdKept
  <2>3. CASE cmd \in Deployments /\ cmd' = cmd
    <3>1. PICK k \in 1..37 : k = Place
      BY <2>1, <2>3, DeploymentsBehind, Placed
    <3>2. Deployed(k) /\ cmd' # "none"
      BY <2>3, <3>1 DEF Deploying, Deployments
    <3>3. \/ Place' = k + 1 /\ Deployed(k + 1)'
          \/ Place' = k /\ Deployed(k)'
      BY <1>2, <2>1, <2>3, <3>1, <3>2, DeployStep, DeployFails
    <3>4. ASSUME NEW j \in 1..37, j = Place' PROVE Deployed(j)'
      <4>1. CASE j = k
        BY <3>3, <3>4, <4>1
      <4>2. CASE j = k + 1
        BY <3>3, <3>4, <4>2
      <4> QED BY <3>3, <3>4, <4>1, <4>2
    <3> QED BY <3>4 DEF Deploying
  <2>4. CASE cmd \notin Deployments \/ cmd' = "none"
    BY <2>2, <2>4 DEF Deploying, Deployments
  <2> QED BY <2>2, <2>3, <2>4
<1>3. CASE Cluster \/ UNCHANGED vars
  <2>1. CASE cmd \in Deployments
    <3>1. ~(Applications \/ Addresses \/ VaultInit \/ VaultRestart)
      BY <2>1 DEF Deployments, Applications, Addresses, VaultInit,
         VaultRestart, RouterCommands, VaultCommands
    <3>2. UNCHANGED <<cluster, things, pw, addr, session, router, preset,
                      clean, cmd, arg, todo, ticks, done>>
      BY <1>3, <3>1 DEF Cluster, ProxyEnds, vars, world, inCluster, machine,
         command, same
    <3>3. Place' = Place
      BY <3>2 DEF Place
    <3>4. ASSUME NEW k \in 1..37, k = Place', Deployed(k) PROVE Deployed(k)'
      <4>1. /\ Asked("cache")' = Asked("cache") /\ Asked("ao")' = Asked("ao")
            /\ Default' = Default
        BY <3>2, AskedSame DEF Default
      <4> QED BY <3>2, <3>4, <4>1 DEF Deployed
    <3> QED BY <3>2, <3>3, <3>4 DEF Deploying
  <2>2. CASE cmd \notin Deployments
    <3>1. cmd' = cmd
      BY <1>3 DEF Cluster, Applications, Addresses, VaultInit, VaultRestart,
         ProxyEnds, vars, command
    <3> QED BY <2>2, <3>1 DEF Deploying
  <2> QED BY <2>1, <2>2
<1> QED BY <1>1, <1>2, <1>3 DEF Next

-----------------------------------------------------------------------------
(* The end of a deployment *)

\* The places where programs end.
LEMMA LastPlace ==
    ASSUME Running, cmd \in DOMAIN Behind, Len(todo) = 1
    PROVE  /\ cmd \in {"kindPreset", "kindAll"} => Place = 37
           /\ cmd = "kind" => Place = 35
           /\ cmd = "gitea" => Place = 26
<1>1. /\ Behind["kindPreset"] = 0 /\ Behind["kindAll"] = 0
      /\ Behind["kind"] = 2 /\ Behind["gitea"] = 11
  BY DEF Behind
<1> QED BY <1>1 DEF Place

\* A command that succeeds, or ends without a failed call, ends in one of its
\* steps.
LEMMA NoCall ==
    ASSUME Turn, Next, cmd # "none", cmd' = "none", clean' \/ ok'
    PROVE  Running /\ (Step \/ CallFails) /\ (clean' => Step)
<1>1. ~\E c \in Commands : \E a \in Args(c) : Start(c, a)
  BY DEF Start, Begin
<1>2. ~Cluster
  BY DEF Cluster, Applications, Addresses, VaultInit, VaultRestart,
     ProxyEnds, command
<1>3. CallFails => ~clean'
  BY DEF CallFails
<1> QED BY <1>1, <1>2, <1>3 DEF Next, Turn, Idle

\* A deployment that succeeds has come to its end.
LEMMA DeployEnds ==
    ASSUME Turn, Running, Types, cmd \in Deployments, NEW k \in 1..37,
           k = Place, Deployed(k), Step, cmd' = "none", ok'
    PROVE  /\ k \in {35, 37}
           /\ UNCHANGED <<cluster, pw, session, router, clean>>
<1>1. /\ Head(todo) = Order[k] /\ cmd \in DOMAIN Behind
  BY DeploymentsBehind, Placed
<1>2. /\ Moves /\ fails' \in 0..MaxFails /\ clean' = clean
      /\ clean' \in BOOLEAN
  BY StepMoves DEF same, Turn
<1>3. Len(todo) = 1
  <2>1. cmd # "none"
    BY DEF Deployments
  <2>2. cmd' # cmd /\ ~Running'
    BY <2>1, Names DEF Running
  <2> QED BY <1>2, <2>1, <2>2, Goes
<1>4. k \in {35, 37}
  BY <1>1, <1>3, LastPlace DEF Deployments
<1>5. Make \/ RootApp
  <2>1. Head(todo) \in {"chartOrg", "rootApp"}
    BY <1>1, <1>4, Ordered
  <2> QED BY <2>1, Heads DEF Step
<1>6. UNCHANGED <<cluster, pw, session, router>>
  BY <1>5 DEF Make, RootApp, inCluster, machine
<1> QED BY <1>2, <1>4, <1>6

\* The invariant: a command's place in its program, the types, and what a
\* deployment has done up to that place.
IInv ==
    Turn /\ Types /\ RouterForm /\ Deploying

\* It holds at first, and every step keeps it.
LEMMA IInvInductive ==
    /\ Init => IInv
    /\ IInv /\ [Next]_vars => IInv'
<1>1. Init => RouterForm /\ Deploying
  BY DEF Init, RouterForm, Deploying, Deployments
<1> QED BY <1>1, InitTypes, TurnStep, TypesStep, RouterStep, DeployingStep
       DEF IInv

\* After a deployment none of whose calls failed, the router, the client's
\* session and ArgoCD's password are those of the new cluster, whatever
\* earlier commands had left, for any number of commands and of failed calls
\* before.
THEOREM ConnectedInTheEnd == Spec => DeploymentIsConnected
<1>1. IInv /\ [Next]_vars =>
        [(Succeeds /\ cmd \in Deployments /\ clean') =>
           /\ router'.on /\ router'.loaded.argo = cluster
           /\ session' = cluster /\ pw'.argo = Default]_vars
  <2> SUFFICES ASSUME IInv, Next, Succeeds, cmd \in Deployments, clean'
               PROVE  /\ router'.on /\ router'.loaded.argo = cluster
                      /\ session' = cluster /\ pw'.argo = Default
    BY DEF vars
  <2>1. Running /\ Step /\ cmd' = "none" /\ ok'
    BY NoCall DEF IInv, Succeeds
  <2>2. PICK k \in 1..37 : k = Place /\ Deployed(k)
    BY <2>1, DeploymentsBehind, Placed DEF IInv, Deploying
  <2>3. /\ k \in {35, 37}
        /\ UNCHANGED <<cluster, pw, session, router, clean>>
    BY <2>1, <2>2, DeployEnds DEF IInv
  <2> QED BY <2>2, <2>3 DEF Deployed
<1> QED BY <1>1, IInvInductive, PTL DEF Spec, DeploymentIsConnected

-----------------------------------------------------------------------------
(* Deploying again *)

\* A step that is left behind does not end its command with an error.
LEMMA NotWrong ==
    ASSUME cmd # "none", Advance \/ NextUserOr(Len(GiteaUsers)), cmd' = "none"
    PROVE  ok'
  BY DEF Advance, AdvanceWith, Return, NextUserOr, Within

\* ... nor does a requirement that is met.
LEMMA NotWrongRequired ==
    ASSUME cmd # "none", NEW b, Require(b), b, cmd' = "none" PROVE ok'
  BY NotWrong DEF Require

\* A deployment has no certificate of a sandbox router.
LEMMA DeployArgs ==
    ASSUME NEW c \in Deployments, NEW a \in Args(c) PROVE a.cert = ""
<1>1. NoArg.cert = ""
  BY DEF NoArg
<1>2. CASE c = "kindPreset"
  <2>1. PICK f \in Presets, d \in Disabled : a = Preset(f, d)
    BY <1>2 DEF Args
  <2> QED BY <2>1 DEF Preset, NoArg
<1>3. CASE c = "kindAll"
  <2>1. PICK e \in BOOLEAN : a = [NoArg EXCEPT !.env = e]
    BY <1>3 DEF Args
  <2> QED BY <2>1 DEF NoArg
<1>4. CASE c = "kind"
  <2>1. PICK t \in {"dev", "preset"}, e \in BOOLEAN : a = Target(t, e)
    BY <1>4 DEF Args
  <2> QED BY <2>1 DEF Target, NoArg
<1> QED BY <1>2, <1>3, <1>4 DEF Deployments

\* What the things of a deployment need.
LEMMA Needs ==
    /\ Things["tools"].needs = {} /\ Things["policy"].needs = {}
    /\ Things["cacheCert"].needs = {}
    /\ Things["nodeCerts"].needs = {"cluster", "cacheCert"}
    /\ Things["namespaces"].needs = {"cluster"}
    /\ Things["harborSecrets"].needs = {"cluster"}
    /\ Things["postgresSecret"].needs = {"cluster"}
    /\ Things["metalLB"].needs = {"cluster"}
    /\ Things["registryCerts"].needs = {"cluster"}
    /\ Things["metalSetup"].needs = {"metalLB"}
    /\ Things["mailpit"].needs = {"namespaces"}
    /\ Things["giteaTls"].needs = {"namespaces"}
    /\ Things["argoTls"].needs = {"namespaces"}
    /\ Things["repos"].needs = {"session", "argocd"}
    /\ Things["chartOrg"].needs = {"argocd"}
<1>1. /\ Things["tools"].needs = {} /\ Things["policy"].needs = {}
      /\ Things["cacheCert"].needs = {}
      /\ Things["nodeCerts"].needs = {"cluster", "cacheCert"}
  BY DEF Things, AsdfPlugins, CopyPolicy, RegistryCacheCert, LoadCacheCerts,
     Made
<1>2. /\ Things["namespaces"].needs = {"cluster"}
      /\ Things["harborSecrets"].needs = {"cluster"}
      /\ Things["postgresSecret"].needs = {"cluster"}
      /\ Things["metalLB"].needs = {"cluster"}
      /\ Things["registryCerts"].needs = {"cluster"}
  BY DEF Things, CreateNamespaces, HarborSecrets, PostgresSecret, MetalLB,
     RegistryCerts, Made
<1>3. /\ Things["metalSetup"].needs = {"metalLB"}
      /\ Things["mailpit"].needs = {"namespaces"}
      /\ Things["giteaTls"].needs = {"namespaces"}
      /\ Things["argoTls"].needs = {"namespaces"}
  BY DEF Things, MetalSetup, Mailpit, GiteaTls, ArgoTls, Made, CreatedOnce
<1>4. /\ Things["repos"].needs = {"session", "argocd"}
      /\ Things["chartOrg"].needs = {"argocd"}
  BY DEF Things, RepoAdd, ChartOrgAdd, Made
<1> QED BY <1>1, <1>2, <1>3, <1>4

\* The things that are made again without an error.
LEMMA Repeatable ==
    /\ ~Things["tools"].once /\ ~Things["policy"].once
    /\ ~Things["cacheCert"].once /\ ~Things["nodeCerts"].once
    /\ ~Things["namespaces"].once /\ ~Things["harborSecrets"].once
    /\ ~Things["postgresSecret"].once /\ ~Things["metalLB"].once
    /\ ~Things["metalSetup"].once /\ ~Things["registryCerts"].once
    /\ ~Things["repos"].once /\ ~Things["chartOrg"].once
    /\ Things["nodeCerts"].when = "cache"
<1>1. /\ ~Things["tools"].once /\ ~Things["policy"].once
      /\ ~Things["cacheCert"].once /\ ~Things["nodeCerts"].once
      /\ Things["nodeCerts"].when = "cache"
  BY DEF Things, AsdfPlugins, CopyPolicy, RegistryCacheCert, LoadCacheCerts,
     Made
<1>2. /\ ~Things["namespaces"].once /\ ~Things["harborSecrets"].once
      /\ ~Things["postgresSecret"].once /\ ~Things["metalLB"].once
      /\ ~Things["metalSetup"].once /\ ~Things["registryCerts"].once
  BY DEF Things, CreateNamespaces, HarborSecrets, PostgresSecret, MetalLB,
     MetalSetup, RegistryCerts, Made
<1>3. ~Things["repos"].once /\ ~Things["chartOrg"].once
  BY DEF Things, RepoAdd, ChartOrgAdd, Made
<1> QED BY <1>1, <1>2, <1>3

\* At its place everything can be made: what it needs is there, and what it
\* would be in the way of is not.
LEMMA MakePossible ==
    ASSUME NEW k \in 1..37, Deployed(k), NEW x, x = Order[k],
           x \in DOMAIN Things, Asked(Things[x].when)
    PROVE  Possible(x)
<1>1. /\ done > 0 /\ (k > 10 => "cluster" \in Present)
      /\ (k > 33 => "session" \in Present)
  BY DEF Deployed, Present
<1>2. things \subseteq Present
  BY DEF Present
<1>3. CASE x \in {"tools", "policy", "cacheCert"}
  BY <1>3, Needs, Repeatable DEF Possible
<1>4. CASE x = "nodeCerts"
  <2>1. Order[k] = "nodeCerts"
    BY <1>4
  <2>2. k = 11
    BY <2>1, Spots
  <2>3. Asked("cache")
    BY <1>4, Repeatable
  <2>4. "cacheCert" \in things /\ "cluster" \in Present
    BY <1>1, <2>2, <2>3 DEF Deployed
  <2> QED BY <1>2, <1>4, <2>4, Needs, Repeatable DEF Possible
<1>5. CASE x \in {"namespaces", "harborSecrets", "postgresSecret", "metalLB",
                  "registryCerts"}
  <2>1. k > 10
    BY <1>5, Spots
  <2> QED BY <1>1, <1>5, <2>1, Needs, Repeatable DEF Possible
<1>6. CASE x = "metalSetup"
  <2>1. Order[k] = "metalSetup"
    BY <1>6
  <2>2. k = 19
    BY <2>1, Spots
  <2>3. "metalLB" \in things
    BY <2>2 DEF Deployed
  <2> QED BY <1>2, <1>6, <2>3, Needs, Repeatable DEF Possible
<1>7. CASE x \in {"mailpit", "giteaTls", "argoTls"}
  <2>1. /\ x = "mailpit" => k = 20
        /\ x = "giteaTls" => k = 21
        /\ x = "argoTls" => k = 22
    BY Spots
  <2>2. "namespaces" \in things /\ x \notin things
    BY <1>7, <2>1 DEF Deployed
  <2> QED BY <1>2, <1>7, <2>2, Needs DEF Possible
<1>8. CASE x = "repos"
  <2>1. Order[k] = "repos"
    BY <1>8
  <2>2. k = 34
    BY <2>1, Spots
  <2>3. "argocd" \in things /\ "session" \in Present
    BY <1>1, <2>2 DEF Deployed
  <2> QED BY <1>2, <1>8, <2>3, Needs, Repeatable DEF Possible
<1>9. CASE x = "chartOrg"
  <2>1. Order[k] = "chartOrg"
    BY <1>9
  <2>2. k = 35
    BY <2>1, Spots
  <2>3. "argocd" \in things
    BY <2>2 DEF Deployed
  <2> QED BY <1>2, <1>9, <2>3, Needs, Repeatable DEF Possible
<1>10. x # "kyvernoPolicy"
  BY Ordered
<1>11. DOMAIN Things =
         {"tools", "policy", "cacheCert", "nodeCerts", "namespaces",
          "harborSecrets", "postgresSecret", "metalLB", "metalSetup",
          "mailpit", "giteaTls", "argoTls", "registryCerts", "repos",
          "chartOrg", "kyvernoPolicy"}
  BY DEF Things
<1> QED BY <1>3, <1>4, <1>5, <1>6, <1>7, <1>8, <1>9, <1>10, <1>11

\* With the password and a definition, the checks succeed.
LEMMA ReadsWork ==
    ASSUME Running, cmd # "none", NEW k \in 1..37, Deployed(k), Reads,
           Head(todo) = Order[k], arg.env, Readable(arg.target),
           cmd' = "none"
    PROVE  ok'
<1>1. PICK h : h = Head(todo)
  OBVIOUS
<1>2. /\ h \in {"validate", "checkTarget", "saveTls", "restoreTls",
                "cachePem", "revision"}
      /\ Require(ReadOnly[h]) /\ h = Order[k]
  BY <1>1, Heads DEF Reads
<1>3. Acceptable
  <2>1. MaxCommands + 1 # 0
    BY KindDeployAssumption
  <2> QED BY <2>1 DEF Acceptable, Default, FromEnv
<1>4. h = "cachePem" => (Asked("cache") => "cacheCert" \in things)
  <2>1. h = "cachePem" => k = 28
    BY <1>2, Spots
  <2> QED BY <2>1 DEF Deployed
<1>5. /\ ReadOnly["validate"] = Acceptable
      /\ ReadOnly["checkTarget"] = Readable(arg.target)
      /\ ReadOnly["saveTls"] = TRUE /\ ReadOnly["restoreTls"] = TRUE
      /\ ReadOnly["cachePem"] = (Asked("cache") => "cacheCert" \in things)
      /\ ReadOnly["revision"] = TRUE
  BY DEF ReadOnly
<1>6. ReadOnly[h]
  <2>1. CASE h = "validate"
    BY <1>3, <1>5, <2>1
  <2>2. CASE h = "checkTarget"
    BY <1>5, <2>2
  <2>3. CASE h = "cachePem"
    BY <1>4, <1>5, <2>3
  <2>4. CASE h \in {"saveTls", "restoreTls", "revision"}
    BY <1>5, <2>4
  <2> QED BY <1>2, <2>1, <2>2, <2>3, <2>4
<1> QED BY <1>2, <1>6, NotWrongRequired

\* Making a thing succeeds.
LEMMA MakeWorks ==
    ASSUME cmd # "none", NEW k \in 1..37, Deployed(k), Make,
           Head(todo) = Order[k], cmd' = "none"
    PROVE  ok'
<1>1. PICK x : x = Head(todo)
  OBVIOUS
<1>2. /\ x = Order[k] /\ x \in DOMAIN Things
      /\ \/ ~Asked(Things[x].when) /\ Advance
         \/ Asked(Things[x].when) /\ Require(Possible(x))
  BY <1>1 DEF Make
<1>3. CASE ~Asked(Things[x].when) /\ Advance
  BY <1>3, NotWrong
<1>4. CASE Asked(Things[x].when) /\ Require(Possible(x))
  <2>1. Possible(x)
    BY <1>2, <1>4, MakePossible
  <2> QED BY <1>4, <2>1, NotWrongRequired
<1> QED BY <1>2, <1>3, <1>4

\* The steps of Gitea succeed.
LEMMA GiteaWorks ==
    ASSUME cmd # "none", NEW k \in 1..37, Deployed(k),
           SkipGitea \/ CreateOrUpdateGiteaSecret \/ GiteaHelm
             \/ CreateOrUpdateGiteaAccount,
           Head(todo) = Order[k], cmd' = "none"
    PROVE  ok'
<1>1. CASE SkipGitea
  BY <1>1, NotWrong DEF SkipGitea
<1>2. CASE CreateOrUpdateGiteaSecret
  <2>1. k = 24
    BY <1>2, Heads, Spots
  <2>2. "namespaces" \in things
    BY <2>1 DEF Deployed
  <2>3. NextUserOr(Len(GiteaUsers))
    BY <1>2, <2>2 DEF CreateOrUpdateGiteaSecret
  <2> QED BY <2>3, NotWrong
<1>3. CASE GiteaHelm
  <2>1. k = 25 /\ Asked("ao")
    <3>1. k = 25
      BY <1>3, Heads, Spots
    <3>2. Asked("ao")
      BY <1>3 DEF GiteaHelm, InGitea
    <3> QED BY <3>1, <3>2
  <2>2. {"giteaTls", "metalSetup"} \subseteq things
    BY <2>1 DEF Deployed
  <2>3. AdvanceWith(1, [i |-> 2])
    BY <1>3, <2>2 DEF GiteaHelm
  <2> QED BY <2>3 DEF AdvanceWith, Return
<1>4. CASE CreateOrUpdateGiteaAccount
  BY <1>4, NotWrong DEF CreateOrUpdateGiteaAccount
<1> QED BY <1>1, <1>2, <1>3, <1>4

\* The cluster, its secrets and ArgoCD succeed.
LEMMA ClusterWorks ==
    ASSUME cmd # "none", NEW k \in 1..37, Deployed(k), arg.env,
           KindCluster \/ KeycloakSecret \/ SreSecrets \/ ArgoHelm \/ RootApp,
           Head(todo) = Order[k], cmd' = "none"
    PROVE  ok'
<1>1. Acceptable
  <2>1. MaxCommands + 1 # 0
    BY KindDeployAssumption
  <2> QED BY <2>1 DEF Acceptable, Default, FromEnv
<1>2. CASE KindCluster
  <2>1. k = 10
    BY <1>2, Heads, Spots
  <2>2. cluster = 0
    BY <2>1 DEF Deployed
  <2> QED BY <1>2, <2>2, NotWrongRequired DEF KindCluster
<1>3. CASE KeycloakSecret
  <2>1. k = 14
    BY <1>3, Heads, Spots
  <2>2. "namespaces" \in things
    BY <2>1 DEF Deployed
  <2> QED BY <1>3, <2>2, NotWrong DEF KeycloakSecret
<1>4. CASE SreSecrets
  <2>1. Head(todo) # "sreMetrics"
    BY Ordered
  <2>2. k = 16
    BY <1>4, <2>1, Heads, Spots
  <2>3. "namespaces" \in things
    BY <2>2 DEF Deployed
  <2>4. Require(Acceptable /\ "namespaces" \in things)
    BY <1>4 DEF SreSecrets
  <2> QED BY <1>1, <2>3, <2>4, NotWrongRequired
<1>5. CASE ArgoHelm
  <2>1. k = 30
    BY <1>5, Heads, Spots
  <2>2. {"registryCerts", "metalSetup"} \subseteq things
    BY <2>1 DEF Deployed
  <2> QED BY <1>1, <1>5, <2>2, NotWrong DEF ArgoHelm
<1>6. CASE RootApp
  <2>1. k = 37
    BY <1>6, Heads, Spots
  <2>2. "argocd" \in things
    BY <2>1 DEF Deployed
  <2>3. Require("argocd" \in things)
    BY <1>6 DEF RootApp
  <2> QED BY <2>2, <2>3, NotWrongRequired
<1> QED BY <1>2, <1>3, <1>4, <1>5, <1>6

\* The router starts: there is an address of ArgoCD, and none of traefik yet.
LEMMA RouterWorks ==
    ASSUME cmd \in Deployments, arg \in Args(cmd), NEW k \in 1..37,
           Deployed(k), RouterStart \/ RouterStop, Head(todo) = Order[k],
           cmd' = "none"
    PROVE  ok'
<1>1. cmd # "none"
  BY DEF Deployments
<1>2. CASE RouterStop
  BY <1>1, <1>2, NotWrong DEF RouterStop
<1>3. CASE RouterStart
  <2>1. k = 32
    BY <1>3, Heads, Spots
  <2>2. "argocd" \in addr /\ "traefik" \notin addr
    BY <2>1 DEF Deployed
  <2>3. arg.cert = ""
    BY DeployArgs
  <2>4. SandboxCert
    BY <2>3 DEF SandboxCert
  <2>5. Advance
    BY <1>3, <2>2, <2>4 DEF RouterStart
  <2> QED BY <1>1, <2>5, NotWrong
<1> QED BY <1>2, <1>3

\* A wait whose condition holds is over.
LEMMA WaitIsOver ==
    ASSUME NEW s, NEW f, NEW b, NEW j, WaitFor(s, f, b, j), f, ticks # 0
    PROVE  AdvanceWith(1, j)
  BY DEF WaitFor

\* The login succeeds at the first of its tries.
LEMMA LoginWorksInTime ==
    ASSUME cmd # "none", NEW k \in 1..37, Deployed(k), arg.env, clean,
           LoginRetried, Head(todo) = Order[k], cmd' = "none"
    PROVE  ok'
<1>1. k = 33
  BY Heads, Spots
<1>2. ticks = Ticks /\ Ticks > 0
  BY <1>1, KindDeployAssumption DEF Deployed
<1>3. LoginWorks
  BY <1>1, EnvWorks
<1>4. ticks # 0
  BY <1>2
<1>5. AdvanceWith(1, NewJob)
  BY <1>3, <1>4, WaitIsOver DEF LoginRetried
<1> QED BY <1>5, NotWrong DEF Advance

\* No step of a deployment fails by itself.
LEMMA DeployWorks ==
    ASSUME Turn, Running, cmd \in Deployments, NEW k \in 1..37, k = Place,
           Deployed(k), Step, cmd' = "none", arg.env, clean',
           Readable(arg.target)
    PROVE  ok'
<1>1. Head(todo) = Order[k] /\ cmd # "none" /\ arg \in Args(cmd)
  BY DeploymentsBehind, Placed DEF Deployments, Running
<1>2. clean
  BY StepMoves DEF same
<1>3. Head(todo) \notin
        {"configClean", "login", "loginInverted", "orchCA", "poll",
         "stopProxy", "stopAllProxies", "portForward", "forwarding",
         "savePid", "keysSecret", "writeKeys", "share"}
  BY <1>1, Ordered
<1>4. \/ Reads \/ Make \/ RenderClusterTemplate \/ MergeProxy \/ UndeployKind
      \/ KindCluster \/ KeycloakSecret \/ SreSecrets \/ ArgoHelm \/ RootApp
      \/ SkipGitea \/ CreateOrUpdateGiteaSecret \/ GiteaHelm
      \/ CreateOrUpdateGiteaAccount
      \/ LoginRetried \/ RouterStart \/ RouterStop
  BY <1>3, Heads DEF Step
<1>5. CASE RenderClusterTemplate \/ MergeProxy \/ UndeployKind
  BY <1>1, <1>5, NotWrong DEF RenderClusterTemplate, MergeProxy, UndeployKind
<1>6. CASE Reads
  BY <1>1, <1>6, ReadsWork
<1>7. CASE Make
  BY <1>1, <1>7, MakeWorks
<1>8. CASE SkipGitea \/ CreateOrUpdateGiteaSecret \/ GiteaHelm
             \/ CreateOrUpdateGiteaAccount
  BY <1>1, <1>8, GiteaWorks
<1>9. CASE KindCluster \/ KeycloakSecret \/ SreSecrets \/ ArgoHelm \/ RootApp
  BY <1>1, <1>9, ClusterWorks
<1>10. CASE RouterStart \/ RouterStop
  BY <1>1, <1>10, RouterWorks
<1>11. CASE LoginRetried
  BY <1>1, <1>2, <1>11, LoginWorksInTime
<1> QED BY <1>4, <1>5, <1>6, <1>7, <1>8, <1>9, <1>10, <1>11

\* A deployment none of whose calls fails succeeds when the password is given
\* and the definition can be read, whatever stopped commands have left on the
\* machine and in the old cluster.
THEOREM RedeploySucceeds == Spec => RedeployWorks
<1>1. IInv /\ [Next]_vars =>
        [(Errs /\ cmd \in Deployments /\ arg.env /\ clean') =>
           ~Readable(arg.target)]_vars
  <2> SUFFICES ASSUME IInv, Next, Errs, cmd \in Deployments, arg.env, clean',
                      Readable(arg.target)
               PROVE  FALSE
    BY DEF vars
  <2>1. Running /\ Step /\ cmd' = "none" /\ ~ok'
    BY NoCall DEF IInv, Errs
  <2>2. PICK k \in 1..37 : k = Place /\ Deployed(k)
    BY <2>1, DeploymentsBehind, Placed DEF IInv, Deploying
  <2> QED BY <2>1, <2>2, DeployWorks DEF IInv
<1> QED BY <1>1, IInvInductive, PTL DEF Spec, RedeployWorks

-----------------------------------------------------------------------------
(* Gitea's secrets and accounts *)

\* Up to the current user, Gitea's secrets, and then its accounts, have the
\* password of this process.
Accounts(k) ==
    Asked("ao") =>
      /\ k = 24 => \A n \in 1..4 :
           n < job.i => pw.secret[GiteaUsers[n]] = done
      /\ k > 24 => \A n \in 1..4 : pw.secret[GiteaUsers[n]] = done
      /\ k = 26 => \A n \in 1..4 :
           n < job.i => pw.account[GiteaUsers[n]] = done
      /\ k > 26 => \A n \in 1..4 : pw.account[GiteaUsers[n]] = done

\* ... for every command that makes Gitea's accounts.
Accounting ==
    cmd \in DOMAIN Behind => \A k \in 1..37 : k = Place => Accounts(k)

\* The users are those of the list.
LEMMA UserInUsers ==
    ASSUME NEW n \in 1..4 PROVE GiteaUsers[n] \in Users
  BY DEF GiteaUsers, Users

\* One user more has its password.
LEMMA OneMoreUser ==
    ASSUME NEW f, NEW g, f \in [Users -> Passwords], NEW i \in 1..4, NEW d,
           g = [f EXCEPT ![GiteaUsers[i]] = d],
           \A n \in 1..4 : n < i => f[GiteaUsers[n]] = d
    PROVE  \A n \in 1..4 : n < i + 1 => g[GiteaUsers[n]] = d
<1>1. ASSUME NEW n \in 1..4, n < i + 1 PROVE g[GiteaUsers[n]] = d
  <2>1. GiteaUsers[n] \in Users
    BY UserInUsers
  <2>2. n < i \/ n = i
    BY <1>1
  <2> QED BY <2>1, <2>2
<1> QED BY <1>1

\* When all have it, the passwords are the same.
LEMMA AllUsers ==
    ASSUME NEW f \in [Users -> Passwords], NEW g \in [Users -> Passwords],
           NEW d, \A n \in 1..4 : f[GiteaUsers[n]] = d,
           \A n \in 1..4 : g[GiteaUsers[n]] = d
    PROVE  f = g
<1>1. ASSUME NEW u \in Users PROVE f[u] = g[u]
  <2>1. PICK n \in 1..4 : u = GiteaUsers[n]
    BY FirstItem DEF Users, GiteaUsers
  <2> QED BY <2>1
<1> QED BY <1>1

\* A step is at the same place or one further.
LEMMA PlaceStep ==
    ASSUME Turn, Running, cmd \in DOMAIN Behind, Step \/ CallFails,
           cmd' # "none", NEW k \in 1..37, k = Place
    PROVE  /\ Running' /\ UNCHANGED <<cmd, arg, done>>
           /\ \/ Place' = k + 1 /\ Advance /\ job' = NewJob
              \/ Place' = k + 1 /\ At("giteaHelm") /\ job' = [i |-> 2]
              \/ /\ Place' = k /\ todo' = todo
                 /\ NextItem \/ Within(job) \/ Waited
<1>1. /\ Moves /\ fails' \in 0..MaxFails /\ clean' \in BOOLEAN
  BY StepMoves, CallFailsMoves, TurnStep DEF Next, Turn
<1>2. /\ Running' /\ UNCHANGED <<cmd, arg, done>>
      /\ \/ Len(todo') = Len(todo) - 1 /\ Advance /\ job' = NewJob
         \/ /\ Len(todo') = Len(todo) - 1 /\ At("giteaHelm")
            /\ job' = [i |-> 2]
         \/ todo' = todo /\ (NextItem \/ Within(job) \/ Waited)
  BY <1>1, Goes
<1>3. /\ todo' = todo => Place' = k
      /\ Len(todo') = Len(todo) - 1 => Place' = k + 1
  BY <1>2, PlaceMoves
<1> QED BY <1>2, <1>3

\* Behind Gitea's accounts nothing changes.
LEMMA LateAccounts ==
    ASSUME NEW k \in 27..37, Accounts(k), NEW j \in {k, k + 1},
           UNCHANGED <<preset, arg, done>>,
           pw'.secret = pw.secret, pw'.account = pw.account
    PROVE  Accounts(j)'
<1>1. Asked("ao")' = Asked("ao")
  BY AskedSame
<1>2. j # 24 /\ j # 26 /\ j > 24 /\ j > 26 /\ k > 24 /\ k > 26
  OBVIOUS
<1> QED BY <1>1, <1>2 DEF Accounts

\* Without application orchestration nothing is asked.
LEMMA Unasked ==
    ASSUME ~Asked("ao"), UNCHANGED <<preset, arg>>, NEW j PROVE Accounts(j)'
<1>1. Asked("ao")' = Asked("ao")
  BY AskedSame
<1> QED BY <1>1 DEF Accounts

\* The secrets.
LEMMA SecretAccounts ==
    ASSUME Turn, Running, Types, CreateOrUpdateGiteaSecret, Accounts(24),
           UNCHANGED <<arg, done>>, cmd' # "none", NEW j \in 24..25,
           j = 25 => Advance /\ job' = NewJob,
           j = 24 => todo' = todo
    PROVE  Accounts(j)'
<1>1. Asked("ao") /\ ~At("share")
  BY Unshare DEF CreateOrUpdateGiteaSecret, InGitea
<1>2. job.i \in 1..4 /\ User = GiteaUsers[job.i] /\ Len(GiteaUsers) = 4
  BY <1>1, UserType, FirstItem DEF User
<1>3. /\ pw' = [pw EXCEPT !.secret[User] = done]
      /\ NextUserOr(Len(GiteaUsers)) /\ UNCHANGED preset
  BY DEF CreateOrUpdateGiteaSecret, Return, machine
<1>4. /\ pw.secret \in [Users -> Passwords]
      /\ pw'.secret = [pw.secret EXCEPT ![GiteaUsers[job.i]] = done]
  BY <1>2, <1>3 DEF Types, Pws
<1>5. \A n \in 1..4 : n < job.i => pw.secret[GiteaUsers[n]] = done
  BY <1>1 DEF Accounts
<1>6. PICK i \in 1..4 : i = job.i
  BY <1>2
<1>7. \A n \in 1..4 : n < i + 1 => pw'.secret[GiteaUsers[n]] = done
  BY <1>4, <1>5, <1>6, OneMoreUser
<1>8. CASE j = 24
  <2>1. job' = [job EXCEPT !.i = job.i + 1]
    <3>1. ~Advance
      BY <1>8 DEF Advance, AdvanceWith, Return, Running
    <3> QED BY <1>3, <3>1 DEF NextUserOr, Within
  <2>2. job'.i = i + 1
    BY <1>6, <2>1 DEF Running
  <2> QED BY <1>7, <1>8, <2>2 DEF Accounts
<1>9. CASE j = 25
  <2>1. i = 4
    <3>1. ~(job.i < 4)
      BY <1>2, <1>3, <1>6, <1>9 DEF NextUserOr, Within, NewJob, Running
    <3> QED BY <1>6, <3>1
  <2>2. \A n \in 1..4 : pw'.secret[GiteaUsers[n]] = done
    BY <1>7, <2>1
  <2> QED BY <1>9, <2>2 DEF Accounts
<1> QED BY <1>8, <1>9

\* The server, and gitea_admin with it.
LEMMA HelmAccounts ==
    ASSUME Turn, Types, GiteaHelm, Accounts(25), UNCHANGED <<arg, done>>,
           cmd' # "none", job' = [i |-> 2]
    PROVE  Accounts(26)'
<1>1. /\ pw' = [pw EXCEPT !.account["gitea_admin"] = done]
      /\ Asked("ao")
  BY DEF GiteaHelm, Return, InGitea
<1>2. GiteaUsers[1] = "gitea_admin" /\ GiteaUsers[1] \in Users
  BY UserInUsers DEF GiteaUsers
<1>3. /\ pw.account \in [Users -> Passwords]
      /\ pw'.account = [pw.account EXCEPT !["gitea_admin"] = done]
      /\ pw'.secret = pw.secret
  BY <1>1 DEF Types, Pws
<1>4. pw'.account[GiteaUsers[1]] = done
  BY <1>2, <1>3
<1>5. \A n \in 1..4 : n < job'.i => n = 1
  <2>1. job'.i = 2
    OBVIOUS
  <2> QED BY <2>1
<1>6. \A n \in 1..4 : n < job'.i => pw'.account[GiteaUsers[n]] = done
  BY <1>4, <1>5
<1>7. \A n \in 1..4 : pw'.secret[GiteaUsers[n]] = done
  BY <1>1, <1>3 DEF Accounts
<1> QED BY <1>6, <1>7 DEF Accounts

\* One account: it gets the password even when it was there.
LEMMA UserAccounts ==
    ASSUME Turn, Running, Types, CreateOrUpdateGiteaAccount, Accounts(26),
           done' = done
    PROVE  /\ \A n \in 1..4 : pw'.secret[GiteaUsers[n]] = done
           /\ \A n \in 1..4 :
                n < job.i + 1 => pw'.account[GiteaUsers[n]] = done
           /\ job.i \in 1..4
           /\ \/ job.i = 4 /\ Advance
              \/ job.i < 4 /\ Within([job EXCEPT !.i = @ + 1])
<1>1. Asked("ao") /\ ~At("share")
  BY Unshare DEF CreateOrUpdateGiteaAccount, InGitea
<1>2. job.i \in 1..4 /\ User = GiteaUsers[job.i] /\ Len(GiteaUsers) = 4
  BY <1>1, UserType, FirstItem DEF User
<1>3. /\ pw' = [pw EXCEPT !.account[User] = done]
      /\ NextUserOr(Len(GiteaUsers))
  BY DEF CreateOrUpdateGiteaAccount
<1>4. /\ pw.account \in [Users -> Passwords] /\ pw'.secret = pw.secret
      /\ pw'.account = [pw.account EXCEPT ![GiteaUsers[job.i]] = done]
  BY <1>2, <1>3 DEF Types, Pws
<1>5. /\ \A n \in 1..4 : n < job.i => pw.account[GiteaUsers[n]] = done
      /\ \A n \in 1..4 : pw.secret[GiteaUsers[n]] = done
  BY <1>1 DEF Accounts
<1>6. PICK i \in 1..4 : i = job.i
  BY <1>2
<1>7. \A n \in 1..4 : n < i + 1 => pw'.account[GiteaUsers[n]] = done
  BY <1>4, <1>5, <1>6, OneMoreUser
<1>8. \/ i = 4 /\ Advance
      \/ i < 4 /\ Within([job EXCEPT !.i = @ + 1])
  BY <1>2, <1>3, <1>6 DEF NextUserOr
<1> QED BY <1>4, <1>5, <1>6, <1>7, <1>8

\* The accounts.
LEMMA AccountAccounts ==
    ASSUME Turn, Running, Types, CreateOrUpdateGiteaAccount, Accounts(26),
           UNCHANGED <<arg, done>>, cmd' # "none", NEW j \in 26..27,
           j = 27 => Advance /\ job' = NewJob,
           j = 26 => todo' = todo
    PROVE  Accounts(j)'
<1>1. /\ \A n \in 1..4 : pw'.secret[GiteaUsers[n]] = done
      /\ \A n \in 1..4 : n < job.i + 1 => pw'.account[GiteaUsers[n]] = done
      /\ job.i \in 1..4
      /\ \/ job.i = 4 /\ Advance
         \/ job.i < 4 /\ Within([job EXCEPT !.i = @ + 1])
  BY UserAccounts
<1>2. CASE j = 26
  <2>1. job' = [job EXCEPT !.i = job.i + 1]
    <3>1. ~Advance
      BY <1>2 DEF Advance, AdvanceWith, Return, Running
    <3> QED BY <1>1, <3>1 DEF Within
  <2>2. job'.i = job.i + 1
    BY <2>1 DEF Running
  <2> QED BY <1>1, <1>2, <2>2 DEF Accounts
<1>3. CASE j = 27
  <2>1. job.i = 4
    <3>1. ~(job.i < 4)
      BY <1>1, <1>3 DEF Within, NewJob, Running
    <3> QED BY <1>1, <3>1
  <2>2. \A n \in 1..4 : pw'.account[GiteaUsers[n]] = done
    BY <1>1, <2>1
  <2> QED BY <1>1, <1>3, <2>2 DEF Accounts
<1> QED BY <1>2, <1>3

\* No later step changes a password of Gitea.
LEMMA LatePasswords ==
    ASSUME Types, NEW k \in 27..37, Head(todo) = Order[k], Step
    PROVE  /\ preset' = preset
           /\ pw'.secret = pw.secret /\ pw'.account = pw.account
<1>1. Head(todo) \in
        {"checkTarget", "cachePem", "registryCerts", "argoHelm",
         "routerStop", "routerStart", "loginRetried", "repos", "chartOrg",
         "revision", "rootApp"}
  BY Ordered
<1>2. Reads \/ Make \/ ArgoHelm \/ RouterStop \/ RouterStart \/ LoginRetried
        \/ RootApp
  BY <1>1, Heads DEF Step
<1>3. CASE ArgoHelm
  <2>1. pw' = pw \/ pw' = [pw EXCEPT !.argo = Default]
    BY <1>3 DEF ArgoHelm
  <2> QED BY <1>3, <2>1 DEF ArgoHelm, Types, Pws, machine
<1>4. CASE Reads \/ Make \/ RouterStop \/ RouterStart \/ LoginRetried
             \/ RootApp
  BY <1>4 DEF Reads, Make, RouterStop, RouterStart, LoginRetried, RootApp,
     world, inCluster, machine
<1> QED BY <1>2, <1>3, <1>4

\* Every step of these commands keeps the passwords up to the current user.
LEMMA AccountsStep ==
    ASSUME Turn, Running, Types, cmd \in DOMAIN Behind, Step,
           cmd' # "none", NEW k \in 1..37, k = Place, Accounts(k),
           NEW j \in 1..37, j = Place'
    PROVE  Accounts(j)'
<1>1. /\ Running' /\ UNCHANGED <<cmd, arg, done>>
      /\ \/ j = k + 1 /\ Advance /\ job' = NewJob
         \/ j = k + 1 /\ At("giteaHelm") /\ job' = [i |-> 2]
         \/ j = k /\ todo' = todo /\ (NextItem \/ Within(job) \/ Waited)
  BY PlaceStep
<1>2. Head(todo) = Order[k]
  BY Placed
<1>3. j = k \/ j = k + 1
  BY <1>1
<1>4. CASE j \in 1..23
  BY <1>4 DEF Accounts
<1>5. CASE k = 23 /\ j = 24
  <2>1. ~At("giteaHelm")
    BY <1>2, <1>5, Ordered DEF At
  <2>2. job'.i = 1
    BY <1>1, <1>5, <2>1, FirstItem
  <2>3. \A n \in 1..4 : ~(n < job'.i)
    BY <2>2
  <2> QED BY <1>5, <2>3 DEF Accounts
<1>6. CASE k \in 27..37
  <2>1. /\ preset' = preset
        /\ pw'.secret = pw.secret /\ pw'.account = pw.account
    BY <1>2, <1>6, LatePasswords
  <2> QED BY <1>1, <1>3, <1>6, <2>1, LateAccounts
<1>7. CASE k \in 24..26
  <2>1. Head(todo) \in {"giteaSecrets", "giteaHelm", "giteaAccounts"}
    BY <1>2, <1>7, Ordered
  <2>2. /\ SkipGitea \/ CreateOrUpdateGiteaSecret \/ GiteaHelm
             \/ CreateOrUpdateGiteaAccount
        /\ k = 24 => Head(todo) = "giteaSecrets"
        /\ k = 25 => Head(todo) = "giteaHelm"
        /\ k = 26 => Head(todo) = "giteaAccounts"
    BY <1>2, <2>1, Heads, Ordered DEF Step
  <2>3. CASE SkipGitea
    <3>1. ~Asked("ao") /\ preset' = preset
      BY <2>3 DEF SkipGitea, world, machine
    <3> QED BY <1>1, <3>1, Unasked
  <2>4. CASE CreateOrUpdateGiteaSecret
    <3>1. k = 24 /\ ~At("giteaHelm")
      BY <1>7, <2>2, <2>4, Heads DEF At
    <3>2. /\ j \in 24..25 /\ (j = 25 => Advance /\ job' = NewJob)
          /\ j = 24 => todo' = todo
      BY <1>1, <3>1
    <3> QED BY <1>1, <2>4, <3>1, <3>2, SecretAccounts
  <2>5. CASE GiteaHelm
    <3>1. k = 25
      BY <1>7, <2>2, <2>5, Heads
    <3>2. AdvanceWith(1, [i |-> 2])
      BY <2>5 DEF GiteaHelm, Return
    <3>3. job' = [i |-> 2] /\ todo' # todo
      <4>1. /\ todo' = SubSeq(todo, 1 + 1, Len(todo)) /\ job' = [i |-> 2]
        BY <3>2 DEF AdvanceWith, Return
      <4>2. todo \in Seq(Steps) /\ todo # <<>>
        BY DEF Running
      <4> QED BY <4>1, <4>2
    <3>4. j = 26
      BY <1>1, <3>1, <3>3
    <3> QED BY <1>1, <2>5, <3>1, <3>3, <3>4, HelmAccounts
  <2>6. CASE CreateOrUpdateGiteaAccount
    <3>1. k = 26 /\ ~At("giteaHelm")
      BY <1>7, <2>2, <2>6, Heads DEF At
    <3>2. /\ j \in 26..27 /\ (j = 27 => Advance /\ job' = NewJob)
          /\ j = 26 => todo' = todo
      BY <1>1, <3>1
    <3> QED BY <1>1, <2>6, <3>1, <3>2, AccountAccounts
  <2> QED BY <2>2, <2>3, <2>4, <2>5, <2>6
<1> QED BY <1>3, <1>4, <1>5, <1>6, <1>7

\* A call whose failure does not end these commands is none of Gitea's.
LEMMA DeployCallFails ==
    ASSUME Turn, Running, cmd \in DOMAIN Behind, NEW k \in 1..37, k = Place,
           CallFails, cmd' # "none" \/ ok'
    PROVE  /\ k \in {7, 17, 31, 33} /\ UNCHANGED world
           /\ Within(job) \/ Advance
<1>1. Head(todo) = Order[k]
  BY Placed
<1>2. /\ Head(todo) \notin {"poll", "stopProxy", "stopAllProxies"}
      /\ Head(todo) = "loginRetried" => k = 33
      /\ Head(todo) = "saveTls" => k = 7
      /\ Head(todo) = "restoreTls" => k = 17
      /\ Head(todo) = "routerStop" => k = 31
  <2>1. /\ Head(todo) = "loginRetried" => k = 33
        /\ Head(todo) = "saveTls" => k = 7
        /\ Head(todo) = "restoreTls" => k = 17
        /\ Head(todo) = "routerStop" => k = 31
    BY <1>1, Spots
  <2>2. Head(todo) \notin {"poll", "stopProxy", "stopAllProxies"}
    BY <1>1, Ordered
  <2> QED BY <2>1, <2>2
<1>3. \/ Head(todo) = "loginRetried" /\ Within(job)
      \/ Head(todo) \in {"saveTls", "restoreTls", "routerStop"} /\ Advance
  BY <1>2 DEF CallFails, Forgiven, At, Return
<1>4. UNCHANGED world
  BY <1>3, HalfNothing DEF CallFails
<1> QED BY <1>2, <1>3, <1>4

\* ... so that the passwords are kept then as well.
LEMMA AccountsFail ==
    ASSUME Turn, Running, Types, cmd \in DOMAIN Behind, CallFails,
           cmd' # "none", NEW k \in 1..37, k = Place, Accounts(k),
           NEW j \in 1..37, j = Place'
    PROVE  Accounts(j)'
<1>1. k \in {7, 17, 31, 33} /\ UNCHANGED world
  BY DeployCallFails
<1>2. UNCHANGED <<arg, done>> /\ (j = k \/ j = k + 1)
  BY PlaceStep
<1>3. CASE k \in {7, 17}
  BY <1>2, <1>3 DEF Accounts
<1>4. CASE k \in {31, 33}
  <2>1. UNCHANGED <<preset, pw>> /\ k \in 27..37 /\ j \in {k, k + 1}
    BY <1>1, <1>2, <1>4 DEF world, inCluster, machine
  <2> QED BY <1>2, <2>1, LateAccounts
<1> QED BY <1>1, <1>3, <1>4

\* These commands start before Gitea's secrets.
LEMMA GiteaPlace ==
    ASSUME NEW c \in DOMAIN Behind
    PROVE  38 - Len(Program[c]) - Behind[c] \in 1..23
<1>1. CASE c \in Deployments
  <2>1. PICK x : x = 38 - Len(Program[c]) - Behind[c]
    OBVIOUS
  <2>2. x \in 1..4
    BY <1>1, <2>1, FirstPlace
  <2> QED BY <2>1, <2>2
<1>2. CASE c = "gitea"
  <2>1. Program[c] = Gitea /\ Fits(Gitea, 22, 4) /\ Behind[c] = 11
    BY <1>2, FitsParts DEF Program, Behind
  <2>2. Len(Program[c]) = 4
    BY <2>1 DEF Fits
  <2> QED BY <2>1, <2>2
<1> QED BY <1>1, <1>2, DeploymentsBehind

\* Every step keeps the passwords up to the current user.
LEMMA AccountingStep ==
    ASSUME Turn, Types, Accounting, [Next]_vars PROVE Accounting'
<1>1. CASE \E c \in Commands : \E a \in Args(c) : Start(c, a)
  <2>1. PICK c \in Commands : \E a \in Args(c) : Start(c, a)
    BY <1>1
  <2>2. cmd' = c /\ todo' = Program[c]
    BY <2>1 DEF Start, Begin
  <2>3. ASSUME c \in DOMAIN Behind, NEW k \in 1..37, k = Place'
        PROVE  Accounts(k)'
    <3>1. k \in 1..23
      BY <2>2, <2>3, GiteaPlace DEF Place
    <3> QED BY <3>1 DEF Accounts
  <2> QED BY <2>2, <2>3 DEF Accounting
<1>2. CASE Step \/ CallFails
  <2>1. Running
    BY <1>2, StepMoves, AtRuns DEF Turn, CallFails, Idle
  <2>2. cmd' \in {cmd, "none"} /\ "none" \notin DOMAIN Behind
    BY <1>2, <2>1, CmdKept DEF Behind
  <2>3. ASSUME cmd \in DOMAIN Behind, cmd' # "none", NEW j \in 1..37,
               j = Place'
        PROVE  Accounts(j)'
    <3>1. PICK k \in 1..37 : k = Place
      BY <2>1, <2>3, Placed
    <3>2. Accounts(k)
      BY <2>3, <3>1 DEF Accounting
    <3> QED BY <1>2, <2>1, <2>3, <3>1, <3>2, AccountsStep, AccountsFail
  <2> QED BY <2>2, <2>3 DEF Accounting
<1>3. CASE Cluster \/ UNCHANGED vars
  <2>1. CASE cmd \in DOMAIN Behind
    <3>1. ~(Applications \/ Addresses \/ VaultInit \/ VaultRestart)
      BY <2>1 DEF Behind, Applications, Addresses, VaultInit, VaultRestart,
         RouterCommands, VaultCommands
    <3>2. UNCHANGED <<pw, preset, cmd, arg, todo, job, done>>
      BY <1>3, <3>1 DEF Cluster, ProxyEnds, vars, world, inCluster, machine,
         command
    <3>3. Place' = Place
      BY <3>2 DEF Place
    <3>4. ASSUME NEW k \in 1..37, k = Place', Accounts(k) PROVE Accounts(k)'
      <4>1. Asked("ao")' = Asked("ao")
        BY <3>2, AskedSame
      <4> QED BY <3>2, <3>4, <4>1 DEF Accounts
    <3> QED BY <3>2, <3>3, <3>4 DEF Accounting
  <2>2. CASE cmd \notin DOMAIN Behind
    <3>1. cmd' = cmd
      BY <1>3 DEF Cluster, Applications, Addresses, VaultInit, VaultRestart,
         ProxyEnds, vars, command
    <3> QED BY <2>2, <3>1 DEF Accounting
  <2> QED BY <2>1, <2>2
<1> QED BY <1>1, <1>2, <1>3 DEF Next

\* A command that succeeds has come to the last account.
LEMMA GiteaEnds ==
    ASSUME Turn, Running, Types, cmd \in DOMAIN Behind, NEW k \in 1..37,
           k = Place, Accounts(k), Asked("ao"), Step \/ CallFails,
           cmd' = "none", ok'
    PROVE  pw'.secret = pw'.account
<1>1. /\ Moves /\ fails' \in 0..MaxFails /\ clean' \in BOOLEAN
  BY StepMoves, CallFailsMoves, TurnStep DEF Next, Turn
<1>2. Len(todo) = 1 /\ done' = done
  <2>1. cmd # "none"
    BY DEF Behind
  <2>2. cmd' # cmd /\ ~Running'
    BY <2>1, Names DEF Running
  <2>3. done' = done
    BY <1>1 DEF Moves, Return, Advance, AdvanceWith, NextItem, Within, Waited
  <2> QED BY <1>1, <2>1, <2>2, <2>3, Goes
<1>3. k \in {26, 35, 37} /\ Head(todo) = Order[k]
  BY <1>2, LastPlace, Placed DEF Behind
<1>4. Step
  BY <1>3, DeployCallFails
<1>5. CASE k \in {35, 37}
  <2>1. pw'.secret = pw.secret /\ pw'.account = pw.account /\ k > 26 /\ k > 24
    BY <1>3, <1>4, <1>5, LatePasswords
  <2>2. /\ pw.secret \in [Users -> Passwords]
        /\ pw.account \in [Users -> Passwords]
        /\ \A n \in 1..4 : pw.secret[GiteaUsers[n]] = done
        /\ \A n \in 1..4 : pw.account[GiteaUsers[n]] = done
    BY <2>1, <1>5 DEF Accounts, Types, Pws
  <2> QED BY <2>1, <2>2, AllUsers
<1>6. CASE k = 26
  <2>1. CreateOrUpdateGiteaAccount
    BY <1>3, <1>4, <1>6, Ordered, Heads DEF Step, SkipGitea
  <2>2. /\ \A n \in 1..4 : pw'.secret[GiteaUsers[n]] = done
        /\ \A n \in 1..4 :
             n < job.i + 1 => pw'.account[GiteaUsers[n]] = done
        /\ job.i \in 1..4
        /\ \/ job.i = 4 /\ Advance
           \/ job.i < 4 /\ Within([job EXCEPT !.i = @ + 1])
    BY <1>2, <1>6, <2>1, UserAccounts
  <2>3. job.i = 4
    <3>1. cmd # "none"
      BY DEF Behind
    <3> QED BY <2>2, <3>1 DEF Within
  <2>4. \A n \in 1..4 : pw'.account[GiteaUsers[n]] = done
    BY <2>2, <2>3
  <2>5. /\ pw'.secret \in [Users -> Passwords]
        /\ pw'.account \in [Users -> Passwords]
    BY <2>1, GiteaAccountTypes DEF Types, Pws
  <2> QED BY <2>2, <2>4, <2>5, AllUsers
<1> QED BY <1>3, <1>5, <1>6

\* A deployment, or deploy:gitea on a cluster of an earlier process, that
\* succeeds leaves every account of Gitea with the password of its secret, for
\* any number of processes that may have stopped between the two before.
THEOREM AccountsHaveTheirSecrets == Spec => GiteaSecretsMatchAccounts
<1>1. Init => Accounting
  BY DEF Init, Accounting, Behind
<1>2. IInv /\ Accounting /\ [Next]_vars => Accounting'
  BY AccountingStep DEF IInv
<1>3. IInv /\ Accounting /\ [Next]_vars =>
        [(Succeeds /\ cmd \in Deployments \cup {"gitea"} /\ Asked("ao")) =>
           pw'.secret = pw'.account]_vars
  <2> SUFFICES ASSUME IInv, Accounting, Next, Succeeds,
                      cmd \in Deployments \cup {"gitea"}, Asked("ao")
               PROVE  pw'.secret = pw'.account
    BY DEF vars
  <2>1. cmd \in DOMAIN Behind /\ cmd' = "none" /\ ok' /\ cmd # "none"
    BY DeploymentsBehind DEF Succeeds
  <2>2. Running /\ (Step \/ CallFails)
    BY <2>1, NoCall DEF IInv
  <2>3. PICK k \in 1..37 : k = Place /\ Accounts(k)
    BY <2>1, <2>2, Placed DEF Accounting
  <2> QED BY <2>1, <2>2, <2>3, GiteaEnds DEF IInv
<1> QED BY <1>1, <1>2, <1>3, IInvInductive, PTL
       DEF Spec, GiteaSecretsMatchAccounts
=============================================================================
