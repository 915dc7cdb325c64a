----------------------------- MODULE KindDeploy -----------------------------
(***************************************************************************)
(* mage/deploy.go, argo.go, router.go, vault.go, wait.go, config.go and    *)
(* their targets in Magefile.go: the commands with which a developer puts  *)
(* an Orchestrator into a kind cluster, and what they leave behind, in the *)
(* cluster and on the machine, for the next command.                       *)
(*                                                                         *)
(* Every command is a process of its own and draws its own passwords; a    *)
(* password is the number of the process that drew it, a cluster the       *)
(* number of the process that made it.  The environment variables a        *)
(* command requires are set, SKIP_ROUTER, ARGO_IP and ORCHESTRATOR_IP are  *)
(* not.                                                                    *)
(***************************************************************************)
EXTENDS Command, FiniteSets

CONSTANTS
    Dev,      \* features that the target "dev" enables
    Presets,  \* features of the preset files
    Disabled, \* profiles that DISABLE_*_PROFILE variables disable
    Limit,    \* polls before an application has exceeded its duration
    Shares,   \* key shares in the secret vault-keys
    Threshold, \* key shares that unseal Vault
    Commands  \* the commands that are run

AppNames == DOMAIN Limit

ASSUME KindDeployAssumption ==
    /\ \A f \in Presets \cup {Dev} :
         f \subseteq {"ao", "co", "o11y", "mailpit", "cache", "autoCert"}
    /\ "root-app" \in AppNames /\ Limit \in [AppNames -> Nat]
    /\ Threshold \in Nat /\ Threshold > 0
    /\ Shares \in Nat /\ Shares >= Threshold
    /\ Ticks \in Nat \ {0} /\ MaxCommands \in Nat /\ MaxFails \in Nat

VARIABLES
    cluster, \* the kind cluster, 0 when there is none
    things,  \* what the commands have made, in the cluster or on the machine
    pw,      \* passwords in use; weak: Keycloak's does not meet the policy
    addr,    \* services that have an address
    apps,    \* ArgoCD's applications
    vault,   \* keys: the secret is there; shares: keys given; at: restarted
    preset,  \* the generated cluster definition
    session, \* the cluster the argocd client is logged in to
    host,    \* ca: cluster of the trusted CA; keys: of vault-keys.json
    router,  \* traefik on the machine
    proxy,   \* pids: port-forwards that run; file: the pid in .gitea-proxy
    clean    \* no call of the current command has failed

inCluster == <<cluster, pw, addr, apps, vault>>
machine == <<preset, session, host, router, proxy>>
world == <<inCluster, things, machine>>
vars == <<world, clean, fails, command>>

-----------------------------------------------------------------------------
(* Things that are made by a command line of their own.  when: the feature  *)
(* that asks for it; needs: what the command line fails without; once: it   *)
(* creates, and fails when the thing is there.                              *)

Made(f, n) == [when |-> f, needs |-> n, once |-> FALSE]
CreatedOnce(f, n) == [when |-> f, needs |-> n, once |-> TRUE]

AsdfPlugins == Made("", {})
CopyPolicy == Made("", {})
RegistryCacheCert == Made("cache", {})
LoadCacheCerts == Made("cache", {"cluster", "cacheCert"})
CreateNamespaces == Made("", {"cluster"})
HarborSecrets == Made("", {"cluster"})
PostgresSecret == Made("", {"cluster"})
MetalLB == Made("", {"cluster"})
MetalSetup == Made("", {"metalLB"})
Mailpit == CreatedOnce("mailpit", {"namespaces"})
GiteaTls == CreatedOnce("ao", {"namespaces"})
ArgoTls == CreatedOnce("", {"namespaces"})
RegistryCerts == Made("", {"cluster"})
RepoAdd == Made("", {"session", "argocd"})
ChartOrgAdd == Made("", {"argocd"})
KyvernoPolicy == Made("", {"rootApp"})

Things == [
    tools         |-> AsdfPlugins,
    policy        |-> CopyPolicy,
    cacheCert     |-> RegistryCacheCert,
    nodeCerts     |-> LoadCacheCerts,
    namespaces    |-> CreateNamespaces,
    harborSecrets |-> HarborSecrets,
    postgresSecret |-> PostgresSecret,
    metalLB       |-> MetalLB,
    metalSetup    |-> MetalSetup,
    mailpit       |-> Mailpit,
    giteaTls      |-> GiteaTls,
    argoTls       |-> ArgoTls,
    registryCerts |-> RegistryCerts,
    repos         |-> RepoAdd,
    chartOrg      |-> ChartOrgAdd,
    kyvernoPolicy |-> KyvernoPolicy]

OnMachine == {"tools", "policy", "cacheCert"}

-----------------------------------------------------------------------------
(* The programs. *)

UsePreset == <<"renderCluster", "mergeProxy">>

\* A bug: the old cluster is not deleted.
KindOnTop == <<"checkTarget", "tools", "policy", "saveTls",
               "cacheCert", "kindCluster", "nodeCerts">>

Kind == <<"checkTarget", "tools", "policy", "saveTls", "undeploy",
          "cacheCert", "kindCluster", "nodeCerts">>

LocalSecret == <<"harborSecrets", "keycloakSecret", "postgresSecret",
                 "sreSecrets">>

Gitea == <<"checkTarget", "giteaSecrets", "giteaHelm", "giteaAccounts">>

Argocd == <<"checkTarget", "cachePem", "registryCerts", "argoHelm">>

\* A bug: the router is stopped after it was started.
PreOrchDeploySwapped ==
    <<"namespaces">> \o LocalSecret
      \o <<"restoreTls", "metalLB", "metalSetup", "mailpit", "giteaTls",
           "argoTls">>
      \o Gitea \o Argocd
      \o <<"routerStart", "routerStop", "loginRetried", "repos", "chartOrg">>

PreOrchDeploy ==
    <<"namespaces">> \o LocalSecret
      \o <<"restoreTls", "metalLB", "metalSetup", "mailpit", "giteaTls",
           "argoTls">>
      \o Gitea \o Argocd
      \o <<"routerStop", "routerStart", "loginRetried", "repos", "chartOrg">>

OrchLocal == <<"revision", "rootApp">>

All == <<"validate">> \o Kind \o PreOrchDeploy \o OrchLocal

Program == [
    kindAll         |-> All,
    kindPreset      |-> UsePreset \o All,
    kind            |-> Kind \o PreOrchDeploy,
    usePreset       |-> UsePreset,
    configClean     |-> <<"configClean">>,
    orchLocal       |-> OrchLocal,
    gitea           |-> Gitea,
    argocd          |-> Argocd,
    argoLogin       |-> <<"login">>,
    addGithubRepos  |-> <<"login", "repos">>,
    addLocalRepos   |-> <<"loginInverted", "repos">>,
    victoriaMetrics |-> <<"sreMetrics">>,
    kyverno         |-> <<"kyvernoPolicy">>,
    orchCA          |-> <<"orchCA">>,
    routerStart     |-> <<"routerStart">>,
    routerRestart   |-> <<"routerStop", "routerStart">>,
    routerStop      |-> <<"routerStop">>,
    wait            |-> <<"poll">>,
    startProxy      |-> <<"stopProxy", "portForward", "forwarding", "savePid">>,
    stopProxy       |-> <<"stopProxy">>,
    stopAllProxies  |-> <<"stopAllProxies">>,
    vaultKeys       |-> <<"keysSecret", "writeKeys">>,
    unseal          |-> <<"keysSecret", "share">>,
    undeploy        |-> <<"undeploy">>]

ASSUME CommandsAssumption == Commands \subseteq DOMAIN Program

Deployments == {"kind", "kindAll", "kindPreset"}
VaultCommands == {"vaultKeys", "unseal"}
RouterCommands == {"routerStart", "routerRestart"}

\* target: the cluster definition; env: ORCH_DEFAULT_PASSWORD is set; cert:
\* the certificate of a sandbox router; features, disabled: the preset and
\* the DISABLE_*_PROFILE variables.
NoArg == [target |-> "dev", env |-> TRUE, cert |-> "", features |-> {},
          disabled |-> {}]

Certs == {"", "good", "bad", "lastDay"}

Preset(f, d) ==
    [NoArg EXCEPT !.target = "preset", !.features = f, !.disabled = d]
Target(t, e) == [NoArg EXCEPT !.target = t, !.env = e]

Args(c) ==
    IF c \in {"kindPreset", "usePreset"}
    THEN {Preset(f, d) : f \in Presets, d \in Disabled}
    ELSE IF c = "gitea"
    THEN {[NoArg EXCEPT !.target = t] : t \in {"dev", "preset"}}
    ELSE IF c \in {"kind", "argocd"}
    THEN {Target(t, e) : t \in {"dev", "preset"}, e \in BOOLEAN}
    ELSE IF c \in {"kindAll", "argoLogin", "addGithubRepos", "addLocalRepos",
                   "victoriaMetrics"}
    THEN {[NoArg EXCEPT !.env = e] : e \in BOOLEAN}
    ELSE IF c = "routerStart" THEN {[NoArg EXCEPT !.cert = x] : x \in Certs}
    ELSE {NoArg}

-----------------------------------------------------------------------------
(* What the commands read. *)

\* getTargetValues: the definition is a file with a root and its profiles.
Readable(t) == t = "dev" \/ preset.stage \in {"rendered", "merged"}
Features(t) ==
    IF t = "dev" THEN Dev ELSE IF Readable(t) THEN preset.features ELSE {}
Asked(f) == f = "" \/ f \in Features(arg.target)

Present ==
    things \cup (IF cluster # 0 THEN {"cluster"} ELSE {})
           \cup (IF session # 0 /\ session = cluster THEN {"session"} ELSE {})

FromEnv == MaxCommands + 1
Passwords == 0..FromEnv

\* GetDefaultOrchPassword: the variable, or the secret in the cluster that is
\* there now; 0 when there is none.
Default == IF arg.env THEN FromEnv ELSE pw.keycloak
Acceptable == Default # 0 /\ (arg.env \/ ~pw.weak)

GiteaUsers == <<"gitea_admin", "argocd", "apporch", "clusterorch">>
Users == {GiteaUsers[i] : i \in DOMAIN GiteaUsers}
NoPasswords == [u \in Users |-> 0]

NoApps == [a \in AppNames |-> [st |-> "absent", age |-> 0, since |-> 0]]
NoVault == [keys |-> FALSE, shares |-> 0, at |-> 0]
Unused == [keycloak |-> 0, weak |-> FALSE, argo |-> 0, secret |-> NoPasswords,
           account |-> NoPasswords]
NoConf == [argo |-> 0, gitea |-> 0, orch |-> 0, boots |-> 0, sandbox |-> FALSE]

Init ==
    /\ cluster = 0 /\ things = {} /\ pw = Unused /\ addr = {}
    /\ apps = NoApps /\ vault = NoVault
    /\ preset = [stage |-> "none", features |-> {}]
    /\ session = 0 /\ host = [ca |-> 0, keys |-> 0]
    /\ router = [on |-> FALSE, file |-> NoConf, loaded |-> NoConf]
    /\ proxy = [pids |-> {}, file |-> 0]
    /\ clean = TRUE
    /\ cmd = "none" /\ arg = <<>> /\ todo = <<>> /\ job = <<>>
    /\ ticks = 0 /\ ok = TRUE /\ done = 0 /\ fails = 0

-----------------------------------------------------------------------------
(* Running a command. *)

NewJob == [i |-> 1]

Start(c, a) ==
    /\ Begin(c, a, Program[c], NewJob)
    /\ clean' = TRUE
    /\ UNCHANGED <<world, fails>>

Advance == AdvanceWith(1, NewJob)
same == <<clean, fails>>

\* The step succeeds when b and ends the command otherwise.
Require(b) == IF b THEN Advance ELSE Return(FALSE)

\* Steps that only read: the password, the definition, the files of the
\* registry's certificate and of the version.  saveTls and restoreTls ask for
\* the gateway's certificate, but "aws" is no place it is kept in.
ReadOnly == [
    validate    |-> Acceptable,
    checkTarget |-> Readable(arg.target),
    saveTls     |-> TRUE,
    restoreTls  |-> TRUE,
    cachePem    |-> Asked("cache") => "cacheCert" \in things,
    revision    |-> TRUE]

Reads ==
    /\ todo # <<>> /\ Head(todo) \in DOMAIN ReadOnly
    /\ Require(ReadOnly[Head(todo)])
    /\ UNCHANGED <<world, same>>

\* A thing no feature asks for is passed over.
Possible(x) ==
    /\ Things[x].needs \subseteq Present
    /\ Things[x].once => x \notin things

Make ==
    /\ todo # <<>> /\ Head(todo) \in DOMAIN Things
    /\ LET x == Head(todo) IN
         \/ ~Asked(Things[x].when) /\ Advance /\ UNCHANGED things
         \/ /\ Asked(Things[x].when) /\ Require(Possible(x))
            /\ things' = IF Possible(x) THEN things \cup {x} ELSE things
    /\ UNCHANGED <<inCluster, machine, same>>

-----------------------------------------------------------------------------
(* Cluster definitions (config.go). *)

\* overrideFromEnvironment: application orchestration needs the clusters.
Override(features, disabled) ==
    features \ (disabled \cup IF "co" \in disabled THEN {"ao"} ELSE {})

\* The file is made empty, then filled, then merged with the proxy's values.
RenderClusterTemplate ==
    /\ At("renderCluster")
    /\ preset' = [stage |-> "rendered",
                  features |-> Override(arg.features, arg.disabled)]
    /\ Advance
    /\ UNCHANGED <<inCluster, things, session, host, router, proxy, same>>

MergeProxy ==
    /\ At("mergeProxy")
    /\ preset' = [preset EXCEPT !.stage = "merged"]
    /\ Advance
    /\ UNCHANGED <<inCluster, things, session, host, router, proxy, same>>

\* Generated definitions are ignored by git, the shipped ones are not.
ConfigClean ==
    /\ At("configClean")
    /\ preset' = [stage |-> "none", features |-> {}]
    /\ Advance
    /\ UNCHANGED <<inCluster, things, session, host, router, proxy, same>>

-----------------------------------------------------------------------------
(* The cluster and its secrets. *)

\* Everything in the cluster goes with it.
Wipe ==
    /\ cluster' = 0 /\ things' = things \cap OnMachine /\ pw' = Unused
    /\ addr' = {} /\ apps' = NoApps /\ vault' = NoVault

UndeployKind ==
    /\ At("undeploy")
    /\ Wipe
    /\ Advance
    /\ UNCHANGED <<machine, same>>

KindCluster ==
    /\ At("kindCluster")
    /\ Require(cluster = 0)
    /\ cluster' = IF cluster = 0 THEN done ELSE cluster
    /\ UNCHANGED <<things, pw, addr, apps, vault, machine, same>>

\* The random password has a special character, but perhaps no digit.
KeycloakSecret ==
    /\ At("keycloakSecret")
    /\ IF "namespaces" \in things
       THEN /\ \E w \in BOOLEAN :
                 pw' = [pw EXCEPT !.keycloak = done, !.weak = w]
            /\ Advance
       ELSE Return(FALSE) /\ UNCHANGED pw
    /\ UNCHANGED <<cluster, things, addr, apps, vault, machine, same>>

\* createLocalSreSecrets and victoriaMetrics give the exporter the default
\* password, which must satisfy the policy by now.
SreSecrets ==
    /\ At("sreSecrets") \/ At("sreMetrics")
    /\ LET b == Acceptable /\ "namespaces" \in things IN
         Require(b) /\ things' = things \cup (IF b THEN {Head(todo)} ELSE {})
    /\ UNCHANGED <<inCluster, machine, same>>

-----------------------------------------------------------------------------
(* Gitea: first all the secrets, then the server, then the accounts. *)

InGitea(s) == At(s) /\ Asked("ao")
User == GiteaUsers[job.i]

\* A bug: the list ends one element late.
NextUserPast(n) ==
    IF job.i <= n THEN Within([job EXCEPT !.i = @ + 1]) ELSE Advance

NextUserOr(n) ==
    IF job.i < n THEN Within([job EXCEPT !.i = @ + 1]) ELSE Advance

\* Without application orchestration there is no Gitea.
SkipGitea ==
    /\ At("giteaSecrets") \/ At("giteaHelm") \/ At("giteaAccounts")
    /\ ~Asked("ao")
    /\ Advance
    /\ UNCHANGED <<world, same>>

CreateOrUpdateGiteaSecret ==
    /\ InGitea("giteaSecrets")
    /\ IF "namespaces" \in things
       THEN /\ pw' = [pw EXCEPT !.secret[User] = done]
            /\ NextUserOr(Len(GiteaUsers))
       ELSE Return(FALSE) /\ UNCHANGED pw
    /\ UNCHANGED <<cluster, things, addr, apps, vault, machine, same>>

\* helm waits for the pods and the address; the first user comes with it.
GiteaHelm ==
    /\ InGitea("giteaHelm")
    /\ IF {"giteaTls", "metalSetup"} \subseteq things
       THEN /\ things' = things \cup {"gitea"} /\ addr' = addr \cup {"gitea"}
            /\ pw' = [pw EXCEPT !.account["gitea_admin"] = done]
            /\ AdvanceWith(1, [i |-> 2])
       ELSE Return(FALSE) /\ UNCHANGED <<things, addr, pw>>
    /\ UNCHANGED <<cluster, apps, vault, machine, same>>

\* A bug: an account that exists keeps its password.
CreateGiteaAccount ==
    /\ InGitea("giteaAccounts")
    /\ pw' = IF pw.account[User] = 0 THEN [pw EXCEPT !.account[User] = done]
             ELSE pw
    /\ NextUserOr(Len(GiteaUsers))
    /\ UNCHANGED <<cluster, things, addr, apps, vault, machine, same>>

\* The account is made when it is not listed; its password is set in any case.
CreateOrUpdateGiteaAccount ==
    /\ InGitea("giteaAccounts")
    /\ pw' = [pw EXCEPT !.account[User] = done]
    /\ NextUserOr(Len(GiteaUsers))
    /\ UNCHANGED <<cluster, things, addr, apps, vault, machine, same>>

-----------------------------------------------------------------------------
(* ArgoCD. *)

ArgoHelm ==
    /\ At("argoHelm")
    /\ IF Acceptable /\ {"registryCerts", "metalSetup"} \subseteq things
       THEN /\ things' = things \cup {"argocd"} /\ addr' = addr \cup {"argocd"}
            /\ pw' = [pw EXCEPT !.argo = Default]
            /\ Advance
       ELSE Return(FALSE) /\ UNCHANGED <<things, addr, pw>>
    /\ UNCHANGED <<cluster, apps, vault, machine, same>>

\* There is no initial secret, as the chart was given a password: the default
\* password of the moment is tried.
LoginWorks == Acceptable /\ "argocd" \in addr /\ pw.argo = Default

Login ==
    /\ At("login")
    /\ Require(LoginWorks)
    /\ session' = IF LoginWorks THEN cluster ELSE session
    /\ UNCHANGED <<inCluster, things, preset, host, router, proxy, same>>

LoginRetried ==
    /\ WaitFor("loginRetried", LoginWorks, FALSE, NewJob)
    /\ session' = IF LoginWorks THEN cluster ELSE session
    /\ UNCHANGED <<inCluster, things, preset, host, router, proxy, same>>

\* AddLocalRepos without the GitHub repositories takes a login that worked for
\* an error, and goes on after one that did not.
LoginInverted ==
    /\ At("loginInverted")
    /\ Require(~LoginWorks)
    /\ session' = IF LoginWorks THEN cluster ELSE session
    /\ UNCHANGED <<inCluster, things, preset, host, router, proxy, same>>

RootApp ==
    /\ At("rootApp")
    /\ LET b == "argocd" \in things IN
         /\ Require(b)
         /\ things' = things \cup (IF b THEN {"rootApp"} ELSE {})
         /\ apps' = IF b /\ apps["root-app"].st = "absent"
                    THEN [apps EXCEPT !["root-app"].st = "progressing"]
                    ELSE apps
    /\ UNCHANGED <<cluster, pw, addr, vault, machine, same>>

\* The CA is taken from the cluster and put into the machine's trust store;
\* without root and sudo this is left to the user, and no error.
OrchCA ==
    /\ At("orchCA")
    /\ Require("rootApp" \in things)
    /\ \E ca \in {cluster, host.ca} :
         host' = IF "rootApp" \in things THEN [host EXCEPT !.ca = ca] ELSE host
    /\ UNCHANGED <<inCluster, things, preset, session, router, proxy, same>>

-----------------------------------------------------------------------------
(* The router.  An address is found or 0.0.0.0 is written in its place; only *)
(* ArgoCD's must be there.                                                   *)

Found(s) == IF s \in addr THEN cluster ELSE 0

Conf == [argo |-> Found("argocd"), gitea |-> Found("gitea"),
         orch |-> Found("traefik"), boots |-> Found("boots"),
         sandbox |-> arg.cert # ""]

\* checkExternalDeps: "a day" is 60 * 24 seconds, the last day is accepted.
SandboxCert == arg.cert \in {"", "good", "lastDay"}

\* The container that runs already is replaced when its description changed,
\* and may or may not read the new routes otherwise.
RouterStart ==
    /\ At("routerStart")
    /\ \/ /\ "argocd" \in addr /\ SandboxCert
          /\ \E l \in {Conf, router.loaded} :
               /\ ~router.on \/ l.sandbox # Conf.sandbox => l = Conf
               /\ router' = [on |-> TRUE, file |-> Conf, loaded |-> l]
          /\ Advance
       \/ /\ ~("argocd" \in addr /\ SandboxCert)
          /\ Return(FALSE) /\ UNCHANGED router
       \/ \* an address, but not the names of the hosts
          "traefik" \in addr /\ Return(FALSE) /\ UNCHANGED router
    /\ UNCHANGED <<inCluster, things, preset, session, host, proxy, same>>

\* docker-compose's error is not returned.
RouterStop ==
    /\ At("routerStop")
    /\ router' = [router EXCEPT !.on = FALSE]
    /\ Advance
    /\ UNCHANGED <<inCluster, things, preset, session, host, proxy, same>>

-----------------------------------------------------------------------------
(* WaitUntilComplete. *)

Listed == {a \in AppNames : apps[a].st # "absent"}
Green(a) == apps[a].st = "green"

\* A bug: what ArgoCD reconciles counts as new.
SinceReconciled(a) == apps[a].since

\* The duration of a degraded application counts from its creation.
Since(a) == IF apps[a].st = "degraded" THEN apps[a].age ELSE apps[a].since

Exceeded == \E a \in Listed : ~Green(a) /\ Since(a) > Limit[a]

Cap(a, n) == IF n > Limit[a] THEN n ELSE n + 1

\* Another ten seconds.
Later == [a \in AppNames |->
    IF a \in Listed
    THEN [apps[a] EXCEPT !.age = Cap(a, @), !.since = Cap(a, @)] ELSE apps[a]]

CheckApps ==
    /\ At("poll")
    /\ \/ Exceeded /\ Return(FALSE) /\ UNCHANGED apps
       \/ /\ Listed # {} /\ \A a \in Listed : Green(a)
          /\ Advance /\ UNCHANGED apps
       \/ /\ ~Exceeded /\ ~(Listed # {} /\ \A a \in Listed : Green(a))
          /\ Within(job) /\ apps' = Later
    /\ UNCHANGED <<cluster, things, pw, addr, vault, machine, same>>

-----------------------------------------------------------------------------
(* The proxy to Gitea: kubectl port-forward, which outlives the command. *)

\* kill fails for a process that has ended; the pid is forgotten in any case.
StopGiteaProxy ==
    /\ At("stopProxy")
    /\ proxy' = [pids |-> proxy.pids \ {proxy.file}, file |-> 0]
    /\ Advance
    /\ UNCHANGED <<inCluster, things, preset, session, host, router, same>>

\* pkill finds them all; the file stays.
StopAllKubectlProxies ==
    /\ At("stopAllProxies")
    /\ proxy' = [proxy EXCEPT !.pids = {}]
    /\ Advance
    /\ UNCHANGED <<inCluster, things, preset, session, host, router, same>>

\* A second process cannot bind the port and ends at once.
StartGiteaPortForward ==
    /\ At("portForward")
    /\ Require("gitea" \in things)
    /\ proxy' = IF "gitea" \in things /\ proxy.pids = {}
                THEN [proxy EXCEPT !.pids = {done}] ELSE proxy
    /\ UNCHANGED <<inCluster, things, preset, session, host, router, same>>

\* A bug: the process is left behind when the command gives up.
GiveUpForward == proxy

\* After the last try the process is killed.
KillForward == [proxy EXCEPT !.pids = @ \ {done}]

\* Whoever holds the port answers; while Gitea starts, nobody does.
Forwarding ==
    /\ \E answers \in BOOLEAN :
         /\ answers => proxy.pids # {} /\ "gitea" \in things
         /\ WaitFor("forwarding", answers, FALSE, NewJob)
    /\ proxy' = IF cmd' = "none" THEN KillForward ELSE proxy
    /\ UNCHANGED <<inCluster, things, preset, session, host, router, same>>

SavePid ==
    /\ At("savePid")
    /\ proxy' = [proxy EXCEPT !.file = done]
    /\ Advance
    /\ UNCHANGED <<inCluster, things, preset, session, host, router, same>>

-----------------------------------------------------------------------------
(* Vault. *)

KeysSecret ==
    /\ WaitFor("keysSecret", vault.keys, FALSE, NewJob)
    /\ UNCHANGED <<world, same>>

WriteKeys ==
    /\ At("writeKeys")
    /\ host' = [host EXCEPT !.keys = cluster]
    /\ Advance
    /\ UNCHANGED <<inCluster, things, preset, session, router, proxy, same>>

Sealed == vault.shares < Threshold

\* A bug: the loop ends one share early.
NextShareBut ==
    IF job.i + 1 < Shares THEN Within([job EXCEPT !.i = @ + 1]) ELSE Advance

NextShare ==
    IF job.i < Shares THEN Within([job EXCEPT !.i = @ + 1]) ELSE Advance

\* A key that Vault does not need any more is accepted.
Unseal ==
    /\ At("share")
    /\ vault' = [vault EXCEPT !.shares = IF Sealed THEN @ + 1 ELSE @]
    /\ NextShare
    /\ UNCHANGED <<cluster, things, pw, addr, apps, machine, same>>

-----------------------------------------------------------------------------
(* A call fails, or its process is interrupted: before it does anything or   *)
(* half way.                                                                 *)

Half ==
    \/ UNCHANGED world
    \/ /\ At("renderCluster") /\ preset' = [stage |-> "empty", features |-> {}]
       /\ UNCHANGED <<inCluster, things, session, host, router, proxy>>
    \/ /\ At("undeploy") /\ Wipe /\ UNCHANGED machine
    \/ /\ At("kindCluster") /\ cluster = 0 /\ cluster' = done
       /\ UNCHANGED <<things, pw, addr, apps, vault, machine>>
    \/ /\ At("giteaHelm") /\ Asked("ao") /\ things' = things \cup {"gitea"}
       /\ UNCHANGED <<inCluster, machine>>
    \/ /\ At("argoHelm") /\ Acceptable /\ pw' = [pw EXCEPT !.argo = Default]
       /\ UNCHANGED <<cluster, things, addr, apps, vault, machine>>
    \/ /\ At("routerStart") /\ "argocd" \in addr
       /\ router' = [router EXCEPT !.file = Conf]
       /\ UNCHANGED <<inCluster, things, preset, session, host, proxy>>
    \/ /\ At("stopProxy") /\ proxy' = [proxy EXCEPT !.file = 0]
       /\ UNCHANGED <<inCluster, things, preset, session, host, router>>

\* The errors that the code prints and forgets; the certificate of the gateway
\* is saved when it is found valid, and its loss then ends the command.
Forgiven == {"saveTls", "restoreTls", "routerStop", "stopProxy",
             "stopAllProxies"}

CallFails ==
    /\ cmd # "none" /\ Fault /\ clean' = FALSE
    /\ Half
    /\ \/ (At("poll") \/ At("loginRetried")) /\ Within(job)
       \/ Head(todo) \in Forgiven /\ Advance
       \/ Head(todo) \notin Forgiven \ {"saveTls"} /\ ~At("poll")
            /\ ~At("loginRetried") /\ Return(FALSE)

-----------------------------------------------------------------------------
(* The cluster goes on by itself.  Applications, Vault and addresses change *)
(* while a command runs that reads them.                                    *)

Applications ==
    /\ cmd = "wait" /\ "rootApp" \in things
    /\ \E a \in AppNames, st \in {"progressing", "degraded", "green"} :
         apps' = [apps EXCEPT ![a].st = st, ![a].since = 0]
    /\ UNCHANGED <<cluster, things, pw, addr, vault, machine, same, command>>

Addresses ==
    /\ cmd \in RouterCommands /\ "rootApp" \in things
    /\ \E s \in {"traefik", "boots"} : addr' = addr \cup {s}
    /\ UNCHANGED <<cluster, things, pw, apps, vault, machine, same, command>>

VaultInit ==
    /\ cmd \in VaultCommands /\ "rootApp" \in things
    /\ vault' = [vault EXCEPT !.keys = TRUE]
    /\ UNCHANGED <<cluster, things, pw, addr, apps, machine, same, command>>

VaultRestart ==
    /\ cmd \in VaultCommands /\ vault.keys
    /\ vault' = [vault EXCEPT !.shares = 0, !.at = done]
    /\ UNCHANGED <<cluster, things, pw, addr, apps, machine, same, command>>

\* A port-forward ends with the pod it goes to.
ProxyEnds ==
    /\ proxy.pids # {}
    /\ proxy' = [proxy EXCEPT !.pids = {}]
    /\ UNCHANGED <<inCluster, things, preset, session, host, router, same,
                   command>>

-----------------------------------------------------------------------------
Step ==
    \/ Reads \/ Make
    \/ RenderClusterTemplate \/ MergeProxy \/ ConfigClean
    \/ UndeployKind \/ KindCluster \/ KeycloakSecret \/ SreSecrets
    \/ SkipGitea \/ CreateOrUpdateGiteaSecret \/ GiteaHelm
    \/ CreateOrUpdateGiteaAccount
    \/ ArgoHelm \/ Login \/ LoginRetried \/ LoginInverted \/ RootApp \/ OrchCA
    \/ RouterStart \/ RouterStop \/ CheckApps
    \/ StopGiteaProxy \/ StopAllKubectlProxies \/ StartGiteaPortForward
    \/ Forwarding \/ SavePid
    \/ KeysSecret \/ WriteKeys \/ Unseal

Cluster ==
    Applications \/ Addresses \/ VaultInit \/ VaultRestart \/ ProxyEnds

Next ==
    \/ \E c \in Commands : \E a \in Args(c) : Start(c, a)
    \/ Step \/ CallFails \/ Cluster

Spec == Init /\ [][Next]_vars

\* The process goes on by itself; nothing is promised by the cluster.
FairSpec == Spec /\ WF_vars(Step)

-----------------------------------------------------------------------------
(* Properties. *)

\* Types; the commands' locals stay in their lists.
TypeOK ==
    /\ cluster \in 0..MaxCommands
    /\ things \subseteq DOMAIN Things \cup
         {"sreSecrets", "sreMetrics", "gitea", "argocd", "rootApp"}
    /\ pw.keycloak \in Passwords /\ pw.argo \in Passwords
    /\ pw.secret \in [Users -> Passwords] /\ pw.account \in [Users -> Passwords]
    /\ addr \subseteq {"argocd", "gitea", "traefik", "boots"}
    /\ \A a \in AppNames :
         {apps[a].age, apps[a].since} \subseteq 0..Limit[a] + 1
    /\ vault.shares \in 0..Threshold
    /\ preset.stage \in {"none", "empty", "rendered", "merged"}
    /\ session \in 0..MaxCommands /\ proxy.file \in 0..MaxCommands
    /\ pw.weak \in BOOLEAN /\ clean \in BOOLEAN
    /\ cmd # "none" =>
         /\ cmd \in DOMAIN Program /\ todo # <<>> /\ arg \in Args(cmd)
         /\ job.i \in 1..(IF At("share") THEN Shares ELSE Len(GiteaUsers))
    /\ CommandType

\* A deployment, or a deploy:gitea on a cluster that an earlier process made,
\* leaves every account of Gitea with the password of its secret, although the
\* two are written at different times, by processes with other passwords that
\* may have stopped in between (deploy.go:929, 1018).
GiteaSecretsMatchAccounts ==
    [][(Succeeds /\ cmd \in Deployments \cup {"gitea"} /\ Asked("ao")) =>
         pw'.secret = pw'.account]_vars

\* A deployment none of whose calls fails succeeds, whatever stopped commands
\* have left on the machine and in the old cluster, when the password is given
\* and the definition can be read (deploy.go:69).
RedeployWorks ==
    [][(Errs /\ cmd \in Deployments /\ arg.env /\ clean') =>
         ~Readable(arg.target)]_vars

\* After a deployment none of whose calls failed, the router that runs, the
\* client's session and the password of ArgoCD are those of the new cluster,
\* whichever router and session were there before (deploy.go:196).
DeploymentIsConnected ==
    [][(Succeeds /\ cmd \in Deployments /\ clean') =>
         /\ router'.on /\ router'.loaded.argo = cluster
         /\ session' = cluster /\ pw'.argo = Default]_vars

\* A port-forward that runs is the one whose pid is on file, so that the next
\* start or stop ends it, unless a call failed (Magefile.go:510, 559).
ProxyIsOnFile ==
    (cmd # "startProxy" /\ fails = 0) => proxy.pids \subseteq {proxy.file}

\* Vault is unsealed when unseal reports so, unless its pod restarted while
\* the shares were given (vault.go:54).
UnsealedWhenReported ==
    [][(Succeeds /\ cmd = "unseal") => ~Sealed' \/ vault.at = done]_vars

\* An application that stays degraded ends the wait, although ArgoCD keeps
\* reconciling it (wait.go:41, 148).
DegradedIsReported ==
    \A a \in AppNames :
        <>[](apps[a].st = "degraded") => <>[](cmd # "wait")
=============================================================================
