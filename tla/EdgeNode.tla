------------------------------ MODULE EdgeNode ------------------------------
(***************************************************************************)
(* mage/edge_cluster.go, dev_utils.go and co_utils.go, the edge network,   *)
(* on-prem and virtual edge node targets of Magefile.go, and the helpers   *)
(* of the end-to-end tests for onboarding and maintenance mode: the        *)
(* commands that put an edge node (a container, ENiC, or a virtual         *)
(* machine) under an Orchestrator, a cluster on it, and take them away.    *)
(*                                                                         *)
(* A pod of ENiC is named by the UUID its firmware reports, which is new   *)
(* with every pod.  ORCH_* are not set but by the commands themselves.     *)
(***************************************************************************)
EXTENDS Command, FiniteSets

CONSTANTS
    Projects, \* projects of the organization
    Sample,   \* the project that the commands without argument use
    Labels,   \* labels a cluster may be asked to carry
    Serials,  \* serial numbers of virtual edge nodes
    Families  \* bound: sets of commands; a run takes its own from one of them

ASSUME EdgeNodeAssumption ==
    /\ Sample \in Projects
    /\ Ticks \in Nat /\ MaxCommands \in Nat /\ MaxFails \in Nat

VARIABLES
    enic,     \* release, app, set, pod; project: what the pod is told to join
    pods,     \* made: pods there were; at: the command that lost its pod
    hosts,    \* reg: hosts registered in a project; inst: provisioned ones
    clusters, \* the cluster called edgeClusterName of each project
    template, \* of the sample project: "none", "made" or "default"
    kube,     \* at: the current context; entry: of the edge cluster
    tf,       \* what terraform has in its states
    vms,      \* libvirt's machines: orch-tf and the virtual edge nodes
    disks,    \* the disks in the pool; lost: one that terraform forgot
    dns,      \* resolved.conf, its backup, and what systemd-resolved reads
    node,     \* the host that the running onboarding test made
    mm,       \* maintenance mode: ids on record, what was made, a lost answer
    clean,    \* no call of the current command has failed
    family    \* the commands that are run

edge == <<enic, pods, hosts, clusters, template, kube>>
machine == <<tf, vms, disks, dns>>
tests == <<node, mm>>
world == <<edge, machine, tests>>
vars == <<world, clean, family, fails, command>>

-----------------------------------------------------------------------------
(* The programs. *)

\* A bug: the cluster is left to its node.
CleanUpEnicOnly ==
    <<"useOrch", "rmEntry", "uninstall", "deleteSet", "deletePod">>

CleanUpEnic ==
    <<"deleteCluster", "clusterGone", "useOrch", "rmEntry", "uninstall",
      "deleteSet", "deletePod">>

GetTenant == <<"getProject", "users", "projectId">>
RegisterEnic == <<"uuid", "register">>
ProvisionEnic == <<"uuid", "hostId", "osId", "instance">>
WaitForEnic == <<"appReady", "podRunning">>

\* A bug: the UUID is read when the cluster has been made.
DeployEnicClusterEarly ==
    CleanUpEnic \o <<"deployEnic">> \o RegisterEnic \o ProvisionEnic
      \o WaitForEnic
      \o <<"createNs", "createCluster", "guid", "clusterReady", "labels",
           "genEntry", "useEdge", "fleetReady", "useOrch">>

DeployEnicCluster ==
    CleanUpEnic \o <<"deployEnic">> \o RegisterEnic \o ProvisionEnic
      \o WaitForEnic
      \o <<"guid", "createNs", "createCluster", "clusterReady", "labels",
           "genEntry", "useEdge", "fleetReady", "useOrch">>

ResolverLoad == <<"reload", "restart">>
RestoreDNS == <<"restoreConf">> \o ResolverLoad
UndeployNetwork == RestoreDNS \o <<"destroyNetwork">>

\* The network and the pool are worked on at the same time; see Half.
UndeployOnPrem ==
    <<"destroyOrch", "virsh">> \o UndeployNetwork \o <<"destroyPool">>

\* A bug: the file is written before it is saved.
EdgeNetworkDNSUnsaved ==
    RestoreDNS \o <<"networkOutput", "noBackup", "writeConf", "backUp">>
      \o ResolverLoad

\* A bug: the file is saved whatever it holds.
EdgeNetworkDNSAgain ==
    <<"networkOutput", "backUp", "writeConf">> \o ResolverLoad

EdgeNetworkDNS ==
    RestoreDNS \o <<"networkOutput", "noBackup", "backUp", "writeConf">>
      \o ResolverLoad

CleanupHost == <<"instanceId", "delInstance", "delHost", "hostGone">>

SetMaintenance ==
    <<"hostUuid", "postRegion", "postSite", "getHost", "patchHost",
      "postSchedule">>

UnsetMaintenance == <<"delSchedule", "unconfigure", "delSite", "delRegion">>

\* What the tests do when all is done, and when something went wrong.
AfterAll == <<"revert", "unblock">> \o UnsetMaintenance

Program == [
    edgeCluster     |-> GetTenant \o DeployEnicCluster,
    edgeClusterWithProject |-> GetTenant \o DeployEnicCluster,
    undeployCluster |-> GetTenant \o CleanUpEnic,
    registerEnic    |-> RegisterEnic,
    provisionEnic   |-> ProvisionEnic,
    waitForEnic     |-> WaitForEnic,
    nodeAgent       |-> <<"appReadyFirst", "agentRunning">>,
    enicUUID        |-> <<"replicas", "uuid">>,
    template        |-> <<"coreDns", "postTemplate", "setDefault">>,
    useOrch         |-> <<"useOrch">>,
    useEdge         |-> <<"useEdge">>,
    edgeNetwork     |-> <<"resolvers", "applyNetwork">>,
    edgeNetworkDNS  |-> EdgeNetworkDNS,
    undeployDNS     |-> RestoreDNS,
    edgeStoragePool |-> <<"applyPool">>,
    undeployPool    |-> <<"destroyPool">>,
    undeployNetwork |-> UndeployNetwork,
    onPrem          |-> UndeployOnPrem
                          \o <<"resolvers", "applyNetwork", "applyPool",
                               "applyOrch">>,
    undeployOnPrem  |-> UndeployOnPrem,
    ven             |-> <<"flow", "certificate", "hostConfig", "applyVen">>,
    undeployVen     |-> <<"undefineVen">>,
    onboard         |-> <<"newNode", "nodeId", "osId", "newInstance",
                          "instanceId", "workflow">> \o CleanupHost,
    onboardStream   |-> <<"registerNode", "streamRegistered", "onboardNode",
                          "streamOnboarded", "nodeId", "osId", "newInstance",
                          "instanceMade">> \o CleanupHost,
    alerts          |-> <<"block">> \o SetMaintenance \o <<"unblock">>
                          \o AfterAll]

EdgeDeployments == {"edgeCluster", "edgeClusterWithProject"}
ForProject == {"edgeClusterWithProject", "undeployCluster"}
EnicCommands == EdgeDeployments \cup
    {"undeployCluster", "registerEnic", "provisionEnic", "waitForEnic",
     "nodeAgent", "enicUUID", "alerts"}

NoArg == [project |-> Sample, labels |-> {}, serial |-> "", valid |-> TRUE]

VenArg(s, v) == [NoArg EXCEPT !.serial = s, !.valid = v]

Args(c) ==
    IF c \in ForProject THEN {[NoArg EXCEPT !.project = p] : p \in Projects}
    ELSE IF c = "edgeCluster"
    THEN {[NoArg EXCEPT !.labels = l] : l \in SUBSET Labels}
    ELSE IF c \in {"ven", "undeployVen"}
    THEN {VenArg(s, v) : s \in Serials, v \in BOOLEAN}
    ELSE {NoArg}

-----------------------------------------------------------------------------
NoEnic == [release |-> FALSE, app |-> FALSE, set |-> FALSE, pod |-> 0,
           agent |-> FALSE, project |-> "", blocked |-> FALSE]
NoCluster == [st |-> "none", node |-> 0, labels |-> {}, agent |-> FALSE]
NoEntry == [made |-> "no", node |-> 0]
NoNode == [st |-> "none", inst |-> "none", flow |-> FALSE]
NoMaintenance == [ids |-> {}, made |-> {}, lost |-> FALSE]

\* uuid: the pod's as it was read last; guid: as it was read for the cluster;
\* user: the project whose users were found.
NewJob == [uuid |-> 0, guid |-> 0, user |-> Sample]

Init ==
    /\ enic = NoEnic /\ pods = [made |-> 0, at |-> 0]
    /\ hosts = [p \in Projects |-> [reg |-> {}, inst |-> {}]]
    /\ clusters = [p \in Projects |-> NoCluster]
    /\ template = "none"
    /\ kube = [at |-> "orch", entry |-> NoEntry]
    /\ tf = {} /\ vms = {} /\ disks = {}
    /\ dns = [conf |-> "own", bak |-> "", live |-> "own"]
    /\ node = NoNode /\ mm = NoMaintenance /\ clean = TRUE
    /\ family \in Families
    /\ cmd = "none" /\ arg = <<>> /\ todo = <<>> /\ job = <<>>
    /\ ticks = 0 /\ ok = TRUE /\ done = 0 /\ fails = 0

\* The tests make their host with a new UUID, and keep the ids of what they
\* made in a context of their own.
Start(c, a) ==
    /\ c \in family
    /\ Begin(c, a, Program[c], NewJob)
    /\ c = "alerts" => mm.made = {}
    /\ clean' = TRUE /\ node' = NoNode
    /\ mm' = IF c = "alerts" THEN NoMaintenance ELSE mm
    /\ UNCHANGED <<edge, machine, fails, family>>

Advance == AdvanceWith(1, job)
same == <<clean, family, fails>>
project == arg.project
InOrch == kube.at = "orch"

\* A step of SetMaintenance that fails is a failed test, after which AfterAll
\* runs; any other ends the command.
InTest == cmd = "alerts" /\ Len(todo) > Len(AfterAll)

GiveUp ==
    IF InTest
    THEN /\ todo' = AfterAll
         /\ UNCHANGED <<cmd, arg, job, ticks, ok, done>>
    ELSE Return(FALSE)

Require(b) == IF b THEN Advance ELSE GiveUp

\* A bug: the attempts have no deadline.
RetryForever(b) == b /\ Advance

\* UntilItSucceeds: the deadline is looked at before every attempt.
Retry(b) ==
    \/ ticks = 0 /\ GiveUp
    \/ ticks > 0 /\ b /\ Advance
    \/ /\ ticks > 0 /\ ~b /\ ticks' = ticks - 1
       /\ UNCHANGED <<cmd, arg, todo, job, ok, done>>

-----------------------------------------------------------------------------
(* Steps that only read, or whose work is I/O that nothing here depends on. *)

\* GetProject, projectId and all the kubectl calls use the current context.
ReadOnly == [
    getProject    |-> InOrch,
    projectId     |-> InOrch,
    hostId        |-> job.uuid \in hosts[project].reg /\ job.user = project,
    osId          |-> TRUE,
    coreDns       |-> InOrch,
    createNs      |-> InOrch,
    resolvers     |-> TRUE,
    networkOutput |-> "network" \in tf,
    noBackup      |-> dns.bak = "",
    reload        |-> TRUE,
    flow          |-> arg.valid,
    hostConfig    |-> TRUE,
    nodeId        |-> node.st # "none",
    instanceId    |-> node.inst = "linked",
    streamRegistered |-> node.st = "registered",
    streamOnboarded  |-> node.st = "onboarded",
    revert        |-> TRUE]

Reads ==
    /\ todo # <<>> /\ Head(todo) \in DOMAIN ReadOnly
    /\ Require(ReadOnly[Head(todo)])
    /\ UNCHANGED <<world, same>>

\* getEdgeAndApiUsers: the users listed last, of whatever project of the
\* organization.
Users ==
    /\ At("users")
    /\ \E u \in Projects : AdvanceWith(1, [job EXCEPT !.user = u])
    /\ UNCHANGED <<world, same>>

\* The cluster API is asked as edgeMgrUser, which edgeCluster leaves alone.
Manages == cmd \in ForProject => job.user = project

-----------------------------------------------------------------------------
(* The cluster. *)

\* A cluster that is not found is no error, and nothing to wait for.
DeleteCluster ==
    /\ At("deleteCluster")
    /\ \/ ~Manages /\ GiveUp /\ UNCHANGED clusters
       \/ /\ Manages /\ clusters[project].st = "none"
          /\ AdvanceWith(2, job) /\ UNCHANGED clusters
       \/ /\ Manages /\ clusters[project].st # "none" /\ Advance
          /\ clusters' = [clusters EXCEPT ![project].st = "deleting"]
    /\ UNCHANGED <<enic, pods, hosts, template, kube, machine, tests, same>>

CreateCluster ==
    /\ At("createCluster")
    /\ LET b == Manages /\ clusters[project].st = "none" IN
         /\ Require(b)
         /\ clusters' =
              IF b THEN [clusters EXCEPT ![project] =
                           [NoCluster EXCEPT !.st = "creating",
                                             !.node = job.guid]]
              ELSE clusters
    /\ UNCHANGED <<enic, pods, hosts, template, kube, machine, tests, same>>

AddClusterLabels ==
    /\ At("labels")
    /\ Require(InOrch)
    /\ clusters' = IF InOrch
                   THEN [clusters EXCEPT ![project].labels = @ \cup arg.labels]
                   ELSE clusters
    /\ UNCHANGED <<enic, pods, hosts, template, kube, machine, tests, same>>

\* The context, made last, is what use:edgeCluster needs.
GenKubeconfigEntry ==
    /\ At("genEntry")
    /\ LET b == InOrch /\ clusters[project].st # "none" IN
         /\ Require(b)
         /\ kube' = IF b THEN [kube EXCEPT !.entry =
                                 [made |-> "whole",
                                  node |-> clusters[project].node]]
                    ELSE kube
    /\ UNCHANGED <<enic, pods, hosts, clusters, template, machine, tests, same>>

RmKubeconfigEntry ==
    /\ At("rmEntry")
    /\ kube' = [kube EXCEPT !.entry = NoEntry]
    /\ Advance
    /\ UNCHANGED <<enic, pods, hosts, clusters, template, machine, tests, same>>

UseOrch ==
    /\ At("useOrch")
    /\ kube' = [kube EXCEPT !.at = "orch"]
    /\ Advance
    /\ UNCHANGED <<enic, pods, hosts, clusters, template, machine, tests, same>>

UseEdgeCluster ==
    /\ At("useEdge")
    /\ Require(kube.entry.made = "whole")
    /\ kube' = IF kube.entry.made = "whole" THEN [kube EXCEPT !.at = "edge"]
               ELSE kube
    /\ UNCHANGED <<enic, pods, hosts, clusters, template, machine, tests, same>>

\* The template is posted once; its default is set by a call of its own.
PostTemplate ==
    /\ At("postTemplate")
    /\ Require(template = "none")
    /\ template' = IF template = "none" THEN "made" ELSE template
    /\ UNCHANGED <<enic, pods, hosts, clusters, kube, machine, tests, same>>

SetDefaultTemplate ==
    /\ At("setDefault")
    /\ template' = "default"
    /\ Advance
    /\ UNCHANGED <<enic, pods, hosts, clusters, kube, machine, tests, same>>

-----------------------------------------------------------------------------
(* ENiC. *)

DeployEnic ==
    /\ At("deployEnic")
    /\ Require(InOrch)
    /\ enic' = IF InOrch
               THEN [enic EXCEPT !.release = TRUE, !.project = project]
               ELSE enic
    /\ UNCHANGED <<pods, hosts, clusters, template, kube, machine, tests, same>>

\* deleteEnic: what is not found is no error.  The stateful set, which helm
\* leaves, would bring the pod up again.
Uninstall(e) == [e EXCEPT !.release = FALSE, !.app = FALSE]
DropSet(e) == [e EXCEPT !.set = FALSE]
DropPod(e) == [e EXCEPT !.pod = 0, !.agent = FALSE]

DeleteEnic ==
    /\ \/ At("uninstall") /\ enic' = Uninstall(enic)
       \/ At("deleteSet") /\ enic' = DropSet(enic)
       \/ At("deletePod") /\ enic' = DropPod(enic)
    /\ Advance
    /\ UNCHANGED <<pods, hosts, clusters, template, kube, machine, tests, same>>

RegisterHost ==
    /\ At("register")
    /\ LET b == job.user = project /\ job.uuid \notin hosts[project].reg IN
         /\ Require(b)
         /\ hosts' =
              IF b THEN [hosts EXCEPT ![project].reg = @ \cup {job.uuid}]
              ELSE hosts
    /\ UNCHANGED <<enic, pods, clusters, template, kube, machine, tests, same>>

NewInstance ==
    /\ At("instance")
    /\ LET b == job.user = project /\ job.uuid \notin hosts[project].inst IN
         /\ Require(b)
         /\ hosts' =
              IF b THEN [hosts EXCEPT ![project].inst = @ \cup {job.uuid}]
              ELSE hosts
    /\ UNCHANGED <<enic, pods, clusters, template, kube, machine, tests, same>>

PodRuns == InOrch /\ enic.pod # 0

\* The UUID is read from the pod that runs now, in three places, each time
\* anew; the tests read it once and do not try again.
ReadUuid ==
    /\ \/ /\ At("uuid") /\ ticks = 0 /\ GiveUp
       \/ /\ At("uuid") /\ ticks > 0 /\ PodRuns
          /\ AdvanceWith(1, [job EXCEPT !.uuid = enic.pod])
       \/ /\ At("uuid") /\ ticks > 0 /\ ~PodRuns /\ ticks' = ticks - 1
          /\ UNCHANGED <<cmd, arg, todo, job, ok, done>>
       \/ /\ At("guid") /\ PodRuns
          /\ AdvanceWith(1, [job EXCEPT !.guid = enic.pod])
       \/ /\ At("hostUuid") /\ PodRuns
          /\ AdvanceWith(1, [job EXCEPT !.uuid = enic.pod])
       \/ (At("guid") \/ At("hostUuid")) /\ ~PodRuns /\ GiveUp
    /\ UNCHANGED <<world, same>>

\* Waits without a limit.  In WaitForEnic the five minutes of the wait behind
\* it have begun by then.
AppReady ==
    /\ \/ /\ At("appReady") /\ InOrch /\ enic.app /\ todo' = Tail(todo)
          /\ UNCHANGED <<cmd, arg, job, ticks, ok, done>>
       \/ /\ At("appReady") /\ ~(InOrch /\ enic.app) /\ ticks > 0
          /\ ticks' = ticks - 1
          /\ UNCHANGED <<cmd, arg, todo, job, ok, done>>
       \/ At("appReadyFirst") /\ InOrch /\ enic.app /\ Advance
       \/ At("replicas") /\ InOrch /\ enic.set /\ Advance
    /\ UNCHANGED <<world, same>>

\* The waits with a limit and what each waits for.
Awaited == [
    clusterGone  |-> InOrch /\ clusters[project].st = "none",
    podRunning   |-> PodRuns,
    agentRunning |-> PodRuns /\ enic.agent,
    clusterReady |-> InOrch /\ clusters[project].st = "ready",
    fleetReady   |-> kube.at = "edge" /\ clusters[project].agent,
    instanceMade |-> node.inst = "linked",
    hostGone     |-> node.st = "none",
    workflow     |-> node.flow]

Waits ==
    /\ todo # <<>> /\ Head(todo) \in DOMAIN Awaited
    /\ Retry(Awaited[Head(todo)])
    /\ UNCHANGED <<world, same>>

-----------------------------------------------------------------------------
(* The machine: networks, pools and virtual machines. *)

\* terraform refuses to make a machine or a disk whose name is taken.
CanApply(x) ==
    x = "orch" => /\ {"network", "pool"} \subseteq tf
                  /\ x \notin vms \ tf /\ "lost" \notin disks

Applied == [applyNetwork |-> "network", applyPool |-> "pool",
            applyOrch |-> "orch"]

Apply ==
    /\ todo # <<>> /\ Head(todo) \in DOMAIN Applied
    /\ LET x == Applied[Head(todo)]
           made == IF CanApply(x) THEN {x} ELSE {}
       IN  /\ Require(CanApply(x))
           /\ tf' = tf \cup made
           /\ vms' = vms \cup (made \cap {"orch"})
           /\ disks' = disks \cup (made \cap {"orch"})
    /\ UNCHANGED <<edge, dns, tests, same>>

\* The destruction sometimes leaves the machine, with its disk or without.
DestroyOrch ==
    /\ At("destroyOrch")
    /\ tf' = tf \ {"orch"}
    /\ \/ vms' = vms \ {"orch"} /\ disks' = disks \ {"orch"}
       \/ "orch" \in vms /\ UNCHANGED vms
          /\ disks' \in {disks, disks \ {"orch"}}
    /\ Advance
    /\ UNCHANGED <<edge, dns, tests, same>>

\* A bug: a machine that is left is looked for, and no more.
VirshLooks(s) == s

\* The machine that is left is removed with its disk.
VirshUndefine(s) == s \ {"orch"}

Virsh ==
    /\ At("virsh")
    /\ vms' = VirshUndefine(vms)
    /\ disks' = IF "orch" \in vms THEN VirshUndefine(disks) ELSE disks
    /\ Advance
    /\ UNCHANGED <<edge, tf, dns, tests, same>>

DestroyNetwork ==
    /\ At("destroyNetwork")
    /\ tf' = tf \ {"network"}
    /\ Advance
    /\ UNCHANGED <<edge, vms, disks, dns, tests, same>>

\* The pool is a directory, which is not deleted while a disk is in it.
DestroyPool ==
    /\ At("destroyPool")
    /\ Require(disks = {})
    /\ tf' = IF disks = {} THEN tf \ {"pool"} ELSE tf
    /\ UNCHANGED <<edge, vms, disks, dns, tests, same>>

\* Without a backup there is nothing to restore, nor to load.
RestoreConf ==
    /\ At("restoreConf")
    /\ \/ dns.bak = "" /\ AdvanceWith(3, job) /\ UNCHANGED dns
       \/ /\ dns.bak # "" /\ Advance
          /\ dns' = [dns EXCEPT !.conf = dns.bak, !.bak = ""]
    /\ UNCHANGED <<edge, tf, vms, disks, tests, same>>

BackUpConf ==
    /\ At("backUp")
    /\ dns' = [dns EXCEPT !.bak = dns.conf]
    /\ Advance
    /\ UNCHANGED <<edge, tf, vms, disks, tests, same>>

WriteConf ==
    /\ At("writeConf")
    /\ dns' = [dns EXCEPT !.conf = "edge"]
    /\ Advance
    /\ UNCHANGED <<edge, tf, vms, disks, tests, same>>

RestartResolved ==
    /\ At("restart")
    /\ dns' = [dns EXCEPT !.live = dns.conf]
    /\ Advance
    /\ UNCHANGED <<edge, tf, vms, disks, tests, same>>

\* 60 tries; the loop then ends as well when there is no certificate.
Certificate ==
    /\ At("certificate")
    /\ Advance
    /\ UNCHANGED <<world, same>>

\* The names of the machine and of its disk must be free.
CanApplyVen ==
    {"network", "pool"} \subseteq tf /\ arg.serial \notin vms \cup disks

\* The terraform state is made in a directory that is removed at the end, so
\* that the machine is unknown to the next run.
ApplyVen ==
    /\ At("applyVen")
    /\ Require(CanApplyVen)
    /\ LET made == IF CanApplyVen THEN {arg.serial} ELSE {} IN
         vms' = vms \cup made /\ disks' = disks \cup made
    /\ UNCHANGED <<edge, tf, dns, tests, same>>

\* The disk stays in the pool.
UndefineVen ==
    /\ At("undefineVen")
    /\ vms' = vms \ {arg.serial}
    /\ Advance
    /\ UNCHANGED <<edge, tf, disks, dns, tests, same>>

-----------------------------------------------------------------------------
(* Onboarding, as the tests drive it. *)

\* Each call and the host it leaves, when it is accepted.
Calls == [
    newNode      |-> [node EXCEPT !.st = "onboarded"],
    registerNode |-> [node EXCEPT !.st = "registered"],
    onboardNode  |-> [node EXCEPT !.st = "onboarded"],
    newInstance  |-> [node EXCEPT !.inst = "posted"],
    delInstance  |-> [node EXCEPT !.inst = "none"],
    delHost      |-> [node EXCEPT !.st = "deleting"]]

Onboard ==
    /\ todo # <<>> /\ Head(todo) \in DOMAIN Calls
    /\ node' = Calls[Head(todo)]
    /\ Advance
    /\ UNCHANGED <<edge, machine, mm, same>>

-----------------------------------------------------------------------------
(* Maintenance mode, and the network policy that cuts ENiC off. *)

BlockEnicTraffic ==
    /\ \/ At("block") /\ InOrch /\ enic' = [enic EXCEPT !.blocked = TRUE]
          /\ Require(enic.pod # 0)
       \/ At("block") /\ ~InOrch /\ GiveUp /\ UNCHANGED enic
       \/ At("unblock") /\ Require(InOrch)
          /\ enic' = [enic EXCEPT !.blocked = @ /\ ~InOrch]
    /\ UNCHANGED <<pods, hosts, clusters, template, kube, machine, tests, same>>

\* What a call makes, and the id that is put on record when it has answered.
Posts == [postRegion |-> "region", postSite |-> "site",
          postSchedule |-> "schedule"]

\* A bug: only what the last call made is put on record.
RecordLast(x) == IF x = "schedule" THEN {"region", "site", x} ELSE {}

Record(x) == {x}

Post ==
    /\ todo # <<>> /\ Head(todo) \in DOMAIN Posts
    /\ LET x == Posts[Head(todo)] IN
         mm' = [mm EXCEPT !.made = @ \cup {x}, !.ids = @ \cup Record(x)]
    /\ Advance
    /\ UNCHANGED <<edge, machine, node, same>>

GetHost ==
    /\ At("getHost")
    /\ LET b == job.uuid \in hosts[Sample].reg IN
         /\ Require(b)
         /\ mm' = IF b THEN [mm EXCEPT !.ids = @ \cup {"host"}] ELSE mm
    /\ UNCHANGED <<edge, machine, node, same>>

PatchHost ==
    /\ At("patchHost")
    /\ mm' = [mm EXCEPT !.made = @ \cup {"hosted"}]
    /\ Advance
    /\ UNCHANGED <<edge, machine, node, same>>

\* ids: what must be on record for the call to be made; gone: what it takes
\* away; first: what the inventory wants gone before.
Undo == [
    delSchedule |-> [ids |-> {"schedule"}, gone |-> "schedule", first |-> {}],
    unconfigure |-> [ids |-> {"host"}, gone |-> "hosted", first |-> {}],
    delSite     |-> [ids |-> {"region", "site"}, gone |-> "site",
                     first |-> {"hosted"}],
    delRegion   |-> [ids |-> {"region"}, gone |-> "region",
                     first |-> {"site"}]]

UnsetMaintenanceMode ==
    /\ todo # <<>> /\ Head(todo) \in DOMAIN Undo
    /\ LET u == Undo[Head(todo)] IN
         \/ ~(u.ids \subseteq mm.ids) /\ Advance /\ UNCHANGED mm
         \/ /\ u.ids \subseteq mm.ids /\ Require(u.first \cap mm.made = {})
            /\ mm' = IF u.first \cap mm.made = {}
                     THEN [mm EXCEPT !.made = @ \ {u.gone}] ELSE mm
    /\ UNCHANGED <<edge, machine, node, same>>

-----------------------------------------------------------------------------
(* A call fails, or the process is interrupted, before it does anything or  *)
(* half way.                                                                *)

Half ==
    \/ UNCHANGED world
    \/ /\ At("createCluster") /\ Manages /\ clusters[project].st = "none"
       /\ clusters' = [clusters EXCEPT ![project].st = "creating",
                                       ![project].node = job.guid]
       /\ UNCHANGED <<enic, pods, hosts, template, kube, machine, tests>>
    \/ /\ At("genEntry") /\ InOrch
       /\ kube' = [kube EXCEPT !.entry.made = "part"]
       /\ UNCHANGED <<enic, pods, hosts, clusters, template, machine, tests>>
    \/ /\ At("register") /\ job.user = project
       /\ hosts' = [hosts EXCEPT ![project].reg = @ \cup {job.uuid}]
       /\ UNCHANGED <<enic, pods, clusters, template, kube, machine, tests>>
    \/ \* terraform is killed behind a disk, which may not be on record by
       \* then, or behind the machine, which is not
       /\ At("applyOrch") /\ CanApply("orch")
       /\ \/ disks' = disks \cup {"lost"} /\ UNCHANGED vms
          \/ disks' = disks \cup {"orch"} /\ vms' \in {vms, vms \cup {"orch"}}
       /\ UNCHANGED <<edge, tf, dns, tests>>
    \/ /\ At("applyVen") /\ CanApplyVen
       /\ disks' = disks \cup {arg.serial}
       /\ vms' \in {vms, vms \cup {arg.serial}}
       /\ UNCHANGED <<edge, tf, dns, tests>>
    \/ /\ At("destroyOrch") /\ vms' = vms \ {"orch"}
       /\ UNCHANGED <<edge, tf, disks, dns, tests>>
    \/ \* what fails beside the pool does not keep it
       /\ cmd \in {"onPrem", "undeployOnPrem"}
       /\ Head(todo) \in {"restoreConf", "reload", "restart",
                          "destroyNetwork"}
       /\ disks = {} /\ tf' = tf \ {"pool"}
       /\ UNCHANGED <<edge, vms, disks, dns, tests>>
    \/ /\ cmd = "onPrem" /\ Head(todo) \in {"resolvers", "applyNetwork"}
       /\ tf' = tf \cup {"pool"} /\ UNCHANGED <<edge, vms, disks, dns, tests>>
    \/ /\ At("backUp") /\ dns' = [dns EXCEPT !.bak = "short"]
       /\ UNCHANGED <<edge, tf, vms, disks, tests>>
    \/ /\ At("writeConf") /\ dns' = [dns EXCEPT !.conf = "cut"]
       /\ UNCHANGED <<edge, tf, vms, disks, tests>>
    \/ \* the object is made, but the answer with its id is lost
       /\ todo # <<>> /\ Head(todo) \in DOMAIN Posts
       /\ mm' = [mm EXCEPT !.made = @ \cup {Posts[Head(todo)]}, !.lost = TRUE]
       /\ UNCHANGED <<edge, machine, node>>
    \/ /\ At("patchHost") /\ mm' = [mm EXCEPT !.made = @ \cup {"hosted"}]
       /\ UNCHANGED <<edge, machine, node>>

\* Errors that the code prints and forgets.
Forgiven == {"virsh", "undefineVen"}
Unlimited == {"appReady", "appReadyFirst", "replicas"}

CallFails ==
    /\ cmd # "none" /\ Fault /\ clean' = FALSE /\ UNCHANGED family
    /\ Half
    /\ \/ InTest /\ Return(FALSE)
       \/ Head(todo) \in Forgiven /\ Advance
       \/ Head(todo) \in Unlimited /\ UNCHANGED command
       \/ /\ Head(todo) \in DOMAIN Awaited \cup {"uuid"} /\ ticks > 0
          /\ ticks' = ticks - 1
          /\ UNCHANGED <<cmd, arg, todo, job, ok, done>>
       \/ /\ Head(todo) \notin Forgiven \cup Unlimited
          /\ Head(todo) \notin DOMAIN Awaited \cup {"uuid"}
          /\ GiveUp

-----------------------------------------------------------------------------
(* What goes on by itself, while a step runs that looks at it. *)

\* ArgoCD makes the stateful set of a release; its health comes and goes.
ArgoCD ==
    /\ cmd \in EnicCommands /\ enic.release
    /\ \/ enic' = [enic EXCEPT !.set = TRUE]
       \/ Head(todo) \in Unlimited /\ enic' = [enic EXCEPT !.app = ~@]
    /\ UNCHANGED <<pods, hosts, clusters, template, kube, machine, tests, same,
                   command>>

PodStarts ==
    /\ cmd \in EnicCommands /\ enic.set /\ enic.pod = 0
    /\ enic' = [enic EXCEPT !.pod = pods.made + 1]
    /\ pods' = [pods EXCEPT !.made = @ + 1]
    /\ UNCHANGED <<hosts, clusters, template, kube, machine, tests, same,
                   command>>

\* The pod is lost; the one that follows has another UUID.
PodLost ==
    /\ cmd \in EnicCommands /\ enic.pod # 0 /\ Fault
    /\ enic' = DropPod(enic) /\ pods' = [pods EXCEPT !.at = done]
    /\ UNCHANGED <<hosts, clusters, template, kube, machine, tests, clean,
                   family, command>>

\* The node agent reports to the Orchestrator that it runs.
AgentRuns ==
    /\ cmd = "nodeAgent" /\ enic.pod # 0 /\ ~enic.agent
    /\ enic' = [enic EXCEPT !.agent = TRUE]
    /\ UNCHANGED <<pods, hosts, clusters, template, kube, machine, tests, same,
                   command>>

\* The cluster API brings the cluster up and takes it away.
ClusterChanges ==
    /\ cmd # "none"
    /\ Head(todo) \in {"deleteCluster", "clusterGone", "clusterReady",
                       "fleetReady"}
    /\ LET c == clusters[project] IN
         clusters' = [clusters EXCEPT ![project] =
           CASE c.st = "creating" -> [c EXCEPT !.st = "ready"]
             [] c.st = "ready"    -> [c EXCEPT !.agent = TRUE]
             [] OTHER             -> NoCluster]
    /\ UNCHANGED <<enic, pods, hosts, template, kube, machine, tests, same,
                   command>>

\* The inventory links an instance to its host, starts its workflow, and
\* removes a host that is to be deleted.
Inventory ==
    /\ \/ node.inst = "posted" /\ node' = [node EXCEPT !.inst = "linked"]
       \/ node.inst = "linked" /\ node' = [node EXCEPT !.flow = TRUE]
       \/ node.st = "deleting" /\ node' = [node EXCEPT !.st = "none"]
    /\ UNCHANGED <<edge, machine, mm, same, command>>

-----------------------------------------------------------------------------
Step ==
    \/ Reads \/ Users \/ ReadUuid \/ AppReady \/ Waits
    \/ DeleteCluster \/ CreateCluster \/ AddClusterLabels
    \/ GenKubeconfigEntry \/ RmKubeconfigEntry \/ UseOrch \/ UseEdgeCluster
    \/ PostTemplate \/ SetDefaultTemplate
    \/ DeployEnic \/ DeleteEnic \/ RegisterHost \/ NewInstance
    \/ Apply \/ DestroyOrch \/ Virsh \/ DestroyNetwork \/ DestroyPool
    \/ RestoreConf \/ BackUpConf \/ WriteConf \/ RestartResolved
    \/ Certificate \/ ApplyVen \/ UndefineVen
    \/ Onboard
    \/ BlockEnicTraffic \/ Post \/ GetHost \/ PatchHost
    \/ UnsetMaintenanceMode

Surroundings ==
    ArgoCD \/ PodStarts \/ PodLost \/ AgentRuns \/ ClusterChanges \/ Inventory

Next ==
    \/ \E c \in DOMAIN Program : \E a \in Args(c) : Start(c, a)
    \/ Step \/ CallFails \/ Surroundings

Spec == Init /\ [][Next]_vars

\* The process goes on by itself; nothing is promised by what it waits for.
FairSpec == Spec /\ WF_vars(Step)

-----------------------------------------------------------------------------
(* Properties. *)

\* Types; a program that is running has a step left.
TypeOK ==
    /\ enic.pod \in 0..pods.made /\ enic.project \in Projects \cup {""}
    /\ pods.at \in 0..MaxCommands
    /\ \A p \in Projects :
         /\ hosts[p].reg \cup hosts[p].inst \subseteq 1..pods.made
         /\ clusters[p].st \in {"none", "creating", "ready", "deleting"}
         /\ clusters[p].node \in 0..pods.made
         /\ clusters[p].labels \subseteq Labels
    /\ template \in {"none", "made", "default"}
    /\ kube.at \in {"orch", "edge"}
    /\ kube.entry.made \in {"no", "part", "whole"}
    /\ tf \subseteq {"network", "pool", "orch"}
    /\ vms \subseteq {"orch"} \cup Serials
    /\ disks \subseteq {"orch", "lost"} \cup Serials
    /\ {dns.conf, dns.live} \subseteq {"own", "edge", "short", "cut"}
    /\ dns.bak \in {"", "own", "short"}
    /\ node.st \in {"none", "registered", "onboarded", "deleting"}
    /\ mm.ids \subseteq {"region", "site", "host", "schedule"}
    /\ mm.made \subseteq {"region", "site", "hosted", "schedule"}
    /\ clean \in BOOLEAN
    /\ cmd # "none" =>
         cmd \in DOMAIN Program /\ todo # <<>> /\ arg \in Args(cmd)
    /\ CommandType

\* A deployment that succeeds, and whose pod was not lost meanwhile, leaves a
\* cluster on the node that runs, which is registered and provisioned in the
\* same project and reached by the kubeconfig entry; kubectl is back at the
\* Orchestrator (edge_cluster.go:41: the UUID is read three times).
ClusterRunsOnItsNode ==
    [][(Succeeds /\ cmd \in EdgeDeployments /\ pods.at # done) =>
         LET c == clusters'[project] IN
         /\ c.st = "ready" /\ arg.labels \subseteq c.labels
         /\ c.node = enic'.pod /\ enic'.project = project
         /\ c.node \in hosts'[project].reg \cap hosts'[project].inst
         /\ kube'.entry.node = c.node /\ kube'.at = "orch"]_vars

\* A deployment whose calls all work fails only when a wait is too short, the
\* pod is lost, the users found are another project's, or an earlier command
\* left kubectl at the edge cluster; never because of the cluster, hosts,
\* release, pod or entry that it finds (edge_cluster.go:593).
EnicRedeploys ==
    [][(Errs /\ cmd \in EdgeDeployments /\ clean' /\ pods.at # done) =>
         ticks = 0 \/ ~InOrch \/ job.user # project]_vars

\* The machine's own resolved.conf: in its place, or saved.
HasOwn == "own" \in {dns.conf, dns.bak}

\* Wherever a command stops, the file is lost in one way only: a copy that was
\* itself cut short is put back in its place.  When nothing failed, the
\* resolver that runs has read the file (Magefile.go:340, 714).
ResolverKept ==
    [][/\ HasOwn => HasOwn' \/ (At("restoreConf") /\ dns.bak = "short")
       /\ (cmd' = "none" /\ fails' = 0) => dns'.live = dns'.conf]_vars

\* The disks in the pool that neither terraform nor virsh takes away.
Orphans == disks \cap (Serials \cup {"lost"})

\* deploy:onPrem succeeds when its calls do, whatever an earlier one that
\* stopped has left in libvirt and terraform, except for a disk that is an
\* orphan in the pool (Magefile.go:412).
OnPremRedeploys ==
    [][(Errs /\ cmd = "onPrem" /\ clean') => Orphans # {}]_vars

\* However far the tests came with setting the maintenance mode, their
\* clean-up takes away what was made, unless a call of the clean-up fails or
\* an answer was lost (o11y_helpers.go:329, 404).
MaintenanceUndone ==
    [][(cmd = "alerts" /\ cmd' = "none" /\ fails' = fails) =>
         mm'.made = {} \/ mm.lost]_vars

\* Every command returns unless it stays for good at one of the three waits
\* that have no limit, with ArgoCD's application not ready or the context not
\* the Orchestrator's (dev_utils.go:319, 386, 430).
CommandsReturn ==
    <>[]((cmd # "none" /\ Head(todo) \in Unlimited) =>
           enic.app /\ enic.set /\ InOrch)
      => <>[](cmd = "none")
=============================================================================
