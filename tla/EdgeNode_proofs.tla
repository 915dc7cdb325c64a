-------------------------- MODULE EdgeNode_proofs --------------------------
(***************************************************************************)
(* EdgeNode for all projects, labels, serial numbers, commands and bounds: *)
(* its types, the resolver's file, the redeployment of the Orchestrator's  *)
(* machine, the clean-up of the maintenance test, and the deployment of    *)
(* ENiC with its cluster.  A command is known by the steps that it has     *)
(* left; the invariants say what holds at each.                            *)
(***************************************************************************)
EXTENDS EdgeNode, Command_proofs

-----------------------------------------------------------------------------
(* Programs *)

\* The steps of all programs but ven.
Steps ==
    {"deleteCluster", "clusterGone", "useOrch", "rmEntry", "uninstall",
     "deleteSet", "deletePod", "getProject", "users", "projectId", "uuid",
     "register", "hostId", "osId", "instance", "appReady", "podRunning",
     "deployEnic", "guid", "createNs", "createCluster", "clusterReady",
     "labels", "genEntry", "useEdge", "fleetReady", "reload", "restart",
     "restoreConf",
     "destroyNetwork", "destroyOrch", "virsh", "destroyPool",
     "networkOutput", "noBackup", "backUp", "writeConf", "instanceId",
     "delInstance", "delHost", "hostGone", "hostUuid", "postRegion",
     "postSite", "getHost", "patchHost", "postSchedule", "delSchedule",
     "unconfigure", "delSite", "delRegion", "revert", "unblock", "block",
     "appReadyFirst", "agentRunning", "replicas", "coreDns", "postTemplate",
     "setDefault", "resolvers", "applyNetwork", "applyPool", "applyOrch",
     "flow", "certificate", "hostConfig", "undefineVen", "newNode",
     "nodeId", "newInstance", "workflow", "registerNode",
     "streamRegistered", "onboardNode", "streamOnboarded", "instanceMade"}

\* ... and of that one.
AllSteps == Steps \cup {"applyVen"}

\* What must come behind the step i of a program: the steps that are left out
\* when there is no cluster, or no backup of resolved.conf, and the restart of
\* the resolver after a change of its file.
Ahead(p, i) ==
    /\ p[i] \in {"deleteCluster", "appReady", "restoreConf", "writeConf",
                 "reload"} => i + 1 \in 1..Len(p)
    /\ p[i] = "deleteCluster" => p[i + 1] = "clusterGone"
    /\ p[i] = "restoreConf" => i + 2 \in 1..Len(p) /\ p[i + 2] = "restart"
    /\ p[i] \in {"restoreConf", "writeConf"} => p[i + 1] = "reload"
    /\ p[i] = "reload" => p[i + 1] = "restart"

\* What must come before it: the file is looked for, saved, then written; the
\* UUID of the pod is read before a host is registered under it.
Behind(p, i) ==
    /\ p[i] \in {"backUp", "writeConf"} => i > 1
    /\ p[i] = "backUp" => p[i - 1] = "noBackup"
    /\ p[i] = "writeConf" => p[i - 1] = "backUp"
    /\ p[i] \in {"register", "instance"} => \E j \in 1..(i - 1) : p[j] = "uuid"

\* A program in which every step is where it belongs.
Linked(p) ==
    Len(p) > 0 /\ \A i \in 1..Len(p) : Ahead(p, i) /\ Behind(p, i)

\* ... of the steps of all programs but ven.
Whole(p) == p \in Seq(Steps) /\ Linked(p)

\* Such programs may follow one another.
LEMMA WholeJoin ==
    ASSUME NEW s, NEW t, Whole(s), Whole(t) PROVE Whole(s \o t)
<1>1. PICK p : p = s \o t
  OBVIOUS
<1>2. /\ p \in Seq(Steps) /\ Len(p) = Len(s) + Len(t)
      /\ \A i \in 1..Len(s) : p[i] = s[i]
      /\ \A i \in 1..Len(t) : p[Len(s) + i] = t[i]
      /\ Len(s) \in Nat /\ Len(t) \in Nat /\ Len(s) > 0 /\ Len(t) > 0
  BY <1>1, Joining DEF Whole, Linked, Joins
<1>3. ASSUME NEW i \in 1..Len(s) PROVE Ahead(p, i) /\ Behind(p, i)
  <2>1. Ahead(s, i) /\ Behind(s, i) /\ p[i] = s[i]
    BY <1>2 DEF Whole, Linked
  <2>2. /\ i + 1 \in 1..Len(s) => p[i + 1] = s[i + 1] /\ i + 1 \in 1..Len(p)
        /\ i + 2 \in 1..Len(s) => p[i + 2] = s[i + 2] /\ i + 2 \in 1..Len(p)
    BY <1>2
  <2>3. i > 1 => p[i - 1] = s[i - 1]
    <3>1. i > 1 => i - 1 \in 1..Len(s)
      BY <1>2
    <3> QED BY <1>2, <3>1
  <2>4. \A j \in 1..(i - 1) : p[j] = s[j]
    BY <1>2
  <2>5. Ahead(p, i)
    BY <2>1, <2>2 DEF Ahead
  <2>6. Behind(p, i)
    BY <2>1, <2>3, <2>4 DEF Behind
  <2> QED BY <2>5, <2>6
<1>4. ASSUME NEW k \in 1..Len(t), NEW i, i = Len(s) + k
      PROVE  Ahead(p, i) /\ Behind(p, i)
  <2>1. Ahead(t, k) /\ Behind(t, k) /\ p[i] = t[k] /\ i \in 1..Len(p)
    BY <1>2, <1>4 DEF Whole, Linked
  <2>2. /\ k + 1 \in 1..Len(t) => p[i + 1] = t[k + 1] /\ i + 1 \in 1..Len(p)
        /\ k + 2 \in 1..Len(t) => p[i + 2] = t[k + 2] /\ i + 2 \in 1..Len(p)
    <3>1. i + 1 = Len(s) + (k + 1) /\ i + 2 = Len(s) + (k + 2)
      BY <1>2, <1>4
    <3> QED BY <1>2, <3>1
  <2>3. k > 1 => p[i - 1] = t[k - 1] /\ i > 1
    <3>1. k > 1 => k - 1 \in 1..Len(t) /\ i - 1 = Len(s) + (k - 1)
      BY <1>2, <1>4
    <3>2. k > 1 => i > 1
      BY <1>2, <1>4
    <3> QED BY <1>2, <3>1, <3>2
  <2>4. \A j \in 1..(k - 1) : Len(s) + j \in 1..(i - 1) /\ p[Len(s) + j] = t[j]
    BY <1>2, <1>4
  <2>5. Ahead(p, i)
    BY <2>1, <2>2 DEF Ahead
  <2>6. Behind(p, i)
    <3>1. p[i] \in {"register", "instance"} =>
            \E j \in 1..(i - 1) : p[j] = "uuid"
      <4>1. SUFFICES ASSUME p[i] \in {"register", "instance"}
                     PROVE  \E j \in 1..(i - 1) : p[j] = "uuid"
        OBVIOUS
      <4>2. PICK j \in 1..(k - 1) : t[j] = "uuid"
        BY <2>1, <4>1 DEF Behind
      <4> QED BY <2>4, <4>2
    <3> QED BY <2>1, <2>3, <3>1 DEF Behind
  <2> QED BY <2>5, <2>6
<1>5. ASSUME NEW i \in 1..Len(p) PROVE Ahead(p, i) /\ Behind(p, i)
  <2>1. CASE i \in 1..Len(s)
    BY <1>3, <2>1
  <2>2. CASE i \notin 1..Len(s)
    <3>1. i - Len(s) \in 1..Len(t) /\ i = Len(s) + (i - Len(s))
      BY <1>2, <2>2
    <3> QED BY <1>4, <3>1
  <2> QED BY <2>1, <2>2
<1>6. Len(p) > 0
  BY <1>2
<1> QED BY <1>1, <1>2, <1>5, <1>6 DEF Whole, Linked

\* The parts that the targets are put together from are such programs.
LEMMA Parts ==
    /\ Whole(CleanUpEnic) /\ Whole(GetTenant) /\ Whole(RegisterEnic)
    /\ Whole(ProvisionEnic) /\ Whole(WaitForEnic) /\ Whole(ResolverLoad)
    /\ Whole(CleanupHost) /\ Whole(SetMaintenance) /\ Whole(UnsetMaintenance)
<1>1. Whole(CleanUpEnic)
  BY DEF Whole, Linked, Ahead, Behind, Steps, CleanUpEnic
<1>2. Whole(GetTenant)
  BY DEF Whole, Linked, Ahead, Behind, Steps, GetTenant
<1>3. Whole(RegisterEnic)
  BY DEF Whole, Linked, Ahead, Behind, Steps, RegisterEnic
<1>4. Whole(ProvisionEnic)
  BY DEF Whole, Linked, Ahead, Behind, Steps, ProvisionEnic
<1>5. Whole(WaitForEnic) /\ Whole(ResolverLoad)
  BY DEF Whole, Linked, Ahead, Behind, Steps, WaitForEnic, ResolverLoad
<1>6. Whole(CleanupHost) /\ Whole(UnsetMaintenance)
  BY DEF Whole, Linked, Ahead, Behind, Steps, CleanupHost, UnsetMaintenance
<1>7. Whole(SetMaintenance)
  BY DEF Whole, Linked, Ahead, Behind, Steps, SetMaintenance
<1> QED BY <1>1, <1>2, <1>3, <1>4, <1>5, <1>6, <1>7

\* edgeNetworkDNS and the targets that undeploy put the file back first
\* (Magefile.go:714).
LEMMA Restoring ==
    /\ RestoreDNS \in Seq(Steps) /\ Len(RestoreDNS) = 3
    /\ RestoreDNS[1] = "restoreConf" /\ RestoreDNS[2] = "reload"
    /\ RestoreDNS[3] = "restart"
<1>1. PICK s : s = <<"restoreConf">>
  OBVIOUS
<1>2. PICK t : t = ResolverLoad
  OBVIOUS
<1>3. /\ s \in Seq(Steps) /\ Len(s) = 1 /\ s[1] = "restoreConf"
      /\ t \in Seq(Steps) /\ Len(t) = 2 /\ t[1] = "reload"
      /\ t[2] = "restart"
  BY <1>1, <1>2 DEF ResolverLoad, Steps
<1>4. RestoreDNS \in Seq(Steps) /\ Joins(RestoreDNS, s, t)
  BY <1>1, <1>2, <1>3, Joining DEF RestoreDNS
<1> QED BY <1>3, <1>4 DEF Joins

\* The parts that are put together from other parts.
LEMMA Composed ==
    /\ Whole(DeployEnicCluster) /\ Whole(RestoreDNS) /\ Whole(AfterAll)
    /\ Whole(UndeployNetwork) /\ Whole(UndeployOnPrem)
<1>1. Whole(DeployEnicCluster)
  <2>1. Whole(<<"deployEnic">>)
    BY DEF Whole, Linked, Ahead, Behind, Steps
  <2>2. Whole(<<"guid", "createNs", "createCluster", "clusterReady",
                "labels", "genEntry", "useEdge", "fleetReady", "useOrch">>)
    BY DEF Whole, Linked, Ahead, Behind, Steps
  <2>3. Whole(CleanUpEnic \o <<"deployEnic">>)
    BY <2>1, Parts, WholeJoin
  <2>4. Whole((CleanUpEnic \o <<"deployEnic">>) \o RegisterEnic)
    BY <2>3, Parts, WholeJoin
  <2>5. Whole(((CleanUpEnic \o <<"deployEnic">>) \o RegisterEnic)
                \o ProvisionEnic)
    BY <2>4, Parts, WholeJoin
  <2>6. Whole((((CleanUpEnic \o <<"deployEnic">>) \o RegisterEnic)
                \o ProvisionEnic) \o WaitForEnic)
    BY <2>5, Parts, WholeJoin
  <2> QED BY <2>6, <2>2, WholeJoin DEF DeployEnicCluster
<1>2. Whole(RestoreDNS)
  BY Restoring DEF Whole, Linked, Ahead, Behind, Steps
<1>3. Whole(AfterAll)
  <2>1. Whole(<<"revert", "unblock">>)
    BY DEF Whole, Linked, Ahead, Behind, Steps
  <2> QED BY <2>1, Parts, WholeJoin DEF AfterAll
<1>4. Whole(UndeployNetwork)
  <2>1. Whole(<<"destroyNetwork">>)
    BY DEF Whole, Linked, Ahead, Behind, Steps
  <2> QED BY <1>2, <2>1, WholeJoin DEF UndeployNetwork
<1>5. Whole(UndeployOnPrem)
  <2>1. Whole(<<"destroyOrch", "virsh">>) /\ Whole(<<"destroyPool">>)
    BY DEF Whole, Linked, Ahead, Behind, Steps
  <2>2. Whole(<<"destroyOrch", "virsh">> \o UndeployNetwork)
    BY <1>4, <2>1, WholeJoin
  <2> QED BY <2>1, <2>2, WholeJoin DEF UndeployOnPrem
<1> QED BY <1>1, <1>2, <1>3, <1>4, <1>5

\* The file is saved and written in this order, behind the steps that put an
\* older copy back (Magefile.go:340).
LEMMA Resolving == Whole(EdgeNetworkDNS)
<1>1. PICK r : r = RestoreDNS
  OBVIOUS
<1>2. PICK m : m = <<"networkOutput", "noBackup", "backUp", "writeConf">>
  OBVIOUS
<1>3. PICK l : l = ResolverLoad
  OBVIOUS
<1>4. /\ r \in Seq(Steps) /\ Len(r) = 3
      /\ r[1] = "restoreConf" /\ r[2] = "reload" /\ r[3] = "restart"
  BY <1>1, Restoring
<1>5. /\ m \in Seq(Steps) /\ Len(m) = 4 /\ m[1] = "networkOutput"
      /\ m[2] = "noBackup" /\ m[3] = "backUp" /\ m[4] = "writeConf"
  BY <1>2 DEF Steps
<1>6. /\ l \in Seq(Steps) /\ Len(l) = 2
      /\ l[1] = "reload" /\ l[2] = "restart"
  BY <1>3 DEF ResolverLoad, Steps
<1>7. PICK q : q = r \o m
  OBVIOUS
<1>8. PICK p : p = q \o l
  OBVIOUS
<1>9. q \in Seq(Steps) /\ Joins(q, r, m)
  BY <1>4, <1>5, <1>7, Joining
<1>10. /\ Len(q) = 7 /\ q[1] = "restoreConf" /\ q[2] = "reload"
       /\ q[3] = "restart" /\ q[4] = "networkOutput"
       /\ q[5] = "noBackup" /\ q[6] = "backUp" /\ q[7] = "writeConf"
  BY <1>4, <1>5, <1>9 DEF Joins
<1>11. p \in Seq(Steps) /\ Joins(p, q, l)
  BY <1>6, <1>8, <1>9, Joining
<1>12. /\ Len(p) = 9 /\ p[1] = "restoreConf" /\ p[2] = "reload"
       /\ p[3] = "restart" /\ p[4] = "networkOutput"
       /\ p[5] = "noBackup" /\ p[6] = "backUp" /\ p[7] = "writeConf"
       /\ p[8] = "reload" /\ p[9] = "restart"
  BY <1>6, <1>10, <1>11 DEF Joins
<1>13. \A i \in 1..9 : Ahead(p, i) /\ Behind(p, i)
  BY <1>12 DEF Ahead, Behind
<1>14. Whole(p)
  BY <1>11, <1>12, <1>13 DEF Whole, Linked
<1>15. EdgeNetworkDNS = p
  BY <1>1, <1>2, <1>3, <1>7, <1>8 DEF EdgeNetworkDNS
<1> QED BY <1>14, <1>15

-----------------------------------------------------------------------------
(* Maintenance mode *)

\* The test of maintenance mode, step by step.
AtAlert(p) ==
    /\ p \in Seq(Steps) /\ Len(p) = 14
    /\ p[1] = "block" /\ p[2] = "hostUuid" /\ p[3] = "postRegion"
    /\ p[4] = "postSite" /\ p[5] = "getHost" /\ p[6] = "patchHost"
    /\ p[7] = "postSchedule" /\ p[8] = "unblock" /\ p[9] = "revert"
    /\ p[10] = "unblock" /\ p[11] = "delSchedule" /\ p[12] = "unconfigure"
    /\ p[13] = "delSite" /\ p[14] = "delRegion"

\* What the tests do at their end, step by step.
LEMMA CleaningUp ==
    /\ AfterAll \in Seq(Steps) /\ Len(AfterAll) = 6
    /\ AfterAll[1] = "revert" /\ AfterAll[2] = "unblock"
    /\ AfterAll[3] = "delSchedule" /\ AfterAll[4] = "unconfigure"
    /\ AfterAll[5] = "delSite" /\ AfterAll[6] = "delRegion"
<1>1. PICK s : s = <<"revert", "unblock">>
  OBVIOUS
<1>2. PICK t : t = UnsetMaintenance
  OBVIOUS
<1>3. /\ s \in Seq(Steps) /\ Len(s) = 2 /\ s[1] = "revert"
      /\ s[2] = "unblock"
      /\ t \in Seq(Steps) /\ Len(t) = 4 /\ t[1] = "delSchedule"
      /\ t[2] = "unconfigure" /\ t[3] = "delSite" /\ t[4] = "delRegion"
  BY <1>1, <1>2 DEF UnsetMaintenance, Steps
<1>4. AfterAll \in Seq(Steps) /\ Joins(AfterAll, s, t)
  BY <1>1, <1>2, <1>3, Joining DEF AfterAll
<1> QED BY <1>3, <1>4 DEF Joins

\* The program of the test is that sequence.
LEMMA Alerting == AtAlert(Program["alerts"])
<1>1. PICK b : b = <<"block">>
  OBVIOUS
<1>2. PICK s : s = SetMaintenance
  OBVIOUS
<1>3. PICK u : u = <<"unblock">>
  OBVIOUS
<1>4. /\ b \in Seq(Steps) /\ Len(b) = 1 /\ b[1] = "block"
      /\ u \in Seq(Steps) /\ Len(u) = 1 /\ u[1] = "unblock"
  BY <1>1, <1>3 DEF Steps
<1>5. /\ s \in Seq(Steps) /\ Len(s) = 6 /\ s[1] = "hostUuid"
      /\ s[2] = "postRegion" /\ s[3] = "postSite" /\ s[4] = "getHost"
      /\ s[5] = "patchHost" /\ s[6] = "postSchedule"
  BY <1>2 DEF SetMaintenance, Steps
<1>6. PICK q : q = b \o s
  OBVIOUS
<1>7. q \in Seq(Steps) /\ Joins(q, b, s)
  BY <1>4, <1>5, <1>6, Joining
<1>8. /\ Len(q) = 7 /\ q[1] = "block" /\ q[2] = "hostUuid"
      /\ q[3] = "postRegion" /\ q[4] = "postSite" /\ q[5] = "getHost"
      /\ q[6] = "patchHost" /\ q[7] = "postSchedule"
  BY <1>4, <1>5, <1>7 DEF Joins
<1>9. PICK r : r = q \o u
  OBVIOUS
<1>10. r \in Seq(Steps) /\ Joins(r, q, u)
  BY <1>4, <1>7, <1>9, Joining
<1>11. /\ Len(r) = 8 /\ r[1] = "block" /\ r[2] = "hostUuid"
       /\ r[3] = "postRegion" /\ r[4] = "postSite" /\ r[5] = "getHost"
       /\ r[6] = "patchHost" /\ r[7] = "postSchedule" /\ r[8] = "unblock"
  BY <1>4, <1>8, <1>10 DEF Joins
<1>12. PICK p : p = r \o AfterAll
  OBVIOUS
<1>13. p \in Seq(Steps) /\ Joins(p, r, AfterAll)
  BY <1>10, <1>12, CleaningUp, Joining
<1>14. AtAlert(p)
  <2>1. /\ Len(p) = 14 /\ \A i \in 1..8 : p[i] = r[i]
        /\ \A i \in 1..6 : p[8 + i] = AfterAll[i]
    BY <1>11, <1>13, CleaningUp DEF Joins
  <2>2. /\ p[9] = AfterAll[1] /\ p[10] = AfterAll[2] /\ p[11] = AfterAll[3]
        /\ p[12] = AfterAll[4] /\ p[13] = AfterAll[5]
        /\ p[14] = AfterAll[6]
    BY <2>1
  <2> QED BY <1>11, <1>13, <2>1, <2>2, CleaningUp DEF AtAlert
<1>15. Program["alerts"] = p
  BY <1>1, <1>2, <1>3, <1>6, <1>9, <1>12 DEF Program
<1> QED BY <1>14, <1>15

-----------------------------------------------------------------------------
(* All commands *)

\* The commands.
Commands ==
    {"edgeCluster", "edgeClusterWithProject", "undeployCluster",
     "registerEnic", "provisionEnic", "waitForEnic", "nodeAgent", "enicUUID",
     "template", "useOrch", "useEdge", "edgeNetwork", "edgeNetworkDNS",
     "undeployDNS", "edgeStoragePool", "undeployPool", "undeployNetwork",
     "onPrem", "undeployOnPrem", "ven", "undeployVen", "onboard",
     "onboardStream", "alerts"}

\* Every one has its program, and there are no other.
LEMMA Named == DOMAIN Program = Commands
  BY DEF Program, Commands

\* Every program is linked; ven alone has the step that makes a virtual edge
\* node.
LEMMA Programs ==
    /\ \A c \in Commands \ {"ven"} : Whole(Program[c])
    /\ Program["ven"] \in Seq(AllSteps) /\ Linked(Program["ven"])
<1>1. /\ Whole(Program["edgeCluster"])
      /\ Whole(Program["edgeClusterWithProject"])
  BY Parts, Composed, WholeJoin DEF Program
<1>2. Whole(Program["undeployCluster"])
  BY Parts, WholeJoin DEF Program
<1>3. /\ Whole(Program["registerEnic"])
      /\ Whole(Program["provisionEnic"])
      /\ Whole(Program["waitForEnic"])
  BY Parts DEF Program
<1>4. Whole(Program["nodeAgent"])
  BY DEF Program, Whole, Linked, Ahead, Behind, Steps
<1>5. Whole(Program["enicUUID"])
  BY DEF Program, Whole, Linked, Ahead, Behind, Steps
<1>6. Whole(Program["template"])
  BY DEF Program, Whole, Linked, Ahead, Behind, Steps
<1>7. Whole(Program["useOrch"])
  BY DEF Program, Whole, Linked, Ahead, Behind, Steps
<1>8. Whole(Program["useEdge"])
  BY DEF Program, Whole, Linked, Ahead, Behind, Steps
<1>9. Whole(Program["edgeNetwork"])
  BY DEF Program, Whole, Linked, Ahead, Behind, Steps
<1>10. Whole(Program["edgeStoragePool"])
  BY DEF Program, Whole, Linked, Ahead, Behind, Steps
<1>11. Whole(Program["undeployPool"])
  BY DEF Program, Whole, Linked, Ahead, Behind, Steps
<1>12. Whole(Program["undeployVen"])
  BY DEF Program, Whole, Linked, Ahead, Behind, Steps
<1>13. Whole(Program["edgeNetworkDNS"])
  BY Resolving DEF Program
<1>14. /\ Whole(Program["undeployDNS"])
       /\ Whole(Program["undeployNetwork"])
       /\ Whole(Program["undeployOnPrem"])
  BY Composed DEF Program
<1>15. Whole(Program["onPrem"])
  <2>1. Whole(<<"resolvers", "applyNetwork", "applyPool", "applyOrch">>)
    BY DEF Whole, Linked, Ahead, Behind, Steps
  <2> QED BY <2>1, Composed, WholeJoin DEF Program
<1>16. Whole(Program["onboard"])
  <2>1. Whole(<<"newNode", "nodeId", "osId", "newInstance",
                "instanceId", "workflow">>)
    BY DEF Whole, Linked, Ahead, Behind, Steps
  <2> QED BY <2>1, Parts, WholeJoin DEF Program
<1>17. Whole(Program["onboardStream"])
  <2>1. Whole(<<"registerNode", "streamRegistered", "onboardNode",
                "streamOnboarded", "nodeId", "osId", "newInstance",
                "instanceMade">>)
    BY DEF Whole, Linked, Ahead, Behind, Steps
  <2> QED BY <2>1, Parts, WholeJoin DEF Program
<1>18. Whole(Program["alerts"])
  <2>1. PICK p : p = Program["alerts"]
    OBVIOUS
  <2>2. AtAlert(p)
    BY <2>1, Alerting
  <2>3. \A i \in 1..14 :
          p[i] \notin {"deleteCluster", "appReady", "restoreConf",
                       "writeConf", "reload", "backUp", "register",
                       "instance"}
    BY <2>2 DEF AtAlert
  <2>4. \A i \in 1..14 : Ahead(p, i) /\ Behind(p, i)
    BY <2>3 DEF Ahead, Behind
  <2>5. p \in Seq(Steps) /\ Len(p) = 14
    BY <2>2 DEF AtAlert
  <2> QED BY <2>1, <2>4, <2>5 DEF Whole, Linked
<1>19. Program["ven"] \in Seq(AllSteps) /\ Linked(Program["ven"])
  BY DEF Program, Linked, Ahead, Behind, Steps, AllSteps
<1> QED BY <1>1, <1>2, <1>3, <1>4, <1>5, <1>6, <1>7, <1>8, <1>9, <1>10,
           <1>11, <1>12, <1>13, <1>14, <1>15, <1>16, <1>17, <1>18, <1>19
        DEF Commands

\* ... so that all their steps are known.
LEMMA ProgramsAre ==
    ASSUME NEW c \in Commands
    PROVE  Program[c] \in Seq(AllSteps) /\ Linked(Program[c])
<1>1. \A p : Whole(p) => p \in Seq(AllSteps) /\ Linked(p)
  BY DEF Whole, AllSteps
<1> QED BY <1>1, Programs

\* What commands may be given: a project, labels, a serial number.
LEMMA ArgsAre ==
    ASSUME NEW c, NEW a \in Args(c)
    PROVE  /\ a.project \in Projects /\ a.labels \subseteq Labels
           /\ c \in {"ven", "undeployVen"} => a.serial \in Serials
<1>1. Sample \in Projects
  BY EdgeNodeAssumption
<1>2. CASE c \in ForProject
  <2>1. c \notin {"ven", "undeployVen"}
    BY <1>2 DEF ForProject
  <2>2. PICK p \in Projects : a = [NoArg EXCEPT !.project = p]
    BY <1>2 DEF Args
  <2>3. a.project = p /\ a.labels = {}
    BY <2>2 DEF NoArg
  <2> QED BY <2>1, <2>3
<1>3. CASE c = "edgeCluster"
  <2>1. PICK l \in SUBSET Labels : a = [NoArg EXCEPT !.labels = l]
    BY <1>3 DEF Args, ForProject
  <2>2. a.project = Sample /\ a.labels = l
    BY <2>1 DEF NoArg
  <2> QED BY <1>1, <1>3, <2>1, <2>2
<1>4. CASE c \in {"ven", "undeployVen"}
  <2>1. a \in {VenArg(s, v) : s \in Serials, v \in BOOLEAN}
    BY <1>4 DEF Args, ForProject
  <2>2. PICK s \in Serials, v \in BOOLEAN : a = VenArg(s, v)
    BY <2>1
  <2> QED BY <1>1, <2>2 DEF VenArg, NoArg
<1>5. CASE c \notin ForProject /\ c # "edgeCluster"
            /\ c \notin {"ven", "undeployVen"}
  <2>1. a = NoArg
    BY <1>5 DEF Args
  <2>2. a.project = Sample /\ a.labels = {}
    BY <2>1 DEF NoArg
  <2> QED BY <1>1, <1>5, <2>2
<1> QED BY <1>2, <1>3, <1>4, <1>5

-----------------------------------------------------------------------------
(* The running command *)

\* The variables of a command when n pods have been made.
Locals(n) == [uuid : 0..n, guid : 0..n, user : Projects]

\* The running command has left the step s behind.
Passed(s) ==
    \E i \in 1..(Len(Program[cmd]) - Len(todo)) : Program[cmd][i] = s

\* A command runs the rest of its program, or none does; when it has read the
\* UUID, the UUID is that of a pod.
Turn ==
    /\ cmd = "none" => todo = <<>>
    /\ cmd # "none" =>
         /\ cmd \in Commands /\ arg \in Args(cmd)
         /\ todo \in Seq(AllSteps) /\ todo # <<>>
         /\ Rest(todo, Program[cmd])
         /\ job \in Locals(pods.made)
         /\ Passed("uuid") => job.uuid # 0

\* The current step is one of a linked program.
LEMMA Now ==
    ASSUME Turn, cmd # "none", NEW i, i = Len(Program[cmd]) - Len(todo) + 1
    PROVE  /\ Program[cmd] \in Seq(AllSteps)
           /\ Len(todo) \in Nat /\ Len(todo) >= 1
           /\ Len(Program[cmd]) \in Nat /\ i \in 1..Len(Program[cmd])
           /\ Head(todo) = Program[cmd][i] /\ Head(todo) \in AllSteps
           /\ Ahead(Program[cmd], i) /\ Behind(Program[cmd], i)
<1>1. PICK p : p = Program[cmd]
  OBVIOUS
<1>2. p \in Seq(AllSteps) /\ Linked(p)
  BY <1>1, ProgramsAre DEF Turn
<1>3. todo \in Seq(AllSteps) /\ todo # <<>> /\ Rest(todo, p)
  BY <1>1 DEF Turn
<1>4. Len(todo) \in 1..Len(p) /\ Head(todo) = p[Len(p) - Len(todo) + 1]
  BY <1>2, <1>3, HeadOfRest
<1>5. Len(todo) \in Nat /\ Len(p) \in Nat /\ i \in 1..Len(p)
  BY <1>1, <1>2, <1>3, <1>4
<1>6. Head(todo) = p[i] /\ p[i] \in AllSteps
  BY <1>1, <1>2, <1>4, <1>5
<1> QED BY <1>1, <1>2, <1>4, <1>5, <1>6 DEF Linked

\* A step goes on.
Stay ==
    /\ UNCHANGED <<cmd, arg, todo, job, ok, done>>
    /\ ticks' \in 0..Ticks

\* A command ends.
Leave ==
    /\ cmd' = "none" /\ todo' = <<>> /\ ok' \in BOOLEAN
    /\ ticks' \in 0..Ticks /\ UNCHANGED done

\* A test that failed goes on with its clean-up.
Back ==
    /\ cmd = "alerts" /\ todo' = AfterAll
    /\ UNCHANGED <<cmd, arg, job, ticks, ok, done>>

\* Which step may follow which, as far as the resolver is concerned.
Follows(s, t) ==
    /\ t = "backUp" => s = "noBackup"
    /\ t = "writeConf" => s = "backUp"
    /\ s = "reload" => t = "restart"
    /\ s = "writeConf" => t = "reload"

\* A command goes on with a later step.
Go ==
    /\ UNCHANGED <<cmd, arg, ok, done>> /\ ticks' \in 0..Ticks
    /\ todo' \in Seq(AllSteps) /\ todo' # <<>> /\ Rest(todo', Program[cmd])
    /\ job' \in Locals(pods.made)
    /\ Passed("uuid")' => job'.uuid # 0
    /\ Follows(Head(todo), Head(todo'))

\* Leaving one step behind, or two or three where nothing is to be deleted or
\* restored, is one of these ways to move.
LEMMA Forward ==
    ASSUME Turn, cmd # "none", NEW j \in Locals(pods.made),
           NEW n \in 1..3, n <= Len(todo), AdvanceWith(n, j),
           n = 2 => Head(todo) = "deleteCluster",
           n = 3 => Head(todo) = "restoreConf",
           job.uuid # 0 => j.uuid # 0,
           Head(todo) = "uuid" => j.uuid # 0
    PROVE  \/ /\ Return(TRUE)
              /\ Head(todo) \notin {"writeConf", "reload"}
              /\ Head(todo) = "restoreConf" => n = 3
           \/ /\ Go /\ Len(todo') = Len(todo) - n
              /\ Head(todo) = "restoreConf" =>
                   n = 3 \/ Head(todo') = "reload"
<1>1. PICK p : p = Program[cmd]
  OBVIOUS
<1>2. PICK i : i = Len(p) - Len(todo) + 1
  OBVIOUS
<1>3. /\ p \in Seq(AllSteps)
      /\ Len(todo) \in Nat /\ Len(todo) >= 1
      /\ Len(p) \in Nat /\ i \in 1..Len(p)
      /\ Head(todo) = p[i] /\ Head(todo) \in AllSteps
      /\ Ahead(p, i) /\ Behind(p, i)
  BY <1>1, <1>2, Now
<1>4. todo \in Seq(AllSteps) /\ Rest(todo, p)
  BY <1>1 DEF Turn
<1>5. \/ Len(todo) = n /\ Return(TRUE)
      \/ /\ todo' \in Seq(AllSteps) /\ todo' # <<>>
         /\ Rest(todo', p) /\ Len(todo') = Len(todo) - n
         /\ job' = j /\ ticks' = Ticks
         /\ UNCHANGED <<cmd, arg, ok, done>>
  <2>1. n \in 1..Len(todo)
    BY <1>3
  <2> QED BY <1>3, <1>4, <2>1, Advancing
<1>6. CASE Len(todo) = n /\ Return(TRUE)
  <2>1. i + n = Len(p) + 1
    BY <1>2, <1>3, <1>6
  <2>2. Head(todo) \notin {"writeConf", "reload"}
    BY <1>3, <2>1 DEF Ahead
  <2>3. Head(todo) = "restoreConf" => n = 3
    BY <1>3, <2>1 DEF Ahead
  <2> QED BY <1>6, <2>2, <2>3
<1>7. CASE /\ todo' \in Seq(AllSteps) /\ todo' # <<>>
           /\ Rest(todo', p) /\ Len(todo') = Len(todo) - n
           /\ job' = j /\ ticks' = Ticks
           /\ UNCHANGED <<cmd, arg, ok, done>>
  <2>1. /\ Len(todo') \in 1..Len(p)
        /\ Head(todo') = p[Len(p) - Len(todo') + 1]
    BY <1>3, <1>7, HeadOfRest
  <2>2. Len(p) - Len(todo') + 1 = i + n /\ i + n \in 1..Len(p)
    BY <1>2, <1>3, <1>7, <2>1
  <2>3. Head(todo') = p[i + n] /\ Behind(p, i + n)
    <3>1. Linked(p)
      BY <1>1, ProgramsAre DEF Turn
    <3> QED BY <2>1, <2>2, <3>1 DEF Linked
  <2>4. Follows(p[i], p[i + n])
    <3>1. CASE n = 1
      <4>1. (i + n) - 1 = i /\ i + n = i + 1
        BY <1>3, <3>1
      <4> QED BY <1>3, <2>3, <4>1 DEF Ahead, Behind, Follows
    <3>2. CASE n = 2
      <4>1. (i + n) - 1 = i + 1 /\ p[i] = "deleteCluster"
        BY <1>3, <3>2
      <4>2. p[i + 1] = "clusterGone"
        BY <1>3, <4>1 DEF Ahead
      <4> QED BY <2>3, <4>1, <4>2 DEF Behind, Follows
    <3>3. CASE n = 3
      <4>1. (i + n) - 1 = i + 2 /\ p[i] = "restoreConf"
        BY <1>3, <3>3
      <4>2. p[i + 2] = "restart"
        BY <1>3, <4>1 DEF Ahead
      <4> QED BY <2>3, <4>1, <4>2 DEF Behind, Follows
    <3> QED BY <3>1, <3>2, <3>3
  <2>5. Head(todo) = "restoreConf" => n = 3 \/ Head(todo') = "reload"
    <3>1. n \in {1, 3} \/ Head(todo) # "restoreConf"
      OBVIOUS
    <3> QED BY <1>3, <2>3, <3>1 DEF Ahead
  <2>6. Passed("uuid")' => job'.uuid # 0
    <3>1. SUFFICES ASSUME Passed("uuid")' PROVE job'.uuid # 0
      OBVIOUS
    <3>2. cmd' = cmd /\ Program[cmd] = p
      BY <1>1, <1>7
    <3>3. PICK k \in 1..(Len(p) - Len(todo')) : p[k] = "uuid"
      BY <3>1, <3>2 DEF Passed
    <3>4. k \in Nat /\ k >= 1 /\ k < i + n
      BY <1>2, <1>3, <2>1, <2>2, <3>3
    <3>5. CASE k < i
      <4>1. k \in 1..(Len(p) - Len(todo))
        BY <1>2, <1>3, <3>4, <3>5
      <4>2. Passed("uuid")
        BY <1>1, <3>3, <4>1 DEF Passed
      <4> QED BY <1>7, <4>2 DEF Turn
    <3>6. CASE k = i
      BY <1>3, <1>7, <3>3, <3>6
    <3>7. CASE k > i
      <4>1. \/ n = 2 /\ k = i + 1
            \/ n = 3 /\ k \in {i + 1, i + 2}
        BY <1>3, <3>4, <3>7
      <4> QED BY <1>3, <3>3, <4>1 DEF Ahead
    <3> QED BY <1>3, <3>4, <3>5, <3>6, <3>7
  <2>7. ticks' \in 0..Ticks /\ job' \in Locals(pods.made)
    BY <1>7, EdgeNodeAssumption
  <2>8. Go
    BY <1>1, <1>3, <1>7, <2>3, <2>4, <2>6, <2>7 DEF Go
  <2> QED BY <1>7, <2>5, <2>8
<1> QED BY <1>5, <1>6, <1>7

\* All that a step does to the command that it belongs to.
Moves == Stay \/ Leave \/ Go \/ Back

\* The end of a command.
LEMMA Returning ==
    ASSUME NEW b \in BOOLEAN, Return(b) PROVE Leave
  BY EdgeNodeAssumption DEF Return, Leave

\* A step that gives up ends the command, or the test's part before its
\* clean-up.
LEMMA GivingUp ==
    ASSUME GiveUp PROVE Leave \/ Back
<1>1. CASE InTest
  BY <1>1 DEF GiveUp, InTest, Back
<1>2. CASE ~InTest
  BY <1>2, Returning DEF GiveUp
<1> QED BY <1>1, <1>2

\* Leaving one step behind.
LEMMA Stepping ==
    ASSUME Turn, cmd # "none", Advance, Head(todo) # "uuid"
    PROVE  \/ /\ Leave
              /\ Head(todo) \notin {"writeConf", "reload", "restoreConf"}
           \/ /\ Go /\ Len(todo') = Len(todo) - 1
              /\ Head(todo) = "restoreConf" => Head(todo') = "reload"
<1>1. PICK n : n = 1
  OBVIOUS
<1>2. PICK j : j = job
  OBVIOUS
<1>3. /\ j \in Locals(pods.made) /\ AdvanceWith(n, j) /\ n \in 1..3
      /\ n <= Len(todo) /\ (job.uuid # 0 => j.uuid # 0)
  <2>1. Len(todo) >= 1
    BY Now
  <2> QED BY <1>1, <1>2, <2>1 DEF Turn, Advance
<1>4. \/ /\ Return(TRUE)
         /\ Head(todo) \notin {"writeConf", "reload"}
         /\ Head(todo) = "restoreConf" => n = 3
      \/ /\ Go /\ Len(todo') = Len(todo) - n
         /\ Head(todo) = "restoreConf" => n = 3 \/ Head(todo') = "reload"
  <2>1. (n = 2 => Head(todo) = "deleteCluster")
        /\ (n = 3 => Head(todo) = "restoreConf")
        /\ (Head(todo) = "uuid" => j.uuid # 0)
    BY <1>1
  <2> QED BY <1>3, <2>1, Forward
<1>5. Return(TRUE) => Leave
  BY Returning
<1>6. n # 3 /\ Len(todo) - n = Len(todo) - 1
  BY <1>1
<1>7. CASE /\ Return(TRUE)
           /\ Head(todo) \notin {"writeConf", "reload"}
           /\ Head(todo) = "restoreConf" => n = 3
  BY <1>5, <1>6, <1>7
<1>8. CASE /\ Go /\ Len(todo') = Len(todo) - n
           /\ Head(todo) = "restoreConf" => n = 3 \/ Head(todo') = "reload"
  BY <1>6, <1>8
<1> QED BY <1>4, <1>7, <1>8

\* A wait ends, gives up or goes on.
LEMMA Trying ==
    ASSUME Turn, cmd # "none", NEW b, Retry(b), ticks \in 0..Ticks,
           Head(todo) # "uuid"
    PROVE  Moves
<1>1. CASE ticks = 0 /\ GiveUp
  BY <1>1, GivingUp DEF Moves
<1>2. CASE Advance
  BY <1>2, Stepping DEF Moves
<1>3. CASE /\ ticks > 0 /\ ticks' = ticks - 1
           /\ UNCHANGED <<cmd, arg, todo, job, ok, done>>
  BY <1>3, EdgeNodeAssumption DEF Moves, Stay
<1> QED BY <1>1, <1>2, <1>3 DEF Retry

\* The clean-up is what is left of the test's program at its end.
LEMMA Rested == Rest(AfterAll, Program["alerts"])
<1>1. PICK p : p = Program["alerts"]
  OBVIOUS
<1>2. AtAlert(p)
  BY <1>1, Alerting
<1>3. \A i \in 1..6 : AfterAll[i] = p[8 + i]
  <2>1. /\ AfterAll[1] = p[9] /\ AfterAll[2] = p[10]
        /\ AfterAll[3] = p[11] /\ AfterAll[4] = p[12]
        /\ AfterAll[5] = p[13] /\ AfterAll[6] = p[14]
    BY <1>2, CleaningUp DEF AtAlert
  <2> QED BY <2>1
<1>4. Len(AfterAll) = 6 /\ Len(p) = 14
  BY <1>2, CleaningUp DEF AtAlert
<1> QED BY <1>1, <1>3, <1>4 DEF Rest

\* Whatever a step does to it, a command runs the rest of its program.
LEMMA TurnOn ==
    ASSUME Turn, cmd # "none", Moves, pods.made \in Nat, pods'.made \in Nat,
           pods.made <= pods'.made
    PROVE  Turn'
<1>1. Locals(pods.made) \subseteq Locals(pods'.made)
  BY DEF Locals
<1>2. CASE Stay
  <2>1. Passed("uuid")' <=> Passed("uuid")
    BY <1>2 DEF Stay, Passed
  <2> QED BY <1>1, <1>2, <2>1 DEF Stay, Turn
<1>3. CASE Leave
  BY <1>3 DEF Leave, Turn
<1>4. CASE Go
  BY <1>1, <1>4 DEF Go, Turn
<1>5. CASE Back
  <2>1. /\ todo' \in Seq(AllSteps) /\ todo' # <<>>
        /\ Rest(todo', Program[cmd'])
    <3>1. PICK r : r = AfterAll
      OBVIOUS
    <3>2. r \in Seq(AllSteps) /\ Len(r) = 6
      BY <3>1, CleaningUp DEF AllSteps
    <3>3. r # <<>>
      <4>1. Len(<<>>) # 6
        OBVIOUS
      <4> QED BY <3>2, <4>1
    <3> QED BY <1>5, <3>1, <3>2, <3>3, Rested DEF Back
  <2>2. ~Passed("uuid")'
    <3>1. PICK p : p = Program["alerts"]
      OBVIOUS
    <3>2. /\ cmd' = "alerts" /\ Len(todo') = 6 /\ Len(p) = 14
          /\ AtAlert(p)
      BY <1>5, <3>1, Alerting, CleaningUp DEF Back, AtAlert
    <3>3. \A i \in 1..8 : p[i] # "uuid"
      BY <3>2 DEF AtAlert
    <3> QED BY <3>1, <3>2, <3>3 DEF Passed
  <2> QED BY <1>1, <1>5, <2>1, <2>2 DEF Back, Turn
<1> QED BY <1>2, <1>3, <1>4, <1>5 DEF Moves

-----------------------------------------------------------------------------
(* Types *)

\* The types of what the commands leave behind, when n pods have been made.
Host(n) == [reg : SUBSET (1..n), inst : SUBSET (1..n)]
Cluster(n) ==
    [st : {"none", "creating", "ready", "deleting"}, node : 0..n,
     labels : SUBSET Labels, agent : BOOLEAN]
Kube(n) ==
    [at : {"orch", "edge"},
     entry : [made : {"no", "part", "whole"}, node : 0..n]]
Node ==
    [st : {"none", "registered", "onboarded", "deleting"},
     inst : {"none", "posted", "linked"}, flow : BOOLEAN]
Maintenance ==
    [ids : SUBSET {"region", "site", "host", "schedule"},
     made : SUBSET {"region", "site", "hosted", "schedule"}, lost : BOOLEAN]

\* The types of the variables.
EnicType ==
    /\ DOMAIN enic = {"release", "app", "set", "pod", "agent", "project",
                      "blocked"}
    /\ enic.pod \in 0..pods.made /\ enic.project \in Projects \cup {""}
PodsType == pods \in [made : Nat, at : 0..MaxCommands]
HostsType == hosts \in [Projects -> Host(pods.made)]
ClustersType == clusters \in [Projects -> Cluster(pods.made)]
TemplateType == template \in {"none", "made", "default"}
KubeType == kube \in Kube(pods.made)
TfType == tf \subseteq {"network", "pool", "orch"}
VmsType ==
    /\ vms \subseteq {"orch"} \cup Serials
    /\ disks \subseteq {"orch", "lost"} \cup Serials
NodeType == node \in Node
MmType == mm \in Maintenance

\* All types but those of resolved.conf.
Types ==
    /\ EnicType /\ PodsType /\ HostsType /\ ClustersType /\ TemplateType
    /\ KubeType /\ TfType /\ VmsType /\ NodeType /\ MmType
    /\ clean \in BOOLEAN /\ CommandType

\* resolved.conf: without a backup the file is the machine's own, or what was
\* left of it by a copy that was cut short; the step that saves it runs only
\* without a backup, and the step that writes it when the backup is the same;
\* when nothing failed, the resolver has read the file unless it is about to.
Dns ==
    /\ dns \in [conf : {"own", "edge", "short", "cut"},
                bak : {"", "own", "short"},
                live : {"own", "edge", "short", "cut"}]
    /\ dns.bak = "" => dns.conf \in {"own", "short"}
    /\ At("backUp") => dns.bak = ""
    /\ At("writeConf") => dns.bak = dns.conf
    /\ fails = 0 => At("reload") \/ At("restart") \/ dns.live = dns.conf

\* The invariant of all commands.
IInv == Turn /\ Types /\ Dns

-----------------------------------------------------------------------------
(* The invariant at the start *)

\* It holds at the start.
LEMMA Initially == Init => IInv
<1>1. SUFFICES ASSUME Init PROVE IInv
  OBVIOUS
<1>2. Turn
  BY <1>1 DEF Init, Turn
<1>3. EnicType
  <2>1. enic = NoEnic /\ pods.made = 0
    BY <1>1 DEF Init
  <2>2. enic.pod \in 0..pods.made /\ enic.project \in Projects \cup {""}
    <3>1. NoEnic.pod = 0 /\ NoEnic.project = ""
      BY DEF NoEnic
    <3>2. 0 \in 0..0
      OBVIOUS
    <3> QED BY <2>1, <3>1, <3>2
  <2>3. DOMAIN enic = {"release", "app", "set", "pod", "agent", "project",
                       "blocked"}
    BY <2>1 DEF NoEnic
  <2> QED BY <2>2, <2>3 DEF EnicType
<1>10. PodsType
  <2>1. pods = [made |-> 0, at |-> 0]
    BY <1>1 DEF Init
  <2>2. 0 \in 0..MaxCommands
    BY EdgeNodeAssumption
  <2> QED BY <2>1, <2>2 DEF PodsType
<1>4. HostsType
  BY <1>1 DEF Init, HostsType, Host
<1>5. ClustersType
  <2>1. clusters = [p \in Projects |-> NoCluster] /\ pods.made = 0
    BY <1>1 DEF Init
  <2>2. NoCluster \in Cluster(0)
    BY DEF NoCluster, Cluster
  <2> QED BY <2>1, <2>2 DEF ClustersType
<1>6. TemplateType /\ TfType /\ VmsType
  BY <1>1 DEF Init, TemplateType, TfType, VmsType
<1>11. KubeType
  <2>1. kube = [at |-> "orch", entry |-> NoEntry] /\ pods.made = 0
    BY <1>1 DEF Init
  <2> QED BY <2>1 DEF KubeType, Kube, NoEntry
<1>7. NodeType /\ MmType /\ clean \in BOOLEAN
  BY <1>1 DEF Init, NodeType, Node, MmType, Maintenance, NoNode,
              NoMaintenance
<1>8. CommandType
  <2>1. ticks = 0 /\ ok = TRUE /\ done = 0 /\ fails = 0
    BY <1>1 DEF Init
  <2> QED BY <2>1, EdgeNodeAssumption DEF CommandType
<1>9. Dns
  BY <1>1 DEF Init, Dns, At
<1> QED BY <1>2, <1>3, <1>4, <1>5, <1>6, <1>7, <1>8, <1>9, <1>10,
           <1>11 DEF IInv, Types

-----------------------------------------------------------------------------
(* Steps and the command *)

\* The steps that only read.
LEMMA Reading ==
    ASSUME Turn, CommandType, Reads
    PROVE  Moves /\ Head(todo) \in DOMAIN ReadOnly
             /\ (Head(todo) = "noBackup" /\ Go => dns.bak = "")
             /\ (Head(todo) = "reload" => Go)
<1>1. /\ cmd # "none" /\ Head(todo) \in DOMAIN ReadOnly
      /\ Head(todo) # "uuid"
  BY DEF Turn, Reads, ReadOnly
<1>2. Moves
  BY <1>1, Stepping, GivingUp DEF Reads, Require, Moves
<1>3. Head(todo) = "reload" => Go
  <2>1. SUFFICES ASSUME Head(todo) = "reload" PROVE Go
    OBVIOUS
  <2>2. Require(TRUE)
    <3>1. ReadOnly["reload"] = TRUE
      BY DEF ReadOnly
    <3> QED BY <2>1, <3>1 DEF Reads
  <2> QED BY <1>1, <2>1, <2>2, Stepping DEF Require
<1>4. Head(todo) = "noBackup" /\ Go => dns.bak = ""
  <2>1. SUFFICES ASSUME Head(todo) = "noBackup", Go, dns.bak # ""
                 PROVE  FALSE
    OBVIOUS
  <2>2. GiveUp
    <3>1. ReadOnly["noBackup"] = (dns.bak = "")
      BY DEF ReadOnly
    <3> QED BY <2>1, <3>1 DEF Reads, Require
  <2>3. cmd' # "none"
    BY <1>1, <2>1 DEF Go
  <2>4. Back
    BY <2>2, <2>3, GivingUp DEF Leave
  <2>5. cmd = "alerts" /\ Head(todo) \in {Program["alerts"][i] : i \in 1..14}
    <3>1. PICK p : p = Program["alerts"]
      OBVIOUS
    <3>2. AtAlert(p)
      BY <3>1, Alerting
    <3>3. PICK i : i = Len(p) - Len(todo) + 1
      OBVIOUS
    <3>4. cmd = "alerts"
      BY <2>4 DEF Back
    <3>5. Head(todo) = p[i] /\ i \in 1..Len(p)
      BY <1>1, <3>1, <3>3, <3>4, Now
    <3> QED BY <3>1, <3>2, <3>4, <3>5 DEF AtAlert
  <2>6. \A i \in 1..14 : Program["alerts"][i] # "noBackup"
    <3>1. PICK p : p = Program["alerts"]
      OBVIOUS
    <3>2. AtAlert(p)
      BY <3>1, Alerting
    <3>3. \A i \in 1..14 : p[i] # "noBackup"
      BY <3>2 DEF AtAlert
    <3> QED BY <3>1, <3>3
  <2> QED BY <2>1, <2>5, <2>6
<1> QED BY <1>1, <1>2, <1>3, <1>4

\* A wait without a limit ends with the next step.
LEMMA Ready ==
    ASSUME Turn, cmd # "none"
    PROVE  /\ arg.project \in Projects /\ arg.labels \subseteq Labels
           /\ job \in Locals(pods.made)
           /\ Head(todo) = "applyVen" => arg.serial \in Serials
           /\ Head(todo) \in {"register", "instance"} => job.uuid # 0
<1>1. /\ cmd \in Commands /\ arg \in Args(cmd) /\ job \in Locals(pods.made)
      /\ Passed("uuid") => job.uuid # 0
  BY DEF Turn
<1>2. /\ arg.project \in Projects /\ arg.labels \subseteq Labels
      /\ cmd \in {"ven", "undeployVen"} => arg.serial \in Serials
  BY <1>1, ArgsAre
<1>3. PICK p : p = Program[cmd]
  OBVIOUS
<1>4. PICK i : i = Len(p) - Len(todo) + 1
  OBVIOUS
<1>5. /\ p \in Seq(AllSteps) /\ Len(todo) \in Nat /\ Len(todo) >= 1
      /\ Len(p) \in Nat /\ i \in 1..Len(p)
      /\ Head(todo) = p[i] /\ Behind(p, i)
  BY <1>3, <1>4, Now
<1>6. Head(todo) = "applyVen" => cmd = "ven"
  <2>1. SUFFICES ASSUME cmd # "ven" PROVE Head(todo) # "applyVen"
    OBVIOUS
  <2>2. p \in Seq(Steps)
    BY <1>1, <1>3, <2>1, Programs DEF Whole
  <2>3. p[i] \in Steps
    BY <1>5, <2>2
  <2> QED BY <1>5, <2>3 DEF Steps
<1>7. Head(todo) \in {"register", "instance"} => job.uuid # 0
  <2>1. SUFFICES ASSUME p[i] \in {"register", "instance"}
                 PROVE  Passed("uuid")
    BY <1>1, <1>5
  <2>2. PICK k \in 1..(i - 1) : p[k] = "uuid"
    BY <1>5, <2>1 DEF Behind
  <2>3. i - 1 = Len(p) - Len(todo)
    BY <1>4, <1>5
  <2> QED BY <1>3, <2>2, <2>3 DEF Passed
<1> QED BY <1>1, <1>2, <1>6, <1>7

\* The UUID is read from a pod.
LEMMA Uuid ==
    ASSUME Turn, EnicType, PodsType, CommandType, ReadUuid PROVE Moves
<1>1. cmd # "none" /\ ticks \in 0..Ticks /\ todo # <<>>
  BY DEF Turn, ReadUuid, At, CommandType
<1>2. CASE GiveUp
  BY <1>2, GivingUp DEF Moves
<1>3. CASE ticks > 0 /\ ticks' = ticks - 1
           /\ UNCHANGED <<cmd, arg, todo, job, ok, done>>
  BY <1>1, <1>3, EdgeNodeAssumption DEF Moves, Stay
<1>4. ASSUME NEW j, AdvanceWith(1, j), PodRuns,
             \/ At("uuid") /\ j = [job EXCEPT !.uuid = enic.pod]
             \/ At("hostUuid") /\ j = [job EXCEPT !.uuid = enic.pod]
             \/ At("guid") /\ j = [job EXCEPT !.guid = enic.pod]
      PROVE  Moves
  <2>1. enic.pod \in 0..pods.made /\ enic.pod # 0
    BY <1>4 DEF EnicType, PodRuns
  <2>2. job \in Locals(pods.made)
    BY <1>1 DEF Turn
  <2>3. /\ j \in Locals(pods.made) /\ (job.uuid # 0 => j.uuid # 0)
        /\ (Head(todo) = "uuid" => j.uuid # 0)
    BY <1>4, <2>1, <2>2 DEF Locals, At
  <2>4. PICK n : n = 1
    OBVIOUS
  <2>5. n \in 1..3 /\ n <= Len(todo) /\ AdvanceWith(n, j)
    BY <1>1, <1>4, <2>4, Now
  <2>6. (n = 2 => Head(todo) = "deleteCluster")
        /\ (n = 3 => Head(todo) = "restoreConf")
    BY <2>4
  <2>7. Return(TRUE) \/ Go
    BY <1>1, <2>3, <2>5, <2>6, Forward
  <2>8. Return(TRUE) => Leave
    BY Returning
  <2> QED BY <2>7, <2>8 DEF Moves
<1> QED BY <1>2, <1>3, <1>4 DEF ReadUuid

\* The users are those of a project.
LEMMA FindUsers ==
    ASSUME Turn, Users PROVE Moves
<1>1. cmd # "none" /\ todo # <<>> /\ Head(todo) = "users"
  BY DEF Turn, Users, At
<1>2. PICK u \in Projects : AdvanceWith(1, [job EXCEPT !.user = u])
  BY DEF Users
<1>3. PICK j : j = [job EXCEPT !.user = u]
  OBVIOUS
<1>4. job \in Locals(pods.made)
  BY <1>1 DEF Turn
<1>5. j \in Locals(pods.made) /\ j.uuid = job.uuid
  BY <1>3, <1>4 DEF Locals
<1>6. PICK n : n = 1
  OBVIOUS
<1>7. n \in 1..3 /\ n <= Len(todo) /\ AdvanceWith(n, j)
  BY <1>1, <1>2, <1>3, <1>6, Now
<1>8. (n = 2 => Head(todo) = "deleteCluster")
      /\ (n = 3 => Head(todo) = "restoreConf")
  BY <1>6
<1>9. Return(TRUE) \/ Go
  BY <1>1, <1>5, <1>7, <1>8, Forward
<1>10. Return(TRUE) => Leave
  BY Returning
<1> QED BY <1>9, <1>10 DEF Moves

\* The waits for ArgoCD's application.
LEMMA AppComes ==
    ASSUME Turn, CommandType, AppReady PROVE Moves
<1>1. cmd # "none" /\ ticks \in 0..Ticks /\ todo # <<>>
  BY DEF Turn, AppReady, At, CommandType
<1>2. CASE Advance /\ Head(todo) \in {"appReadyFirst", "replicas"}
  BY <1>1, <1>2, Stepping DEF Moves
<1>3. CASE ticks > 0 /\ ticks' = ticks - 1
           /\ UNCHANGED <<cmd, arg, todo, job, ok, done>>
  BY <1>1, <1>3, EdgeNodeAssumption DEF Moves, Stay
<1>4. CASE /\ At("appReady") /\ todo' = Tail(todo)
           /\ UNCHANGED <<cmd, arg, job, ticks, ok, done>>
  <2>1. PICK p : p = Program[cmd]
    OBVIOUS
  <2>2. PICK i : i = Len(p) - Len(todo) + 1
    OBVIOUS
  <2>3. /\ p \in Seq(AllSteps) /\ Len(todo) \in Nat /\ Len(todo) >= 1
        /\ Len(p) \in Nat /\ i \in 1..Len(p)
        /\ Head(todo) = p[i] /\ Ahead(p, i)
    BY <1>1, <2>1, <2>2, Now
  <2>4. Head(todo) = "appReady"
    BY <1>4 DEF At
  <2>5. Len(todo) >= 2
    BY <2>2, <2>3, <2>4 DEF Ahead
  <2>6. todo \in Seq(AllSteps) /\ Rest(todo, p)
    BY <1>1, <2>1 DEF Turn
  <2>7. /\ todo' \in Seq(AllSteps) /\ todo' # <<>> /\ Rest(todo', p)
        /\ Len(todo') = Len(todo) - 1
    BY <1>4, <2>3, <2>5, <2>6, TailRest
  <2>8. Head(todo') = p[Len(p) - Len(todo') + 1]
    BY <2>3, <2>7, HeadOfRest
  <2>9. Len(p) - Len(todo') + 1 = i + 1 /\ i + 1 \in 1..Len(p)
    BY <2>2, <2>3, <2>5, <2>7
  <2>10. Linked(p)
    BY <1>1, <2>1, ProgramsAre DEF Turn
  <2>11. Behind(p, i + 1) /\ (i + 1) - 1 = i
    BY <2>3, <2>9, <2>10 DEF Linked
  <2>12. Follows(Head(todo), Head(todo'))
    BY <2>3, <2>4, <2>8, <2>9, <2>11 DEF Behind, Follows
  <2>13. Passed("uuid")' => job'.uuid # 0
    <3>1. SUFFICES ASSUME Passed("uuid")' PROVE job'.uuid # 0
      OBVIOUS
    <3>2. cmd' = cmd /\ job' = job
      BY <1>4
    <3>3. PICK k \in 1..(Len(p) - Len(todo')) : p[k] = "uuid"
      BY <2>1, <3>1, <3>2 DEF Passed
    <3>4. k # i /\ k \in 1..(Len(p) - Len(todo))
      BY <2>2, <2>3, <2>4, <2>7, <3>3
    <3> QED BY <1>1, <2>1, <3>2, <3>3, <3>4 DEF Passed, Turn
  <2>14. job' \in Locals(pods.made) /\ ticks' \in 0..Ticks
    BY <1>1, <1>4 DEF Turn
  <2> QED BY <1>4, <2>1, <2>7, <2>12, <2>13, <2>14 DEF Moves, Go
<1> QED BY <1>2, <1>3, <1>4 DEF AppReady, At

\* The deletion of a cluster, which skips its wait when there is none.
LEMMA Deleting ==
    ASSUME Turn, DeleteCluster PROVE Moves
<1>1. /\ cmd # "none" /\ todo # <<>> /\ Head(todo) = "deleteCluster"
  BY DEF Turn, DeleteCluster, At
<1>2. CASE GiveUp
  BY <1>2, GivingUp DEF Moves
<1>3. CASE Advance
  BY <1>1, <1>3, Stepping DEF Moves
<1>4. CASE AdvanceWith(2, job)
  <2>1. PICK n : n = 2
    OBVIOUS
  <2>2. PICK j : j = job
    OBVIOUS
  <2>3. Len(todo) >= 2
    <3>1. PICK i : i = Len(Program[cmd]) - Len(todo) + 1
      OBVIOUS
    <3> QED BY <1>1, <3>1, Now DEF Ahead
  <2>4. /\ j \in Locals(pods.made) /\ AdvanceWith(n, j) /\ n \in 1..3
        /\ n <= Len(todo) /\ (job.uuid # 0 => j.uuid # 0)
    BY <1>1, <1>4, <2>1, <2>2, <2>3 DEF Turn
  <2>5. (n = 2 => Head(todo) = "deleteCluster")
        /\ (n = 3 => Head(todo) = "restoreConf")
        /\ (Head(todo) = "uuid" => j.uuid # 0)
    BY <1>1, <2>1
  <2>6. Return(TRUE) \/ Go
    BY <1>1, <2>4, <2>5, Forward
  <2>7. Return(TRUE) => Leave
    BY Returning
  <2> QED BY <2>6, <2>7 DEF Moves
<1> QED BY <1>2, <1>3, <1>4 DEF DeleteCluster

\* The restoration of resolved.conf, which skips the resolver's restart when
\* there is no backup.
LEMMA RestoringMoves ==
    ASSUME Turn, RestoreConf
    PROVE  \/ /\ dns.bak = "" /\ UNCHANGED dns
              /\ Leave \/ (Go /\ Len(todo') = Len(todo) - 3)
           \/ /\ dns.bak # "" /\ Go /\ Head(todo') = "reload"
              /\ Len(todo') = Len(todo) - 1
              /\ dns' = [dns EXCEPT !.conf = dns.bak, !.bak = ""]
<1>1. /\ cmd # "none" /\ todo # <<>> /\ Head(todo) = "restoreConf"
  BY DEF Turn, RestoreConf, At
<1>2. CASE /\ dns.bak # "" /\ Advance
           /\ dns' = [dns EXCEPT !.conf = dns.bak, !.bak = ""]
  <2>1. Go /\ Head(todo') = "reload" /\ Len(todo') = Len(todo) - 1
    BY <1>1, <1>2, Stepping
  <2> QED BY <1>2, <2>1
<1>3. CASE dns.bak = "" /\ AdvanceWith(3, job) /\ UNCHANGED dns
  <2>1. PICK n : n = 3
    OBVIOUS
  <2>2. PICK j : j = job
    OBVIOUS
  <2>3. Len(todo) >= 3
    <3>1. PICK i : i = Len(Program[cmd]) - Len(todo) + 1
      OBVIOUS
    <3> QED BY <1>1, <3>1, Now DEF Ahead
  <2>4. /\ j \in Locals(pods.made) /\ AdvanceWith(n, j) /\ n \in 1..3
        /\ n <= Len(todo) /\ (job.uuid # 0 => j.uuid # 0)
    <3>1. j \in Locals(pods.made)
      BY <1>1, <2>2 DEF Turn
    <3>2. AdvanceWith(n, j)
      BY <1>3, <2>1, <2>2
    <3> QED BY <2>1, <2>2, <2>3, <3>1, <3>2
  <2>5. (n = 2 => Head(todo) = "deleteCluster")
        /\ (n = 3 => Head(todo) = "restoreConf")
        /\ (Head(todo) = "uuid" => j.uuid # 0)
    BY <1>1, <2>1
  <2>6. Return(TRUE) \/ (Go /\ Len(todo') = Len(todo) - n)
    BY <1>1, <2>4, <2>5, Forward
  <2>7. Return(TRUE) => Leave
    BY Returning
  <2>8. Len(todo) - n = Len(todo) - 3
    BY <2>1
  <2> QED BY <1>3, <2>6, <2>7, <2>8
<1> QED BY <1>2, <1>3 DEF RestoreConf

\* The steps that are about resolved.conf.
NetSteps == {"noBackup", "backUp", "writeConf", "reload", "restart",
             "restoreConf"}

\* Any other step.
Elsewhere == Head(todo) \notin NetSteps

\* The waits.
LEMMA Waiting ==
    ASSUME Turn, CommandType, Waits PROVE Moves /\ Elsewhere
<1>1. /\ cmd # "none" /\ ticks \in 0..Ticks
      /\ Head(todo) \in DOMAIN Awaited
  BY DEF Turn, Waits, CommandType
<1>2. Head(todo) # "uuid" /\ Elsewhere
  BY <1>1 DEF Awaited, Elsewhere, NetSteps
<1>3. PICK b : b = Awaited[Head(todo)]
  OBVIOUS
<1>4. Retry(b)
  BY <1>3 DEF Waits
<1> QED BY <1>1, <1>2, <1>4, Trying

\* The steps of the cluster and of ENiC.
LEMMA EdgeMoves ==
    ASSUME Turn,
           \/ CreateCluster \/ AddClusterLabels \/ GenKubeconfigEntry
           \/ RmKubeconfigEntry \/ UseOrch \/ UseEdgeCluster
           \/ PostTemplate \/ SetDefaultTemplate \/ DeployEnic
           \/ DeleteEnic \/ RegisterHost \/ NewInstance
           \/ BlockEnicTraffic
    PROVE  Moves /\ Elsewhere
<1>1. /\ cmd # "none" /\ Head(todo) # "uuid" /\ Elsewhere
  BY DEF Turn, At, Elsewhere, NetSteps, CreateCluster, AddClusterLabels,
         GenKubeconfigEntry, RmKubeconfigEntry, UseOrch, UseEdgeCluster,
         PostTemplate, SetDefaultTemplate, DeployEnic, DeleteEnic,
         RegisterHost, NewInstance, BlockEnicTraffic
<1>2. Advance \/ GiveUp
  BY DEF Require, CreateCluster, AddClusterLabels, GenKubeconfigEntry,
         RmKubeconfigEntry, UseOrch, UseEdgeCluster, PostTemplate,
         SetDefaultTemplate, DeployEnic, DeleteEnic, RegisterHost,
         NewInstance, BlockEnicTraffic
<1> QED BY <1>1, <1>2, Stepping, GivingUp DEF Moves

\* The steps of networks, pools and virtual machines.
LEMMA MachineMoves ==
    ASSUME Turn,
           \/ Apply \/ DestroyOrch \/ Virsh \/ DestroyNetwork \/ DestroyPool
           \/ Certificate \/ ApplyVen \/ UndefineVen
    PROVE  Moves /\ Elsewhere
<1>1. /\ cmd # "none" /\ Head(todo) # "uuid" /\ Elsewhere
  BY DEF Turn, At, Elsewhere, NetSteps, Apply, Applied, DestroyOrch, Virsh,
         DestroyNetwork, DestroyPool, Certificate, ApplyVen, UndefineVen
<1>2. Advance \/ GiveUp
  BY DEF Require, Apply, DestroyOrch, Virsh, DestroyNetwork, DestroyPool,
         Certificate, ApplyVen, UndefineVen
<1> QED BY <1>1, <1>2, Stepping, GivingUp DEF Moves

\* The steps of the end-to-end tests.
LEMMA TestMoves ==
    ASSUME Turn,
           \/ Onboard \/ Post \/ GetHost \/ PatchHost
           \/ UnsetMaintenanceMode
    PROVE  Moves /\ Elsewhere
<1>1. /\ cmd # "none" /\ Head(todo) # "uuid" /\ Elsewhere
  BY DEF Turn, At, Elsewhere, NetSteps, Onboard, Calls, Post, Posts,
         GetHost, PatchHost, UnsetMaintenanceMode, Undo
<1>2. Advance \/ GiveUp
  BY DEF Require, Onboard, Post, GetHost, PatchHost, UnsetMaintenanceMode
<1> QED BY <1>1, <1>2, Stepping, GivingUp DEF Moves

\* The steps that change resolved.conf.
LEMMA ResolverMoves ==
    ASSUME Turn, BackUpConf \/ WriteConf \/ RestartResolved
    PROVE  (Leave /\ Head(todo) # "writeConf") \/ Go
<1>1. cmd # "none" /\ Head(todo) # "uuid"
  BY DEF Turn, At, BackUpConf, WriteConf, RestartResolved
<1>2. Advance
  BY DEF BackUpConf, WriteConf, RestartResolved
<1> QED BY <1>1, <1>2, Stepping

\* A call that fails: the step goes on trying, the command ends, or the error
\* is printed and forgotten.
LEMMA FailMoves ==
    ASSUME Turn, CommandType, CallFails
    PROVE  Stay \/ Leave \/ Back \/ (Go /\ Head(todo) \in Forgiven)
<1>1. cmd # "none" /\ ticks \in 0..Ticks
  BY DEF CallFails, CommandType
<1>2. CASE Return(FALSE)
  BY <1>2, Returning
<1>3. CASE Head(todo) \in Forgiven /\ Advance
  <2>1. Head(todo) # "uuid"
    BY <1>3 DEF Forgiven
  <2> QED BY <1>1, <1>3, <2>1, Stepping
<1>4. CASE UNCHANGED command
  BY <1>1, <1>4 DEF Stay, command
<1>5. CASE /\ ticks > 0 /\ ticks' = ticks - 1
           /\ UNCHANGED <<cmd, arg, todo, job, ok, done>>
  BY <1>1, <1>5, EdgeNodeAssumption DEF Stay
<1>6. CASE GiveUp
  BY <1>6, GivingUp
<1> QED BY <1>2, <1>3, <1>4, <1>5, <1>6 DEF CallFails

-----------------------------------------------------------------------------
(* Steps and the types *)

\* The types of the running command.
LEMMA CommandTypes ==
    ASSUME CommandType, Moves, fails' \in 0..MaxFails PROVE CommandType'
  BY DEF CommandType, Moves, Stay, Leave, Go, Back

\* The steps of the cluster keep its type.
LEMMA NextCluster ==
    ASSUME Turn, Types,
           \/ DeleteCluster \/ CreateCluster \/ AddClusterLabels
    PROVE  ClustersType'
<1>1. /\ cmd # "none"
      /\ pods' = pods /\ project \in Projects /\ arg.labels \subseteq Labels
      /\ job.guid \in 0..pods.made
  <2>1. cmd # "none" /\ pods' = pods
    BY DEF DeleteCluster, CreateCluster, AddClusterLabels, At, Turn
  <2>2. job.guid \in 0..pods.made
    BY <2>1 DEF Turn, Locals
  <2> QED BY <2>1, <2>2, Ready DEF project
<1>2. PICK q \in Projects : q = project
  BY <1>1
<1>3. PICK c : c = clusters[q]
  OBVIOUS
<1>4. /\ clusters \in [Projects -> Cluster(pods.made)]
      /\ c \in Cluster(pods.made)
  BY <1>2, <1>3 DEF Types, ClustersType
<1>5. \/ clusters' = clusters
      \/ clusters' = [clusters EXCEPT ![q] = [c EXCEPT !.st = "deleting"]]
      \/ clusters' = [clusters EXCEPT ![q] =
                        [NoCluster EXCEPT !.st = "creating",
                                          !.node = job.guid]]
      \/ clusters' = [clusters EXCEPT ![q] =
                        [c EXCEPT !.labels = c.labels \cup arg.labels]]
  BY <1>2, <1>3 DEF DeleteCluster, CreateCluster, AddClusterLabels
<1>6. [c EXCEPT !.st = "deleting"] \in Cluster(pods.made)
  BY <1>4 DEF Cluster
<1>7. [NoCluster EXCEPT !.st = "creating", !.node = job.guid]
        \in Cluster(pods.made)
  BY <1>1 DEF Cluster, NoCluster
<1>8. [c EXCEPT !.labels = c.labels \cup arg.labels] \in Cluster(pods.made)
  BY <1>1, <1>4 DEF Cluster
<1> QED BY <1>1, <1>4, <1>5, <1>6, <1>7, <1>8 DEF ClustersType

\* ... and so do the cluster API's changes.
LEMMA NextChange ==
    ASSUME Turn, Types, ClusterChanges PROVE ClustersType'
<1>1. cmd # "none" /\ pods' = pods /\ project \in Projects
  BY Ready DEF ClusterChanges, project
<1>2. PICK q \in Projects : q = project
  BY <1>1
<1>3. PICK c : c = clusters[q]
  OBVIOUS
<1>4. /\ clusters \in [Projects -> Cluster(pods.made)]
      /\ c \in Cluster(pods.made) /\ pods.made \in Nat
  BY <1>2, <1>3 DEF Types, ClustersType, PodsType
<1>5. PICK d : d = CASE c.st = "creating" -> [c EXCEPT !.st = "ready"]
                     [] c.st = "ready"    -> [c EXCEPT !.agent = TRUE]
                     [] OTHER             -> NoCluster
  OBVIOUS
<1>6. clusters' = [clusters EXCEPT ![q] = d]
  BY <1>2, <1>3, <1>5 DEF ClusterChanges
<1>7. d \in {[c EXCEPT !.st = "ready"], [c EXCEPT !.agent = TRUE],
             NoCluster}
  <2>1. CASE c.st = "creating"
    BY <1>5, <2>1
  <2>2. CASE c.st = "ready"
    BY <1>5, <2>2
  <2>3. CASE c.st # "creating" /\ c.st # "ready"
    BY <1>5, <2>3
  <2> QED BY <2>1, <2>2, <2>3
<1>8. [c EXCEPT !.st = "ready"] \in Cluster(pods.made)
  BY <1>4 DEF Cluster
<1>9. [c EXCEPT !.agent = TRUE] \in Cluster(pods.made)
  BY <1>4 DEF Cluster
<1>10. NoCluster \in Cluster(pods.made)
  BY <1>4 DEF Cluster, NoCluster
<1>11. d \in Cluster(pods.made)
  BY <1>7, <1>8, <1>9, <1>10
<1> QED BY <1>1, <1>4, <1>6, <1>11 DEF ClustersType

\* The steps that change the kubeconfig, and the template.
LEMMA NextKube ==
    ASSUME Turn, Types,
           \/ GenKubeconfigEntry \/ RmKubeconfigEntry \/ UseOrch
           \/ UseEdgeCluster
    PROVE  KubeType'
<1>1. cmd # "none" /\ pods' = pods
  BY DEF GenKubeconfigEntry, RmKubeconfigEntry, UseOrch, UseEdgeCluster, At,
         Turn
<1>2. PICK q \in Projects : q = project
  BY <1>1, Ready DEF project
<1>3. PICK n : n = clusters[q].node
  OBVIOUS
<1>4. /\ kube \in Kube(pods.made) /\ n \in 0..pods.made
      /\ pods.made \in Nat
  BY <1>2, <1>3 DEF Types, ClustersType, Cluster, KubeType, PodsType
<1>5. \/ kube' = kube
      \/ kube' = [kube EXCEPT !.entry = [made |-> "whole", node |-> n]]
      \/ kube' = [kube EXCEPT !.entry = NoEntry]
      \/ kube' = [kube EXCEPT !.at = "orch"]
      \/ kube' = [kube EXCEPT !.at = "edge"]
  BY <1>2, <1>3 DEF GenKubeconfigEntry, RmKubeconfigEntry, UseOrch,
                    UseEdgeCluster
<1>6. [kube EXCEPT !.entry = [made |-> "whole", node |-> n]]
        \in Kube(pods.made)
  BY <1>4 DEF Kube
<1>7. [kube EXCEPT !.entry = NoEntry] \in Kube(pods.made)
  BY <1>4 DEF Kube, NoEntry
<1>8. /\ [kube EXCEPT !.at = "orch"] \in Kube(pods.made)
      /\ [kube EXCEPT !.at = "edge"] \in Kube(pods.made)
  BY <1>4 DEF Kube
<1> QED BY <1>1, <1>4, <1>5, <1>6, <1>7, <1>8 DEF KubeType

\* A host is registered or provisioned under the UUID of a pod.
LEMMA NextHosts ==
    ASSUME Turn, Types, RegisterHost \/ NewInstance PROVE HostsType'
<1>1. /\ cmd # "none" /\ pods' = pods
      /\ Head(todo) \in {"register", "instance"}
  BY DEF RegisterHost, NewInstance, At, Turn
<1>2. PICK q \in Projects : q = project
  BY <1>1, Ready DEF project
<1>3. PICK u \in 1..pods.made : u = job.uuid
  <2>1. job \in Locals(pods.made) /\ job.uuid # 0
    BY <1>1, Ready
  <2> QED BY <2>1 DEF Locals, Types, PodsType
<1>4. PICK h : h = hosts[q]
  OBVIOUS
<1>5. hosts \in [Projects -> Host(pods.made)] /\ h \in Host(pods.made)
  BY <1>2, <1>4 DEF Types, HostsType
<1>6. \/ hosts' = hosts
      \/ hosts' = [hosts EXCEPT ![q] = [h EXCEPT !.reg = h.reg \cup {u}]]
      \/ hosts' = [hosts EXCEPT ![q] = [h EXCEPT !.inst = h.inst \cup {u}]]
  BY <1>2, <1>3, <1>4 DEF RegisterHost, NewInstance
<1>7. /\ [h EXCEPT !.reg = h.reg \cup {u}] \in Host(pods.made)
      /\ [h EXCEPT !.inst = h.inst \cup {u}] \in Host(pods.made)
  BY <1>5 DEF Host
<1> QED BY <1>1, <1>5, <1>6, <1>7 DEF HostsType

\* The ways in which ENiC is taken away.
LEMMA Dropped ==
    ASSUME Types PROVE /\ DOMAIN DropPod(enic) = DOMAIN enic
                       /\ DropPod(enic).pod = 0
                       /\ DropPod(enic).project = enic.project
<1>1. /\ "pod" \in DOMAIN enic /\ "project" \in DOMAIN enic
      /\ "agent" \in DOMAIN enic
  BY DEF Types, EnicType
<1>2. DropPod(enic) = [enic EXCEPT !.pod = 0, !.agent = FALSE]
  BY DEF DropPod
<1> QED BY <1>1, <1>2

\* The steps of ENiC.
LEMMA NextEnic ==
    ASSUME Turn, Types, DeployEnic \/ DeleteEnic \/ BlockEnicTraffic
    PROVE  EnicType'
<1>1. cmd # "none" /\ pods' = pods /\ pods.made \in Nat
  BY DEF DeployEnic, DeleteEnic, BlockEnicTraffic, At, Turn, Types, PodsType
<1>2. project \in Projects
  BY <1>1, Ready DEF project
<1>3. CASE DeployEnic
  BY <1>1, <1>2, <1>3 DEF DeployEnic, EnicType, Types
<1>4. CASE DeleteEnic
  <2>1. EnicType
    BY DEF Types
  <2>2. CASE enic' = Uninstall(enic)
    BY <1>1, <2>1, <2>2 DEF EnicType, Uninstall
  <2>3. CASE enic' = DropSet(enic)
    BY <1>1, <2>1, <2>3 DEF EnicType, DropSet
  <2>4. CASE enic' = DropPod(enic)
    <3>1. DOMAIN enic' = DOMAIN enic /\ enic'.pod = 0
      BY <2>4, Dropped
    <3>2. enic'.project = enic.project /\ 0 \in 0..pods.made
      BY <1>1, <2>4, Dropped
    <3> QED BY <1>1, <2>1, <3>1, <3>2 DEF EnicType
  <2> QED BY <1>4, <2>2, <2>3, <2>4 DEF DeleteEnic
<1>5. CASE BlockEnicTraffic
  BY <1>1, <1>5 DEF BlockEnicTraffic, EnicType, Types
<1> QED BY <1>3, <1>4, <1>5

\* The steps of networks, pools and virtual machines.
LEMMA NextMachine ==
    ASSUME Turn, Types,
           \/ Apply \/ DestroyOrch \/ Virsh \/ DestroyNetwork \/ DestroyPool
           \/ Certificate \/ ApplyVen \/ UndefineVen
    PROVE  TfType' /\ VmsType'
<1>1. TfType /\ VmsType
  BY DEF Types
<1>2. CASE Apply
  <2>1. PICK x : x = Applied[Head(todo)]
    OBVIOUS
  <2>2. x \in {"network", "pool", "orch"}
    BY <1>2, <2>1 DEF Apply, Applied
  <2>3. /\ tf' = tf \/ tf' = tf \cup {x}
        /\ vms' \subseteq vms \cup {"orch"}
        /\ disks' \subseteq disks \cup {"orch"}
    BY <1>2, <2>1 DEF Apply
  <2> QED BY <1>1, <2>2, <2>3 DEF TfType, VmsType
<1>3. CASE DestroyOrch
  BY <1>1, <1>3 DEF DestroyOrch, TfType, VmsType
<1>4. CASE Virsh \/ DestroyNetwork \/ DestroyPool \/ Certificate
  BY <1>1, <1>4 DEF Virsh, VirshUndefine, DestroyNetwork, DestroyPool,
                    Certificate, world, machine, TfType, VmsType
<1>5. CASE ApplyVen
  <2>1. arg.serial \in Serials
    BY <1>5, Ready DEF ApplyVen, At, Turn
  <2>2. /\ vms' \subseteq vms \cup {arg.serial}
        /\ disks' \subseteq disks \cup {arg.serial} /\ tf' = tf
    BY <1>5 DEF ApplyVen
  <2> QED BY <1>1, <2>1, <2>2 DEF TfType, VmsType
<1>6. CASE UndefineVen
  BY <1>1, <1>6 DEF UndefineVen, TfType, VmsType
<1> QED BY <1>2, <1>3, <1>4, <1>5, <1>6

\* The steps of the end-to-end tests.
LEMMA NextTests ==
    ASSUME Turn, Types,
           \/ Onboard \/ Post \/ GetHost \/ PatchHost
           \/ UnsetMaintenanceMode
    PROVE  NodeType' /\ MmType'
<1>1. node \in Node /\ mm \in Maintenance
  BY DEF Types, NodeType, MmType
<1>2. CASE Onboard
  <2>1. \A s \in DOMAIN Calls : Calls[s] \in Node
    <3>1. /\ [node EXCEPT !.st = "onboarded"] \in Node
          /\ [node EXCEPT !.st = "registered"] \in Node
          /\ [node EXCEPT !.st = "deleting"] \in Node
      BY <1>1 DEF Node
    <3>2. /\ [node EXCEPT !.inst = "posted"] \in Node
          /\ [node EXCEPT !.inst = "none"] \in Node
      BY <1>1 DEF Node
    <3> QED BY <3>1, <3>2 DEF Calls
  <2>2. node' \in Node /\ mm' = mm
    BY <1>2, <2>1 DEF Onboard
  <2> QED BY <1>1, <2>2 DEF NodeType, MmType
<1>3. CASE Post
  <2>1. PICK x : x = Posts[Head(todo)]
    OBVIOUS
  <2>2. x \in {"region", "site", "schedule"}
    BY <1>3, <2>1 DEF Post, Posts
  <2>3. mm' = [mm EXCEPT !.made = mm.made \cup {x},
                         !.ids = mm.ids \cup {x}]
    BY <1>3, <2>1 DEF Post, Record
  <2>4. mm' \in Maintenance /\ node' = node
    <3>1. PICK d \in SUBSET {"region", "site", "hosted", "schedule"} :
            d = mm.made \cup {x}
      BY <1>1, <2>2 DEF Maintenance
    <3>2. PICK e \in SUBSET {"region", "site", "host", "schedule"} :
            e = mm.ids \cup {x}
      BY <1>1, <2>2 DEF Maintenance
    <3>3. [mm EXCEPT !.made = d, !.ids = e] \in Maintenance
      BY <1>1 DEF Maintenance
    <3> QED BY <1>3, <2>3, <3>1, <3>2, <3>3 DEF Post
  <2> QED BY <1>1, <2>4 DEF NodeType, MmType
<1>4. CASE GetHost
  <2>1. mm' = mm \/ mm' = [mm EXCEPT !.ids = mm.ids \cup {"host"}]
    BY <1>4 DEF GetHost
  <2>2. mm' \in Maintenance /\ node' = node
    BY <1>1, <1>4, <2>1 DEF GetHost, Maintenance
  <2> QED BY <1>1, <2>2 DEF NodeType, MmType
<1>5. CASE PatchHost
  <2>1. mm' = [mm EXCEPT !.made = mm.made \cup {"hosted"}]
    BY <1>5 DEF PatchHost
  <2>2. mm' \in Maintenance /\ node' = node
    BY <1>1, <1>5, <2>1 DEF PatchHost, Maintenance
  <2> QED BY <1>1, <2>2 DEF NodeType, MmType
<1>6. CASE UnsetMaintenanceMode
  <2>1. PICK g : g = Undo[Head(todo)].gone
    OBVIOUS
  <2>2. mm' = mm \/ mm' = [mm EXCEPT !.made = mm.made \ {g}]
    BY <1>6, <2>1 DEF UnsetMaintenanceMode
  <2>3. mm' \in Maintenance /\ node' = node
    BY <1>1, <1>6, <2>2 DEF UnsetMaintenanceMode, Maintenance
  <2> QED BY <1>1, <2>3 DEF NodeType, MmType
<1> QED BY <1>2, <1>3, <1>4, <1>5, <1>6

\* A call that fails half way.
LEMMA NextFails ==
    ASSUME Turn, Types, CallFails
    PROVE  /\ EnicType' /\ PodsType' /\ HostsType' /\ ClustersType'
           /\ TemplateType' /\ KubeType' /\ TfType' /\ VmsType'
           /\ NodeType' /\ MmType'
<1>1. cmd # "none" /\ Half
  BY DEF CallFails
<1>2. PICK q \in Projects : q = project
  BY <1>1, Ready DEF project
<1>3. /\ job.guid \in 0..pods.made /\ pods.made \in Nat
      /\ Head(todo) \in {"register", "instance"} =>
           job.uuid \in 1..pods.made
  <2>1. job \in Locals(pods.made) /\ pods.made \in Nat
    BY <1>1, Ready DEF Types, PodsType
  <2>2. Head(todo) \in {"register", "instance"} => job.uuid # 0
    BY <1>1, Ready
  <2> QED BY <2>1, <2>2 DEF Locals
<1>4. CASE UNCHANGED <<enic, pods, hosts, clusters, template, kube, tf, vms,
                       disks, node, mm>>
  BY <1>4 DEF Types, EnicType, PodsType, HostsType, ClustersType,
              TemplateType, KubeType, TfType, VmsType, NodeType, MmType
<1>5. CASE /\ clusters' = [clusters EXCEPT ![project].st = "creating",
                                           ![project].node = job.guid]
           /\ UNCHANGED <<enic, pods, hosts, template, kube, tf, vms,
                          disks, node, mm>>
  <2>1. PICK c : c = clusters[q]
    OBVIOUS
  <2>2. /\ clusters \in [Projects -> Cluster(pods.made)]
        /\ c \in Cluster(pods.made)
    BY <1>2, <2>1 DEF Types, ClustersType
  <2>3. clusters' = [clusters EXCEPT ![q] = [c EXCEPT !.st = "creating",
                                                     !.node = job.guid]]
    BY <1>2, <1>5, <2>1, <2>2
  <2>4. [c EXCEPT !.st = "creating", !.node = job.guid]
          \in Cluster(pods.made)
    BY <1>3, <2>2 DEF Cluster
  <2>5. ClustersType'
    BY <1>5, <2>2, <2>3, <2>4 DEF ClustersType
  <2> QED BY <1>5, <2>5 DEF Types, EnicType, PodsType, HostsType,
             TemplateType, KubeType, TfType, VmsType, NodeType, MmType
<1>6. CASE /\ kube' = [kube EXCEPT !.entry.made = "part"]
           /\ UNCHANGED <<enic, pods, hosts, clusters, template, tf, vms, disks,
                          node, mm>>
  <2>1. kube \in Kube(pods.made)
    BY DEF Types, KubeType
  <2>2. KubeType'
    BY <1>6, <2>1 DEF KubeType, Kube
  <2> QED BY <1>6, <2>2 DEF Types, EnicType, PodsType, HostsType,
             ClustersType, TemplateType, TfType, VmsType, NodeType, MmType
<1>7. CASE /\ Head(todo) = "register"
           /\ hosts' = [hosts EXCEPT ![project].reg = @ \cup {job.uuid}]
           /\ UNCHANGED <<enic, pods, clusters, template, kube, tf, vms, disks,
                          node, mm>>
  <2>1. PICK u \in 1..pods.made : u = job.uuid
    BY <1>3, <1>7
  <2>2. PICK h : h = hosts[q]
    OBVIOUS
  <2>3. hosts \in [Projects -> Host(pods.made)] /\ h \in Host(pods.made)
    BY <1>2, <2>2 DEF Types, HostsType
  <2>4. hosts' = [hosts EXCEPT ![q] = [h EXCEPT !.reg = h.reg \cup {u}]]
    BY <1>2, <1>7, <2>1, <2>2
  <2>5. [h EXCEPT !.reg = h.reg \cup {u}] \in Host(pods.made)
    BY <2>3 DEF Host
  <2>6. HostsType'
    BY <1>7, <2>3, <2>4, <2>5 DEF HostsType
  <2> QED BY <1>7, <2>6 DEF Types, EnicType, PodsType, ClustersType,
             TemplateType, KubeType, TfType, VmsType, NodeType, MmType
<1>8. CASE /\ TfType' /\ VmsType'
           /\ UNCHANGED <<enic, pods, hosts, clusters, template, kube, node,
                          mm>>
  BY <1>8 DEF Types, EnicType, PodsType, HostsType, ClustersType,
              TemplateType, KubeType, NodeType, MmType
<1>9. CASE /\ MmType'
           /\ UNCHANGED <<enic, pods, hosts, clusters, template, kube, tf,
                          vms, disks, node>>
  BY <1>9 DEF Types, EnicType, PodsType, HostsType, ClustersType,
              TemplateType, KubeType, TfType, VmsType, NodeType
<1>10. ASSUME /\ Head(todo) \in DOMAIN Posts
              /\ mm' = [mm EXCEPT !.made = @ \cup {Posts[Head(todo)]},
                                  !.lost = TRUE]
       PROVE  MmType'
  <2>1. PICK x : x = Posts[Head(todo)]
    OBVIOUS
  <2>2. x \in {"region", "site", "schedule"}
    BY <1>10, <2>1 DEF Posts
  <2>3. mm \in Maintenance
    BY DEF Types, MmType
  <2>4. PICK d \in SUBSET {"region", "site", "hosted", "schedule"} :
          d = mm.made \cup {x}
    BY <2>2, <2>3 DEF Maintenance
  <2>5. mm' = [mm EXCEPT !.made = d, !.lost = TRUE]
    BY <1>10, <2>1, <2>4
  <2>6. [mm EXCEPT !.made = d, !.lost = TRUE] \in Maintenance
    BY <2>3 DEF Maintenance
  <2> QED BY <2>5, <2>6 DEF MmType
<1>11. ASSUME mm' = [mm EXCEPT !.made = @ \cup {"hosted"}]
       PROVE  MmType'
  BY <1>11 DEF Types, MmType, Maintenance
<1>12. ASSUME tf' \subseteq tf \cup {"pool"},
              NEW x \in {"orch"} \cup Serials,
              vms' \subseteq vms \cup {x},
              disks' \subseteq disks \cup {x, "lost"}
       PROVE  TfType' /\ VmsType'
  BY <1>12 DEF Types, TfType, VmsType
<1>13. QED
  <2> USE DEF world, edge, machine, tests, At
  <2>1. CASE UNCHANGED world
    BY <1>4, <2>1
  <2>2. CASE /\ At("createCluster")
             /\ clusters' = [clusters EXCEPT ![project].st = "creating",
                                             ![project].node = job.guid]
             /\ UNCHANGED <<enic, pods, hosts, template, kube, machine,
                            tests>>
    BY <1>5, <2>2
  <2>3. CASE /\ At("genEntry")
             /\ kube' = [kube EXCEPT !.entry.made = "part"]
             /\ UNCHANGED <<enic, pods, hosts, clusters, template, machine,
                            tests>>
    BY <1>6, <2>3
  <2>4. CASE /\ At("register")
             /\ hosts' = [hosts EXCEPT ![project].reg = @ \cup {job.uuid}]
             /\ UNCHANGED <<enic, pods, clusters, template, kube, machine,
                            tests>>
    BY <1>7, <2>4
  <2>5. CASE /\ tf' \subseteq tf \cup {"pool"}
             /\ vms' \subseteq vms \cup {"orch"}
             /\ disks' \subseteq disks \cup {"orch", "lost"}
             /\ UNCHANGED <<edge, dns, tests>>
    BY <1>8, <1>12, <2>5
  <2>9. CASE /\ At("applyVen") /\ disks' = disks \cup {arg.serial}
             /\ vms' \in {vms, vms \cup {arg.serial}}
             /\ UNCHANGED <<edge, tf, dns, tests>>
    <3>1. arg.serial \in Serials
      BY <1>1, <2>9, Ready DEF Turn
    <3>2. /\ tf' \subseteq tf \cup {"pool"}
          /\ vms' \subseteq vms \cup {arg.serial}
          /\ disks' \subseteq disks \cup {arg.serial, "lost"}
      BY <2>9
    <3> QED BY <1>8, <1>12, <2>9, <3>1, <3>2
  <2>6. CASE UNCHANGED <<edge, tf, vms, disks, tests>>
    BY <1>4, <2>6
  <2>7. CASE /\ Head(todo) \in DOMAIN Posts
             /\ mm' = [mm EXCEPT !.made = @ \cup {Posts[Head(todo)]},
                                 !.lost = TRUE]
             /\ UNCHANGED <<edge, machine, node>>
    BY <1>9, <1>10, <2>7
  <2>8. CASE /\ mm' = [mm EXCEPT !.made = @ \cup {"hosted"}]
             /\ UNCHANGED <<edge, machine, node>>
    BY <1>9, <1>11, <2>8
  <2> QED BY <1>1, <2>1, <2>2, <2>3, <2>4, <2>5, <2>6, <2>7, <2>8, <2>9
          DEF Half

\* Failed calls are counted up to the bound.
LEMMA Failing ==
    ASSUME CommandType PROVE /\ UNCHANGED fails => fails' \in 0..MaxFails
                             /\ Fault => fails' \in 0..MaxFails
  BY EdgeNodeAssumption DEF CommandType, Fault

\* Every step moves its command in one of these ways.
LEMMA StepMoves ==
    ASSUME Turn, Types, Step PROVE Moves /\ UNCHANGED <<pods, clean, fails>>
<1>1. CommandType /\ EnicType /\ PodsType
  BY DEF Types
<1>2. CASE \/ Reads \/ Users \/ ReadUuid \/ AppReady \/ Waits
  BY <1>1, <1>2, Reading, FindUsers, Uuid, AppComes, Waiting
     DEF Reads, Users, ReadUuid, AppReady, Waits, world, edge, same
<1>3. CASE \/ DeleteCluster \/ CreateCluster \/ AddClusterLabels
           \/ GenKubeconfigEntry \/ RmKubeconfigEntry \/ UseOrch
           \/ UseEdgeCluster
  BY <1>3, Deleting, EdgeMoves
     DEF DeleteCluster, CreateCluster, AddClusterLabels,
         GenKubeconfigEntry, RmKubeconfigEntry, UseOrch, UseEdgeCluster, same
<1>4. CASE \/ PostTemplate \/ SetDefaultTemplate \/ DeployEnic
           \/ DeleteEnic \/ RegisterHost \/ NewInstance \/ BlockEnicTraffic
  BY <1>4, EdgeMoves
     DEF PostTemplate, SetDefaultTemplate, DeployEnic, DeleteEnic,
         RegisterHost, NewInstance, BlockEnicTraffic, same
<1>5. CASE \/ Apply \/ DestroyOrch \/ Virsh \/ DestroyNetwork \/ DestroyPool
           \/ Certificate \/ ApplyVen \/ UndefineVen
  BY <1>5, MachineMoves
     DEF Apply, DestroyOrch, Virsh, DestroyNetwork, DestroyPool, Certificate,
         ApplyVen, UndefineVen, world, edge, same
<1>6. CASE \/ RestoreConf \/ BackUpConf \/ WriteConf \/ RestartResolved
  BY <1>6, RestoringMoves, ResolverMoves
     DEF RestoreConf, BackUpConf, WriteConf, RestartResolved, Moves, edge,
         same
<1>7. CASE \/ Onboard \/ Post \/ GetHost \/ PatchHost
           \/ UnsetMaintenanceMode
  BY <1>7, TestMoves
     DEF Onboard, Post, GetHost, PatchHost, UnsetMaintenanceMode, edge, same
<1> QED BY <1>2, <1>3, <1>4, <1>5, <1>6, <1>7 DEF Step

\* Every step keeps the types.
LEMMA StepTypes ==
    ASSUME Turn, Types, Step
    PROVE  /\ EnicType' /\ PodsType' /\ HostsType' /\ ClustersType'
           /\ TemplateType' /\ KubeType' /\ TfType' /\ VmsType'
           /\ NodeType' /\ MmType'
<1> USE DEF EnicType, PodsType, HostsType, ClustersType, TemplateType,
            KubeType, TfType, VmsType, NodeType, MmType, world, edge,
            machine, tests
<1>1. UNCHANGED pods
  BY StepMoves
<1>2. /\ EnicType /\ PodsType /\ HostsType /\ ClustersType /\ TemplateType
      /\ KubeType /\ TfType /\ VmsType /\ NodeType /\ MmType
  BY DEF Types
<1>3. CASE \/ Reads \/ Users \/ ReadUuid \/ AppReady \/ Waits \/ Certificate
  BY <1>2, <1>3 DEF Reads, Users, ReadUuid, AppReady, Waits, Certificate
<1>4. CASE DeleteCluster \/ CreateCluster \/ AddClusterLabels
  <2>1. ClustersType'
    BY <1>4, NextCluster
  <2> HIDE DEF ClustersType
  <2> QED BY <1>2, <1>4, <2>1
          DEF DeleteCluster, CreateCluster, AddClusterLabels
<1>5. CASE \/ GenKubeconfigEntry \/ RmKubeconfigEntry \/ UseOrch
           \/ UseEdgeCluster
  <2>1. KubeType'
    BY <1>5, NextKube
  <2> HIDE DEF KubeType
  <2> QED BY <1>2, <1>5, <2>1
          DEF GenKubeconfigEntry, RmKubeconfigEntry, UseOrch, UseEdgeCluster
<1>6. CASE PostTemplate \/ SetDefaultTemplate
  <2>1. template' \in {template, "made", "default"}
    BY <1>6 DEF PostTemplate, SetDefaultTemplate
  <2> QED BY <1>2, <1>6, <2>1 DEF PostTemplate, SetDefaultTemplate
<1>7. CASE DeployEnic \/ DeleteEnic \/ BlockEnicTraffic
  <2>1. EnicType'
    BY <1>7, NextEnic
  <2> HIDE DEF EnicType
  <2> QED BY <1>2, <1>7, <2>1 DEF DeployEnic, DeleteEnic, BlockEnicTraffic
<1>8. CASE RegisterHost \/ NewInstance
  <2>1. HostsType'
    BY <1>8, NextHosts
  <2> HIDE DEF HostsType
  <2> QED BY <1>2, <1>8, <2>1 DEF RegisterHost, NewInstance
<1>9. CASE \/ Apply \/ DestroyOrch \/ Virsh \/ DestroyNetwork \/ DestroyPool
           \/ ApplyVen \/ UndefineVen
  <2>1. TfType' /\ VmsType'
    BY <1>9, NextMachine
  <2> HIDE DEF TfType, VmsType
  <2> QED BY <1>2, <1>9, <2>1
          DEF Apply, DestroyOrch, Virsh, DestroyNetwork, DestroyPool, ApplyVen,
              UndefineVen
<1>10. CASE \/ RestoreConf \/ BackUpConf \/ WriteConf \/ RestartResolved
  BY <1>2, <1>10 DEF RestoreConf, BackUpConf, WriteConf, RestartResolved
<1>11. CASE \/ Onboard \/ Post \/ GetHost \/ PatchHost
            \/ UnsetMaintenanceMode
  <2>1. NodeType' /\ MmType'
    BY <1>11, NextTests
  <2> HIDE DEF NodeType, MmType
  <2> QED BY <1>2, <1>11, <2>1
          DEF Onboard, Post, GetHost, PatchHost, UnsetMaintenanceMode
<1> QED BY <1>3, <1>4, <1>5, <1>6, <1>7, <1>8, <1>9, <1>10, <1>11 DEF Step

\* ... and so does what goes on by itself.
LEMMA SurroundingTypes ==
    ASSUME Turn, Types, Surroundings
    PROVE  Types' /\ pods.made \in Nat /\ pods'.made \in Nat
             /\ pods.made <= pods'.made
<1> USE DEF machine, tests, same, command
<1>1. /\ EnicType /\ PodsType /\ HostsType /\ ClustersType /\ TemplateType
      /\ KubeType /\ TfType /\ VmsType /\ NodeType /\ MmType
      /\ clean \in BOOLEAN /\ CommandType
      /\ pods.made \in Nat
  BY DEF Types, PodsType
<1>2. CASE ClusterChanges
  <2>1. ClustersType'
    BY <1>2, NextChange
  <2>2. UNCHANGED <<enic, pods, hosts, template, kube, machine, tests, same,
                    command>>
    BY <1>2 DEF ClusterChanges
  <2>3. EnicType' /\ PodsType' /\ HostsType' /\ KubeType'
    BY <1>1, <2>2 DEF EnicType, PodsType, HostsType, KubeType
  <2>4. /\ TemplateType' /\ TfType' /\ VmsType' /\ NodeType' /\ MmType'
        /\ clean' \in BOOLEAN /\ CommandType'
    BY <1>1, <2>2 DEF TemplateType, TfType, VmsType, NodeType, MmType,
                      CommandType
  <2>5. pods' = pods
    BY <2>2
  <2> QED BY <1>1, <2>1, <2>3, <2>4, <2>5 DEF Types
<1>3. CASE ArgoCD \/ AgentRuns
  <2>1. EnicType'
    BY <1>1, <1>3 DEF ArgoCD, AgentRuns, EnicType
  <2>2. UNCHANGED <<pods, hosts, clusters, template, kube, machine, tests,
                    same, command>>
    BY <1>3 DEF ArgoCD, AgentRuns
  <2>3. PodsType' /\ HostsType' /\ ClustersType' /\ KubeType'
    BY <1>1, <2>2 DEF PodsType, HostsType, ClustersType, KubeType
  <2>4. /\ TemplateType' /\ TfType' /\ VmsType' /\ NodeType' /\ MmType'
        /\ clean' \in BOOLEAN /\ CommandType'
    BY <1>1, <2>2 DEF TemplateType, TfType, VmsType, NodeType, MmType,
                      CommandType
  <2>5. pods' = pods
    BY <2>2
  <2>6. Types'
    BY <2>1, <2>3, <2>4 DEF Types
  <2>7. pods'.made = pods.made
    BY <2>5
  <2> QED BY <1>1, <2>6, <2>7
<1>4. CASE Inventory
  <2>1. /\ [node EXCEPT !.inst = "linked"] \in Node
        /\ [node EXCEPT !.flow = TRUE] \in Node
        /\ [node EXCEPT !.st = "none"] \in Node
    BY <1>1 DEF NodeType, Node
  <2>2. NodeType'
    BY <1>4, <2>1 DEF Inventory, NodeType
  <2>3. UNCHANGED <<edge, machine, mm, same, command>>
    BY <1>4 DEF Inventory
  <2>4. EnicType' /\ PodsType' /\ HostsType' /\ ClustersType' /\ KubeType'
    BY <1>1, <2>3 DEF edge, EnicType, PodsType, HostsType, ClustersType,
                      KubeType
  <2>5. /\ TemplateType' /\ TfType' /\ VmsType' /\ MmType'
        /\ clean' \in BOOLEAN /\ CommandType'
    BY <1>1, <2>3 DEF edge, TemplateType, TfType, VmsType, MmType,
                      CommandType
  <2>6. pods' = pods
    BY <2>3 DEF edge
  <2> QED BY <1>1, <2>2, <2>4, <2>5, <2>6 DEF Types
<1>5. CASE PodLost
  <2>1. /\ enic' = DropPod(enic) /\ pods' = [pods EXCEPT !.at = done]
        /\ UNCHANGED <<hosts, clusters, template, kube, machine, tests,
                       clean, family, command>>
        /\ fails' \in 0..MaxFails
    BY <1>1, <1>5, Failing DEF PodLost
  <2>2. pods'.made = pods.made /\ PodsType'
    BY <1>1, <2>1 DEF PodsType, CommandType
  <2>3. EnicType'
    <3>1. DOMAIN enic' = DOMAIN enic /\ enic'.pod = 0
      BY <2>1, Dropped
    <3>2. enic'.project = enic.project /\ 0 \in 0..pods.made
      BY <1>1, <2>1, Dropped
    <3> QED BY <1>1, <2>2, <3>1, <3>2 DEF EnicType
  <2>4. CommandType'
    BY <1>1, <2>1 DEF CommandType
  <2> QED BY <1>1, <2>1, <2>2, <2>3, <2>4
          DEF Types, HostsType, ClustersType, TemplateType, KubeType, TfType,
              VmsType, NodeType, MmType
<1>6. CASE PodStarts
  <2>1. /\ enic' = [enic EXCEPT !.pod = pods.made + 1]
        /\ pods' = [pods EXCEPT !.made = pods.made + 1]
        /\ UNCHANGED <<hosts, clusters, template, kube, machine, tests, same,
                       command>>
    BY <1>6 DEF PodStarts
  <2>2. pods'.made = pods.made + 1 /\ PodsType'
    BY <1>1, <2>1 DEF PodsType
  <2>3. PICK n : n = pods'.made
    OBVIOUS
  <2>4. n \in Nat /\ n = pods.made + 1 /\ pods.made <= n
    BY <1>1, <2>2, <2>3
  <2>5. EnicType'
    <3>1. /\ DOMAIN enic' = DOMAIN enic /\ enic'.pod = n
          /\ enic'.project = enic.project
      BY <1>1, <2>1, <2>4 DEF EnicType
    <3>2. n \in 0..n
      BY <2>4
    <3> QED BY <1>1, <2>3, <3>1, <3>2 DEF EnicType
  <2>6. HostsType'
    <3>1. Host(pods.made) \subseteq Host(n)
      BY <1>1, <2>4 DEF Host
    <3>2. hosts \in [Projects -> Host(n)]
      BY <1>1, <3>1 DEF HostsType
    <3> QED BY <2>1, <2>3, <3>2 DEF HostsType
  <2>7. ClustersType'
    <3>1. Cluster(pods.made) \subseteq Cluster(n)
      BY <1>1, <2>4 DEF Cluster
    <3>2. clusters \in [Projects -> Cluster(n)]
      BY <1>1, <3>1 DEF ClustersType
    <3> QED BY <2>1, <2>3, <3>2 DEF ClustersType
  <2>8. KubeType'
    <3>1. Kube(pods.made) \subseteq Kube(n)
      BY <1>1, <2>4 DEF Kube
    <3> QED BY <1>1, <2>1, <2>3, <3>1 DEF KubeType
  <2>9. /\ TemplateType' /\ TfType' /\ VmsType' /\ NodeType' /\ MmType'
        /\ clean' \in BOOLEAN /\ CommandType'
    BY <1>1, <2>1 DEF TemplateType, TfType, VmsType, NodeType, MmType,
                      CommandType
  <2> QED BY <1>1, <2>2, <2>5, <2>6, <2>7, <2>8, <2>9 DEF Types
<1>7. pods.made <= pods'.made /\ pods'.made \in Nat
  <2>1. \/ pods' = pods \/ pods' = [pods EXCEPT !.made = pods.made + 1]
        \/ pods' = [pods EXCEPT !.at = done]
    BY DEF Surroundings, ArgoCD, PodStarts, PodLost, AgentRuns,
           ClusterChanges, Inventory, edge
  <2> QED BY <1>1, <2>1 DEF PodsType
<1> QED BY <1>1, <1>2, <1>3, <1>4, <1>5, <1>6, <1>7 DEF Surroundings

\* ... and a command that starts.
LEMMA Starting ==
    ASSUME Turn, Types, NEW c \in DOMAIN Program, NEW a \in Args(c),
           Start(c, a)
    PROVE  /\ Turn' /\ Types' /\ UNCHANGED <<dns, fails>> /\ cmd = "none"
           /\ todo = <<>>
           /\ todo' # <<>> /\ Head(todo') \notin {"backUp", "writeConf"}
<1>1. /\ Begin(c, a, Program[c], NewJob) /\ clean' = TRUE
      /\ node' = NoNode /\ mm' \in {mm, NoMaintenance}
      /\ UNCHANGED <<edge, machine, fails, family>>
  BY DEF Start
<1>2. /\ cmd = "none" /\ cmd' = c /\ arg' = a /\ todo' = Program[c]
      /\ job' = NewJob /\ ticks' = Ticks /\ done' = done + 1
      /\ done < MaxCommands /\ ok' = ok
  BY <1>1 DEF Begin
<1>3. PICK p : p = Program[c]
  OBVIOUS
<1>4. c \in Commands /\ p \in Seq(AllSteps) /\ Linked(p)
  BY <1>3, Named, ProgramsAre
<1>5. c # "none"
  BY <1>4 DEF Commands
<1>6. Len(p) \in Nat /\ Len(p) > 0 /\ p # <<>> /\ Head(p) = p[1]
  BY <1>4 DEF Linked
<1>7. Rest(p, p)
  <2>1. \A i \in 1..Len(p) : Len(p) - Len(p) + i = i
    BY <1>6
  <2> QED BY <1>6, <2>1 DEF Rest
<1>8. /\ EnicType /\ PodsType /\ HostsType /\ ClustersType /\ TemplateType
      /\ KubeType /\ TfType /\ VmsType /\ NodeType /\ MmType
      /\ clean \in BOOLEAN /\ CommandType
      /\ pods.made \in Nat
  BY DEF Types, PodsType
<1>9. NewJob \in Locals(pods.made)
  BY <1>8, EdgeNodeAssumption DEF NewJob, Locals
<1>10. ~Passed("uuid")'
  <2>1. cmd' = c /\ todo' = p /\ Program[c] = p
    BY <1>2, <1>3
  <2>2. 1..(Len(p) - Len(p)) = {}
    BY <1>6
  <2> QED BY <2>1, <2>2 DEF Passed
<1>11. UNCHANGED <<enic, pods, hosts, clusters, template, kube, tf, vms,
                   disks, dns>>
  BY <1>1 DEF edge, machine
<1>12. Turn'
  BY <1>2, <1>3, <1>4, <1>5, <1>6, <1>7, <1>9, <1>10, <1>11 DEF Turn
<1>13. EnicType' /\ PodsType' /\ HostsType' /\ ClustersType' /\ KubeType'
  BY <1>8, <1>11 DEF EnicType, PodsType, HostsType, ClustersType, KubeType
<1>14. TemplateType' /\ TfType' /\ VmsType' /\ clean' \in BOOLEAN
  BY <1>1, <1>8, <1>11 DEF TemplateType, TfType, VmsType
<1>15. NodeType'
  BY <1>1 DEF NodeType, Node, NoNode
<1>16. MmType'
  <2>1. NoMaintenance \in Maintenance
    BY DEF Maintenance, NoMaintenance
  <2>2. mm \in Maintenance
    BY <1>8 DEF MmType
  <2> QED BY <1>1, <2>1, <2>2 DEF MmType
<1>17. CommandType'
  BY <1>1, <1>2, <1>8, EdgeNodeAssumption DEF CommandType
<1>18. Head(todo') \notin {"backUp", "writeConf"}
  <2>1. Behind(p, 1)
    BY <1>6, <1>4 DEF Linked
  <2> QED BY <1>2, <1>3, <1>6, <2>1 DEF Behind
<1>19. todo = <<>> /\ todo' # <<>>
  BY <1>2, <1>3, <1>6 DEF Turn
<1> QED BY <1>1, <1>2, <1>11, <1>12, <1>13, <1>14, <1>15, <1>16, <1>17,
           <1>18, <1>19 DEF Types

\* A command that runs is known, with its argument.
LEMMA Running ==
    ASSUME Turn, Step PROVE cmd # "none"
  BY DEF Turn, At, Step, Reads, Users, ReadUuid, AppReady, Waits,
         DeleteCluster, CreateCluster, AddClusterLabels,
         GenKubeconfigEntry, RmKubeconfigEntry, UseOrch, UseEdgeCluster,
         PostTemplate, SetDefaultTemplate, DeployEnic, DeleteEnic,
         RegisterHost, NewInstance, Apply, DestroyOrch, Virsh,
         DestroyNetwork, DestroyPool, RestoreConf, BackUpConf, WriteConf,
         RestartResolved, Certificate, ApplyVen, UndefineVen, Onboard,
         BlockEnicTraffic, Post, GetHost, PatchHost, UnsetMaintenanceMode

\* Every step of the system keeps the types.
LEMMA TypesGoOn ==
    ASSUME Turn, Types, Next PROVE Turn' /\ Types'
<1>1. /\ pods.made \in Nat /\ CommandType /\ clean \in BOOLEAN
      /\ PodsType
  BY DEF Types, PodsType
<1>2. CASE \E c \in DOMAIN Program : \E a \in Args(c) : Start(c, a)
  BY <1>2, Starting
<1>3. CASE Step
  <2>1. Moves /\ UNCHANGED <<pods, clean, fails>>
    BY <1>3, StepMoves
  <2>2. cmd # "none"
    BY <1>3, Running
  <2>3. Turn'
    BY <1>1, <2>1, <2>2, TurnOn
  <2>4. CommandType'
    BY <1>1, <2>1, Failing, CommandTypes
  <2>5. /\ EnicType' /\ PodsType' /\ HostsType' /\ ClustersType'
        /\ TemplateType' /\ KubeType' /\ TfType' /\ VmsType'
        /\ NodeType' /\ MmType'
    BY <1>3, StepTypes
  <2>6. clean' \in BOOLEAN
    BY <1>1, <2>1
  <2> QED BY <2>3, <2>4, <2>5, <2>6 DEF Types
<1>4. CASE CallFails
  <2>1. Moves /\ cmd # "none" /\ clean' = FALSE
    BY <1>1, <1>4, FailMoves DEF Moves, CallFails
  <2>2. /\ EnicType' /\ PodsType' /\ HostsType' /\ ClustersType'
        /\ TemplateType' /\ KubeType' /\ TfType' /\ VmsType'
        /\ NodeType' /\ MmType'
    BY <1>4, NextFails
  <2>3. pods' = pods
    BY <1>4 DEF CallFails, Half, world, edge
  <2>4. Turn'
    BY <1>1, <2>1, <2>3, TurnOn
  <2>5. CommandType'
    BY <1>1, <1>4, <2>1, Failing, CommandTypes DEF CallFails
  <2> QED BY <2>1, <2>2, <2>4, <2>5 DEF Types
<1>5. CASE Surroundings
  <2>1. Types' /\ pods'.made \in Nat /\ pods.made <= pods'.made
    BY <1>5, SurroundingTypes
  <2>2. UNCHANGED command
    BY <1>5 DEF Surroundings, ArgoCD, PodStarts, PodLost, AgentRuns,
                ClusterChanges, Inventory
  <2>3. CASE cmd # "none"
    <3>1. Stay
      BY <1>1, <2>2 DEF Stay, command, CommandType
    <3> QED BY <1>1, <2>1, <2>3, <3>1, TurnOn DEF Moves
  <2>4. CASE cmd = "none"
    BY <2>1, <2>2, <2>4 DEF command, Turn
  <2> QED BY <2>1, <2>3, <2>4
<1> QED BY <1>2, <1>3, <1>4, <1>5 DEF Next

-----------------------------------------------------------------------------
(* resolved.conf *)

\* A test that failed does not come to a step about resolved.conf.
LEMMA Reverted == Head(AfterAll) = "revert"
<1>1. PICK r : r = AfterAll
  OBVIOUS
<1>2. r \in Seq(Steps) /\ Len(r) = 6 /\ r[1] = "revert"
  BY <1>1, CleaningUp
<1> QED BY <1>1, <1>2

\* Nothing about resolved.conf changes in any other step.
LEMMA Untouched ==
    ASSUME Turn, Dns, cmd # "none", UNCHANGED dns, fails' # 0 \/ fails' = fails,
           \/ Stay
           \/ Leave \/ Back \/ (Go /\ Head(todo) \notin {"noBackup", "backUp"}),
           Leave \/ Back \/ Go =>
             Head(todo) \notin {"writeConf", "reload", "restart"}
               \/ fails' # 0
    PROVE  Dns'
<1>1. dns' = dns
  OBVIOUS
<1>2. todo # <<>>
  BY DEF Turn
<1>3. /\ At("backUp")' => At("backUp")
      /\ At("writeConf")' => At("writeConf")
      /\ fails' = 0 /\ ~(At("reload")' \/ At("restart")') =>
           fails = 0 /\ ~(At("reload") \/ At("restart"))
  <2>1. CASE Stay
    <3>1. todo' = todo
      BY <2>1 DEF Stay
    <3> QED BY <3>1 DEF At
  <2>2. CASE Leave
    <3>1. todo' = <<>>
      BY <2>2 DEF Leave
    <3> QED BY <2>2, <3>1 DEF At
  <2>3. CASE Back
    <3>1. Head(todo') = "revert"
      BY <2>3, Reverted DEF Back
    <3> QED BY <2>3, <3>1 DEF At
  <2>4. CASE Go /\ Head(todo) \notin {"noBackup", "backUp"}
    <3>1. Follows(Head(todo), Head(todo'))
      BY <2>4 DEF Go
    <3> QED BY <2>4, <3>1 DEF At, Follows
  <2> QED BY <2>1, <2>2, <2>3, <2>4
<1> QED BY <1>1, <1>3 DEF Dns

\* Every step keeps what is said of resolved.conf.
LEMMA ResolverGoesOn ==
    ASSUME Turn, Types, Dns, Next PROVE Dns'
<1>1. CommandType
  BY DEF Types
<1>2. /\ dns \in [conf : {"own", "edge", "short", "cut"},
                  bak : {"", "own", "short"},
                  live : {"own", "edge", "short", "cut"}]
      /\ dns.bak = "" => dns.conf \in {"own", "short"}
      /\ At("backUp") => dns.bak = ""
      /\ At("writeConf") => dns.bak = dns.conf
      /\ fails = 0 => At("reload") \/ At("restart") \/ dns.live = dns.conf
  BY DEF Dns
<1>3. CASE \E c \in DOMAIN Program : \E a \in Args(c) : Start(c, a)
  <2>1. /\ UNCHANGED <<dns, fails>> /\ todo = <<>> /\ todo' # <<>>
        /\ Head(todo') \notin {"backUp", "writeConf"}
    BY <1>3, Starting
  <2> QED BY <1>2, <2>1 DEF At, Dns
<1>4. CASE Reads
  <2>1. /\ UNCHANGED <<dns, fails>> /\ cmd # "none"
        /\ Head(todo) \in DOMAIN ReadOnly
    BY <1>4, Reading DEF Reads, Turn, world, machine, same
  <2>2. Head(todo) \notin {"backUp", "writeConf", "restart"}
    BY <2>1 DEF ReadOnly
  <2>3. Moves
    BY <1>1, <1>4, Reading
  <2>4. CASE Head(todo) = "reload"
    <3>1. Go
      BY <1>1, <1>4, <2>4, Reading
    <3>2. Head(todo') = "restart" /\ todo' # <<>>
      BY <2>4, <3>1 DEF Go, Follows
    <3> QED BY <1>2, <2>1, <3>2 DEF At, Dns
  <2>5. CASE Head(todo) = "noBackup" /\ Go
    <3>1. dns.bak = "" /\ Follows(Head(todo), Head(todo'))
      BY <1>1, <1>4, <2>5, Reading DEF Go
    <3>2. ~At("writeConf")'
      BY <2>5, <3>1 DEF At, Follows
    <3>3. fails' = 0 => dns.live = dns.conf
      BY <1>2, <2>1, <2>5 DEF At
    <3> QED BY <1>2, <2>1, <3>1, <3>2, <3>3 DEF Dns
  <2>6. CASE Head(todo) # "reload" /\ ~(Head(todo) = "noBackup" /\ Go)
    BY <2>1, <2>2, <2>3, <2>6, Untouched DEF Moves
  <2> QED BY <2>4, <2>5, <2>6
<1>5. CASE RestoreConf
  <2>1. /\ fails' = fails /\ cmd # "none" /\ Head(todo) = "restoreConf"
    BY <1>5 DEF RestoreConf, Turn, At, same
  <2>2. CASE dns.bak = "" /\ (Leave \/ Go) /\ UNCHANGED dns
    BY <2>1, <2>2, Untouched
  <2>3. CASE /\ dns.bak # "" /\ Go /\ Head(todo') = "reload"
             /\ dns' = [dns EXCEPT !.conf = dns.bak, !.bak = ""]
    <3>1. PICK k \in {"own", "short"} : k = dns.bak
      BY <1>2, <2>3
    <3>2. /\ dns' = [dns EXCEPT !.conf = k, !.bak = ""]
          /\ dns'.conf = k /\ dns'.bak = ""
      BY <1>2, <2>3, <3>1
    <3>3. dns' \in [conf : {"own", "edge", "short", "cut"},
                    bak : {"", "own", "short"},
                    live : {"own", "edge", "short", "cut"}]
      BY <1>2, <3>2
    <3>4. ~At("backUp")' /\ ~At("writeConf")' /\ At("reload")'
      BY <2>3 DEF At, Go
    <3> QED BY <3>1, <3>2, <3>3, <3>4 DEF Dns
  <2> QED BY <1>5, <2>2, <2>3, RestoringMoves
<1>6. CASE BackUpConf
  <2>1. /\ cmd # "none" /\ Head(todo) = "backUp" /\ fails' = fails
        /\ dns' = [dns EXCEPT !.bak = dns.conf] /\ At("backUp")
    BY <1>6 DEF BackUpConf, At, Turn, same
  <2>2. Leave \/ Go
    BY <1>6, ResolverMoves
  <2>3. PICK k \in {"own", "short"} : k = dns.conf
    BY <1>2, <2>1
  <2>4. /\ dns' \in [conf : {"own", "edge", "short", "cut"},
                     bak : {"", "own", "short"},
                     live : {"own", "edge", "short", "cut"}]
        /\ dns'.conf = k /\ dns'.bak = k /\ dns'.live = dns.live
    BY <1>2, <2>1, <2>3
  <2>5. ~At("backUp")'
    BY <2>1, <2>2 DEF At, Leave, Go, Follows
  <2>6. fails' = 0 => dns.live = dns.conf
    BY <1>2, <2>1 DEF At
  <2>7. /\ dns'.bak # "" /\ dns'.bak = dns'.conf
        /\ fails' = 0 => dns'.live = dns'.conf \/ At("reload")'
                           \/ At("restart")'
    <3>1. fails' = 0 => k = dns.live
      BY <2>3, <2>6
    <3> QED BY <2>3, <2>4, <3>1
  <2>8. /\ dns'.bak = "" => dns'.conf \in {"own", "short"}
        /\ At("backUp")' => dns'.bak = ""
        /\ At("writeConf")' => dns'.bak = dns'.conf
        /\ fails' = 0 => At("reload")' \/ At("restart")'
                          \/ dns'.live = dns'.conf
    BY <2>5, <2>7
  <2>9. dns' \in [conf : {"own", "edge", "short", "cut"},
                  bak : {"", "own", "short"},
                  live : {"own", "edge", "short", "cut"}]
    BY <2>4
  <2> QED
    <3>1. dns' \in [conf : {"own", "edge", "short", "cut"},
                  bak : {"", "own", "short"},
                  live : {"own", "edge", "short", "cut"}]
      BY <2>9
    <3>2. dns'.bak = "" => dns'.conf \in {"own", "short"}
      BY <2>8
    <3>3. At("backUp")' => dns'.bak = ""
      BY <2>8
    <3>4. At("writeConf")' => dns'.bak = dns'.conf
      BY <2>8
    <3>5. fails' = 0 => At("reload")' \/ At("restart")'
                          \/ dns'.live = dns'.conf
      BY <2>8
    <3> QED BY <3>1, <3>2, <3>3, <3>4, <3>5 DEF Dns
<1>7. CASE WriteConf
  <2>1. /\ cmd # "none" /\ Head(todo) = "writeConf" /\ fails' = fails
        /\ dns' = [dns EXCEPT !.conf = "edge"] /\ At("writeConf")
    BY <1>7 DEF WriteConf, At, Turn, same
  <2>2. Go
    BY <1>7, <2>1, ResolverMoves
  <2>3. dns' \in [conf : {"own", "edge", "short", "cut"},
                  bak : {"", "own", "short"},
                  live : {"own", "edge", "short", "cut"}]
        /\ dns'.bak = dns.bak /\ dns.bak # ""
    BY <1>2, <2>1
  <2>4. At("reload")' /\ ~At("backUp")' /\ ~At("writeConf")'
    BY <2>1, <2>2 DEF At, Go, Follows
  <2> QED BY <2>3, <2>4 DEF Dns
<1>8. CASE RestartResolved
  <2>1. /\ cmd # "none" /\ Head(todo) = "restart" /\ fails' = fails
        /\ dns' = [dns EXCEPT !.live = dns.conf]
    BY <1>8 DEF RestartResolved, At, Turn, same
  <2>2. Leave \/ Go
    BY <1>8, ResolverMoves
  <2>3. dns' \in [conf : {"own", "edge", "short", "cut"},
                  bak : {"", "own", "short"},
                  live : {"own", "edge", "short", "cut"}]
        /\ dns'.bak = dns.bak /\ dns'.conf = dns.conf
        /\ dns'.live = dns.conf
    BY <1>2, <2>1
  <2>4. ~At("backUp")' /\ ~At("writeConf")'
    BY <2>1, <2>2 DEF At, Leave, Go, Follows
  <2> QED BY <1>2, <2>3, <2>4 DEF Dns
<1>9. CASE Step /\ Elsewhere /\ UNCHANGED <<dns, fails>>
  <2>1. Moves /\ cmd # "none"
    BY <1>9, StepMoves, Running
  <2> QED BY <1>9, <2>1, Untouched DEF Moves, Elsewhere, NetSteps
<1>10. CASE Step /\ ~(\/ Reads \/ RestoreConf \/ BackUpConf \/ WriteConf
                      \/ RestartResolved)
  <2>1. CASE Users \/ ReadUuid \/ AppReady \/ Waits \/ DeleteCluster
    <3>1. Elsewhere
      BY <1>1, <2>1, Waiting
         DEF Users, ReadUuid, AppReady, DeleteCluster, At, Elsewhere,
             NetSteps
    <3>2. UNCHANGED <<dns, fails>>
      BY <2>1 DEF Users, ReadUuid, AppReady, Waits, DeleteCluster, world,
                  machine, same
    <3> QED BY <1>9, <1>10, <3>1, <3>2
  <2>2. CASE \/ CreateCluster \/ AddClusterLabels \/ GenKubeconfigEntry
             \/ RmKubeconfigEntry \/ UseOrch \/ UseEdgeCluster
             \/ PostTemplate \/ SetDefaultTemplate \/ DeployEnic
             \/ DeleteEnic \/ RegisterHost \/ NewInstance
             \/ BlockEnicTraffic
    <3>1. Elsewhere
      BY <2>2, EdgeMoves
    <3>2. UNCHANGED <<dns, fails>>
      BY <2>2
         DEF CreateCluster, AddClusterLabels, GenKubeconfigEntry,
             RmKubeconfigEntry, UseOrch, UseEdgeCluster, PostTemplate,
             SetDefaultTemplate, DeployEnic, DeleteEnic, RegisterHost,
             NewInstance, BlockEnicTraffic, machine, same
    <3> QED BY <1>9, <1>10, <3>1, <3>2
  <2>3. CASE \/ Apply \/ DestroyOrch \/ Virsh \/ DestroyNetwork \/ DestroyPool
             \/ Certificate \/ ApplyVen \/ UndefineVen
    <3>1. Elsewhere
      BY <2>3, MachineMoves
    <3>2. UNCHANGED <<dns, fails>>
      BY <2>3
         DEF Apply, DestroyOrch, Virsh, DestroyNetwork, DestroyPool,
             Certificate, ApplyVen, UndefineVen, world, machine, same
    <3> QED BY <1>9, <1>10, <3>1, <3>2
  <2>4. CASE \/ Onboard \/ Post \/ GetHost \/ PatchHost
             \/ UnsetMaintenanceMode
    <3>1. Elsewhere
      BY <2>4, TestMoves
    <3>2. UNCHANGED <<dns, fails>>
      BY <2>4 DEF Onboard, Post, GetHost, PatchHost, UnsetMaintenanceMode,
                  machine, same
    <3> QED BY <1>9, <1>10, <3>1, <3>2
  <2> QED BY <1>10, <2>1, <2>2, <2>3, <2>4 DEF Step
<1>11. CASE CallFails
  <2>1. /\ cmd # "none" /\ Half /\ fails' # 0
        /\ Stay \/ Leave \/ Back \/ (Go /\ Head(todo) \in Forgiven)
    <3>1. cmd # "none" /\ Half /\ Fault
      BY <1>11 DEF CallFails
    <3>2. fails' # 0
      BY <1>1, <3>1, EdgeNodeAssumption DEF Fault, CommandType
    <3>3. Stay \/ Leave \/ Back \/ (Go /\ Head(todo) \in Forgiven)
      BY <1>1, <1>11, FailMoves
    <3> QED BY <3>1, <3>2, <3>3
  <2>2. todo # <<>>
    BY <2>1 DEF Turn
  <2>3. CASE UNCHANGED dns
    BY <2>1, <2>3, Untouched DEF Forgiven
  <2>4. At("backUp") \/ At("writeConf") => Leave \/ Back
    <3>1. SUFFICES ASSUME Head(todo) \in {"backUp", "writeConf"}
                   PROVE  Leave \/ Back
      BY DEF At
    <3>2. Return(FALSE) \/ GiveUp
      BY <1>11, <3>1 DEF CallFails, Forgiven, Unlimited, Awaited
    <3> QED BY <3>2, Returning, GivingUp
  <2>5. ASSUME Leave \/ Back PROVE ~At("backUp")' /\ ~At("writeConf")'
    BY <2>5, Reverted DEF Leave, Back, At
  <2>6. CASE At("backUp") /\ dns' = [dns EXCEPT !.bak = "short"]
    <3>1. ~At("backUp")' /\ ~At("writeConf")'
      BY <2>1, <2>4, <2>5, <2>6
    <3>2. dns' \in [conf : {"own", "edge", "short", "cut"},
                    bak : {"", "own", "short"},
                    live : {"own", "edge", "short", "cut"}]
          /\ dns'.bak = "short"
      BY <1>2, <2>6
    <3> QED BY <2>1, <3>1, <3>2 DEF Dns
  <2>7. CASE At("writeConf") /\ dns' = [dns EXCEPT !.conf = "cut"]
    <3>1. ~At("backUp")' /\ ~At("writeConf")'
      BY <2>1, <2>4, <2>5, <2>7
    <3>2. dns' \in [conf : {"own", "edge", "short", "cut"},
                    bak : {"", "own", "short"},
                    live : {"own", "edge", "short", "cut"}]
          /\ dns'.bak = dns.bak /\ dns.bak # ""
      BY <1>2, <2>7
    <3> QED BY <2>1, <3>1, <3>2 DEF Dns
  <2>8. \/ UNCHANGED dns
        \/ At("backUp") /\ dns' = [dns EXCEPT !.bak = "short"]
        \/ At("writeConf") /\ dns' = [dns EXCEPT !.conf = "cut"]
    BY <2>1 DEF Half, world, machine
  <2> QED BY <2>3, <2>6, <2>7, <2>8
<1>12. CASE Surroundings
  <2>1. /\ UNCHANGED dns /\ todo' = todo
        /\ fails' = fails \/ fails' # 0
    BY <1>1, <1>12, EdgeNodeAssumption
       DEF Surroundings, ArgoCD, PodStarts, PodLost, AgentRuns,
           ClusterChanges, Inventory, machine, same, command, Fault,
           CommandType
  <2> QED BY <1>2, <2>1 DEF Dns, At
<1> QED BY <1>3, <1>4, <1>5, <1>6, <1>7, <1>8, <1>10, <1>11, <1>12
        DEF Next, Step

-----------------------------------------------------------------------------
(* The invariant *)

\* The invariant is inductive.
LEMMA Standing ==
    ASSUME IInv, UNCHANGED vars PROVE IInv'
<1>1. UNCHANGED <<enic, pods, hosts, clusters, template, kube, tf, vms,
                  disks, dns, node, mm, clean, fails>>
  BY DEF vars, world, edge, machine, tests
<1>2. UNCHANGED <<cmd, arg, todo, job, ticks, ok, done>>
  BY DEF vars, command
<1>3. Turn'
  <2>1. Passed("uuid")' <=> Passed("uuid")
    BY <1>2 DEF Passed
  <2> QED BY <1>1, <1>2, <2>1 DEF IInv, Turn
<1>4. /\ EnicType' /\ PodsType' /\ HostsType' /\ ClustersType' /\ KubeType'
  BY <1>1 DEF IInv, Types, EnicType, PodsType, HostsType, ClustersType,
              KubeType
<1>5. /\ TemplateType' /\ TfType' /\ VmsType' /\ NodeType' /\ MmType'
      /\ clean' \in BOOLEAN /\ CommandType'
  BY <1>1, <1>2 DEF IInv, Types, TemplateType, TfType, VmsType, NodeType,
              MmType, CommandType
<1>6. Dns'
  BY <1>1, <1>2 DEF IInv, Dns, At
<1> QED BY <1>3, <1>4, <1>5, <1>6 DEF IInv, Types

\* ... and so it holds always.
THEOREM Inductive == Spec => []IInv
<1>1. Init => IInv
  BY Initially
<1>2. IInv /\ [Next]_vars => IInv'
  BY TypesGoOn, ResolverGoesOn, Standing DEF IInv
<1> QED BY <1>1, <1>2, PTL DEF Spec

\* The types of the model hold for any projects, labels, serial numbers,
\* commands and bounds.
THEOREM TypeCorrect == Spec => []TypeOK
<1>1. IInv => TypeOK
  <2>1. SUFFICES ASSUME IInv PROVE TypeOK
    OBVIOUS
  <2>2. Turn /\ Types /\ Dns
    BY <2>1 DEF IInv
  <2>3. /\ enic.pod \in 0..pods.made /\ enic.project \in Projects \cup {""}
        /\ pods.at \in 0..MaxCommands
    BY <2>2 DEF Types, EnicType, PodsType
  <2>4. \A p \in Projects :
          /\ hosts[p].reg \cup hosts[p].inst \subseteq 1..pods.made
          /\ clusters[p].st \in {"none", "creating", "ready", "deleting"}
          /\ clusters[p].node \in 0..pods.made
          /\ clusters[p].labels \subseteq Labels
    BY <2>2 DEF Types, HostsType, Host, ClustersType, Cluster
  <2>5. /\ template \in {"none", "made", "default"}
        /\ kube.at \in {"orch", "edge"}
        /\ kube.entry.made \in {"no", "part", "whole"}
    BY <2>2 DEF Types, TemplateType, KubeType, Kube
  <2>6. /\ tf \subseteq {"network", "pool", "orch"}
        /\ vms \subseteq {"orch"} \cup Serials
        /\ disks \subseteq {"orch", "lost"} \cup Serials
    BY <2>2 DEF Types, TfType, VmsType
  <2>7. /\ {dns.conf, dns.live} \subseteq {"own", "edge", "short", "cut"}
        /\ dns.bak \in {"", "own", "short"}
    BY <2>2 DEF Dns
  <2>8. node.st \in {"none", "registered", "onboarded", "deleting"}
    BY <2>2 DEF Types, NodeType, Node
  <2>9. /\ mm.ids \subseteq {"region", "site", "host", "schedule"}
        /\ mm.made \subseteq {"region", "site", "hosted", "schedule"}
    BY <2>2 DEF Types, MmType, Maintenance
  <2>10. cmd # "none" =>
           cmd \in DOMAIN Program /\ todo # <<>> /\ arg \in Args(cmd)
    BY <2>2, Named DEF Turn
  <2>11. clean \in BOOLEAN /\ CommandType
    BY <2>2 DEF Types
  <2> QED BY <2>3, <2>4, <2>5, <2>6, <2>7, <2>8, <2>9, <2>10, <2>11
          DEF TypeOK
<1> QED BY <1>1, Inductive, PTL

\* What may happen to resolved.conf in a step.
ResolverChange ==
    \/ UNCHANGED dns
    \/ /\ At("restoreConf") /\ dns.bak # ""
       /\ dns' = [dns EXCEPT !.conf = dns.bak, !.bak = ""]
    \/ At("backUp") /\ dns' = [dns EXCEPT !.bak = dns.conf]
    \/ At("backUp") /\ dns' = [dns EXCEPT !.bak = "short"]
    \/ At("writeConf") /\ dns' = [dns EXCEPT !.conf = "edge"]
    \/ At("writeConf") /\ dns' = [dns EXCEPT !.conf = "cut"]
    \/ At("restart") /\ dns' = [dns EXCEPT !.live = dns.conf]

\* Nothing else happens to it.
LEMMA ResolverChanges ==
    ASSUME Next PROVE ResolverChange
<1> USE DEF world, machine
<1>1. CASE \E c \in DOMAIN Program : \E a \in Args(c) : Start(c, a)
  <2>1. UNCHANGED dns
    BY <1>1 DEF Start
  <2> QED BY <2>1 DEF ResolverChange
<1>2. CASE RestoreConf \/ BackUpConf \/ WriteConf \/ RestartResolved
  BY <1>2 DEF RestoreConf, BackUpConf, WriteConf, RestartResolved,
              ResolverChange
<1>3. CASE \/ Reads \/ Users \/ ReadUuid \/ AppReady \/ Waits
           \/ DeleteCluster \/ CreateCluster \/ AddClusterLabels
           \/ GenKubeconfigEntry \/ RmKubeconfigEntry \/ UseOrch
           \/ UseEdgeCluster \/ PostTemplate \/ SetDefaultTemplate
  <2>1. UNCHANGED dns
    BY <1>3 DEF Reads, Users, ReadUuid, AppReady, Waits, DeleteCluster,
         CreateCluster, AddClusterLabels, GenKubeconfigEntry,
         RmKubeconfigEntry, UseOrch, UseEdgeCluster, PostTemplate,
         SetDefaultTemplate
  <2> QED BY <2>1 DEF ResolverChange
<1>4. CASE \/ DeployEnic \/ DeleteEnic \/ RegisterHost \/ NewInstance
           \/ Onboard \/ BlockEnicTraffic \/ Post \/ GetHost
           \/ PatchHost \/ UnsetMaintenanceMode
  <2>1. UNCHANGED dns
    BY <1>4 DEF DeployEnic, DeleteEnic, RegisterHost, NewInstance, Onboard,
         BlockEnicTraffic, Post, GetHost, PatchHost, UnsetMaintenanceMode
  <2> QED BY <2>1 DEF ResolverChange
<1>5. CASE \/ Apply \/ DestroyOrch \/ Virsh \/ DestroyNetwork
           \/ DestroyPool \/ Certificate \/ ApplyVen \/ UndefineVen
  <2>1. UNCHANGED dns
    BY <1>5 DEF Apply, DestroyOrch, Virsh, DestroyNetwork, DestroyPool,
         Certificate, ApplyVen, UndefineVen
  <2> QED BY <2>1 DEF ResolverChange
<1>6. CASE CallFails
  BY <1>6 DEF CallFails, Half, ResolverChange
<1>7. CASE Surroundings
  <2>1. UNCHANGED dns
    BY <1>7 DEF Surroundings, ArgoCD, PodStarts, PodLost, AgentRuns,
                ClusterChanges, Inventory
  <2> QED BY <2>1 DEF ResolverChange
<1> QED BY <1>1, <1>2, <1>3, <1>4, <1>5, <1>6, <1>7 DEF Next, Step

\* The file is lost only when a short copy is put back: it is saved before the
\* step that writes it, and a copy, cut short or not, is made only without a
\* backup.
LEMMA OwnSurvives ==
    ASSUME Dns, Next, HasOwn
    PROVE  HasOwn' \/ (At("restoreConf") /\ dns.bak = "short")
<1>1. /\ dns \in [conf : {"own", "edge", "short", "cut"},
                  bak : {"", "own", "short"},
                  live : {"own", "edge", "short", "cut"}]
      /\ At("backUp") => dns.bak = ""
      /\ At("writeConf") => dns.bak = dns.conf
      /\ "own" \in {dns.conf, dns.bak}
  BY DEF Dns, HasOwn
<1>2. ResolverChange
  BY ResolverChanges
<1>3. CASE UNCHANGED dns
  BY <1>1, <1>3 DEF HasOwn
<1>4. CASE /\ At("restoreConf") /\ dns.bak # ""
           /\ dns' = [dns EXCEPT !.conf = dns.bak, !.bak = ""]
  <2>1. dns'.conf = dns.bak
    BY <1>1, <1>4
  <2>2. dns.bak \in {"own", "short"} \/ dns.bak = ""
    BY <1>1
  <2>3. dns.bak = "own" \/ dns.bak = "short"
    BY <1>1, <1>4, <2>2
  <2> QED BY <1>4, <2>1, <2>3 DEF HasOwn
<1>5. CASE \/ At("backUp") /\ dns' = [dns EXCEPT !.bak = dns.conf]
           \/ At("backUp") /\ dns' = [dns EXCEPT !.bak = "short"]
  <2>1. dns.conf = "own" /\ dns'.conf = dns.conf
    BY <1>1, <1>5
  <2> QED BY <2>1 DEF HasOwn
<1>6. CASE \/ At("writeConf") /\ dns' = [dns EXCEPT !.conf = "edge"]
           \/ At("writeConf") /\ dns' = [dns EXCEPT !.conf = "cut"]
  <2>1. dns.bak = "own" /\ dns'.bak = dns.bak
    BY <1>1, <1>6
  <2> QED BY <2>1 DEF HasOwn
<1>7. CASE At("restart") /\ dns' = [dns EXCEPT !.live = dns.conf]
  <2>1. dns'.conf = dns.conf /\ dns'.bak = dns.bak
    BY <1>1, <1>7
  <2> QED BY <1>1, <2>1 DEF HasOwn
<1> QED BY <1>2, <1>3, <1>4, <1>5, <1>6, <1>7 DEF ResolverChange

\* The machine's own resolved.conf, in its place or in the backup, is lost in
\* one way only, whatever commands run and wherever they stop: a copy that was
\* cut short is put back; when nothing failed and no command runs, the
\* resolver has read the file (Magefile.go:340, 714).
THEOREM OwnResolverIsKept == Spec => ResolverKept
<1>1. ASSUME IInv, IInv', [Next]_vars
      PROVE  [/\ HasOwn =>
                   HasOwn' \/ (At("restoreConf") /\ dns.bak = "short")
              /\ (cmd' = "none" /\ fails' = 0) => dns'.live = dns'.conf]_vars
  <2>1. CASE Next
    <3>1. HasOwn => HasOwn' \/ (At("restoreConf") /\ dns.bak = "short")
      BY <1>1, <2>1, OwnSurvives DEF IInv
    <3>2. (cmd' = "none" /\ fails' = 0) => dns'.live = dns'.conf
      BY <1>1 DEF IInv, Turn, Dns, At
    <3> QED BY <3>1, <3>2
  <2>2. CASE UNCHANGED vars
    BY <2>2
  <2> QED BY <1>1, <2>1, <2>2
<1> QED BY <1>1, Inductive, PTL DEF Spec, ResolverKept

-----------------------------------------------------------------------------
(* Deploying the Orchestrator again *)

\* deploy:onPrem, step by step.
AtOnPrem(p) ==
    /\ p \in Seq(Steps) /\ Len(p) = 11
    /\ p[1] = "destroyOrch" /\ p[2] = "virsh" /\ p[3] = "restoreConf"
    /\ p[4] = "reload" /\ p[5] = "restart" /\ p[6] = "destroyNetwork"
    /\ p[7] = "destroyPool" /\ p[8] = "resolvers" /\ p[9] = "applyNetwork"
    /\ p[10] = "applyPool" /\ p[11] = "applyOrch"

\* Its program is that sequence (Magefile.go:412).
LEMMA OnPremSteps == AtOnPrem(Program["onPrem"])
<1>1. PICK d : d = <<"destroyOrch", "virsh">>
  OBVIOUS
<1>2. PICK n : n = <<"destroyNetwork">>
  OBVIOUS
<1>3. PICK l : l = <<"destroyPool">>
  OBVIOUS
<1>4. PICK a : a = <<"resolvers", "applyNetwork", "applyPool", "applyOrch">>
  OBVIOUS
<1>5. PICK r : r = RestoreDNS
  OBVIOUS
<1>6. /\ d \in Seq(Steps) /\ Len(d) = 2 /\ d[1] = "destroyOrch"
      /\ d[2] = "virsh"
      /\ n \in Seq(Steps) /\ Len(n) = 1 /\ n[1] = "destroyNetwork"
      /\ l \in Seq(Steps) /\ Len(l) = 1 /\ l[1] = "destroyPool"
  BY <1>1, <1>2, <1>3 DEF Steps
<1>7. /\ a \in Seq(Steps) /\ Len(a) = 4 /\ a[1] = "resolvers"
      /\ a[2] = "applyNetwork" /\ a[3] = "applyPool" /\ a[4] = "applyOrch"
  BY <1>4 DEF Steps
<1>8. /\ r \in Seq(Steps) /\ Len(r) = 3 /\ r[1] = "restoreConf"
      /\ r[2] = "reload" /\ r[3] = "restart"
  BY <1>5, Restoring
<1>9. PICK u : u = r \o n
  OBVIOUS
<1>10. u \in Seq(Steps) /\ Joins(u, r, n)
  BY <1>6, <1>8, <1>9, Joining
<1>11. /\ Len(u) = 4 /\ u[1] = "restoreConf" /\ u[2] = "reload"
       /\ u[3] = "restart" /\ u[4] = "destroyNetwork"
  BY <1>6, <1>8, <1>10 DEF Joins
<1>12. PICK v : v = d \o u
  OBVIOUS
<1>13. v \in Seq(Steps) /\ Joins(v, d, u)
  BY <1>6, <1>10, <1>12, Joining
<1>14. /\ Len(v) = 6 /\ v[1] = "destroyOrch" /\ v[2] = "virsh"
       /\ v[3] = "restoreConf" /\ v[4] = "reload" /\ v[5] = "restart"
       /\ v[6] = "destroyNetwork"
  BY <1>6, <1>11, <1>13 DEF Joins
<1>15. PICK w : w = v \o l
  OBVIOUS
<1>16. w \in Seq(Steps) /\ Joins(w, v, l)
  BY <1>6, <1>13, <1>15, Joining
<1>17. /\ Len(w) = 7 /\ w[1] = "destroyOrch" /\ w[2] = "virsh"
       /\ w[3] = "restoreConf" /\ w[4] = "reload" /\ w[5] = "restart"
       /\ w[6] = "destroyNetwork" /\ w[7] = "destroyPool"
  BY <1>6, <1>14, <1>16 DEF Joins
<1>18. PICK p : p = w \o a
  OBVIOUS
<1>19. p \in Seq(Steps) /\ Joins(p, w, a)
  BY <1>7, <1>16, <1>18, Joining
<1>20. AtOnPrem(p)
  BY <1>7, <1>17, <1>19 DEF Joins, AtOnPrem
<1>21. Program["onPrem"] = p
  BY <1>1, <1>2, <1>3, <1>4, <1>5, <1>9, <1>12, <1>15, <1>18
     DEF Program, UndeployOnPrem, UndeployNetwork
<1> QED BY <1>20, <1>21

\* When n of its steps are left: the disk of a machine that is gone is gone,
\* and so is the machine behind virsh (v, d); the pool is empty when it has
\* been destroyed; and the network and the pool are known to terraform when
\* they have been made (t).
Clear(n, v, d, t) ==
    /\ n = 10 => ("orch" \in d => "orch" \in v)
    /\ n <= 9 => "orch" \notin v \cup d
    /\ n <= 4 => d = {}
    /\ n <= 2 => "network" \in t
    /\ n <= 1 => "pool" \in t

\* ... as long as its calls work.
Cleared == (cmd = "onPrem" /\ clean) => Clear(Len(todo), vms, disks, tf)

\* The current step and the number of steps left tell each other.
LEMMA OnPremPlace ==
    ASSUME Turn, cmd = "onPrem"
    PROVE  /\ Len(todo) \in 1..11
           /\ Len(todo) = 11 <=> Head(todo) = "destroyOrch"
           /\ Len(todo) = 10 <=> Head(todo) = "virsh"
           /\ Len(todo) = 9 <=> Head(todo) = "restoreConf"
           /\ Len(todo) = 8 <=> Head(todo) = "reload"
           /\ Len(todo) = 7 <=> Head(todo) = "restart"
           /\ Len(todo) = 6 <=> Head(todo) = "destroyNetwork"
           /\ Len(todo) = 5 <=> Head(todo) = "destroyPool"
           /\ Len(todo) = 4 <=> Head(todo) = "resolvers"
           /\ Len(todo) = 3 <=> Head(todo) = "applyNetwork"
           /\ Len(todo) = 2 <=> Head(todo) = "applyPool"
           /\ Len(todo) = 1 <=> Head(todo) = "applyOrch"
<1>1. PICK p : p = Program["onPrem"]
  OBVIOUS
<1>2. PICK i : i = Len(p) - Len(todo) + 1
  OBVIOUS
<1>3. AtOnPrem(p)
  BY <1>1, OnPremSteps
<1>4. /\ Len(todo) \in Nat /\ Len(todo) >= 1 /\ i \in 1..Len(p)
      /\ Head(todo) = p[i]
  BY <1>1, <1>2, Now
<1>5. Len(todo) = 12 - i /\ i \in 1..11
  BY <1>2, <1>3, <1>4 DEF AtOnPrem
<1> QED BY <1>3, <1>4, <1>5 DEF AtOnPrem

\* No step of deploy:onPrem whose call works gives up, unless orphans are in
\* the pool: terraform finds no machine of the name, a network and a pool.
LEMMA OnPremSucceeds ==
    ASSUME Turn, Types, Cleared, Step, cmd = "onPrem", clean
    PROVE  /\ (cmd' = "none" /\ ~ok') => Orphans # {}
           /\ Cleared'
<1>1. /\ Len(todo) \in 1..11
      /\ Head(todo) \in {"destroyOrch", "virsh", "restoreConf", "reload",
           "restart", "destroyNetwork", "destroyPool", "resolvers",
           "applyNetwork", "applyPool", "applyOrch"}
      /\ todo # <<>> /\ cmd # "none"
  BY OnPremPlace DEF Turn
<1>2. PICK n : n = Len(todo)
  OBVIOUS
<1>3. n \in 1..11 /\ Clear(n, vms, disks, tf)
  BY <1>1, <1>2 DEF Cleared
<1>4. /\ Head(todo) = "destroyOrch" => n = 11
      /\ Head(todo) = "virsh" => n = 10
      /\ Head(todo) = "restoreConf" => n = 9
      /\ Head(todo) = "reload" => n = 8
      /\ Head(todo) = "restart" => n = 7
      /\ Head(todo) = "destroyNetwork" => n = 6
      /\ Head(todo) = "destroyPool" => n = 5
      /\ Head(todo) = "resolvers" => n = 4
      /\ Head(todo) = "applyNetwork" => n = 3
      /\ Head(todo) = "applyPool" => n = 2
      /\ Head(todo) = "applyOrch" => n = 1
  BY <1>2, OnPremPlace
<1>5. ASSUME cmd' = "none" /\ ok'
      PROVE  ((cmd' = "none" /\ ~ok') => Orphans # {}) /\ Cleared'
  BY <1>5 DEF Cleared
<1>6. ASSUME NEW m, cmd' = cmd, Len(todo') = m, Clear(m, vms', disks', tf')
      PROVE  ((cmd' = "none" /\ ~ok') => Orphans # {}) /\ Cleared'
  BY <1>6 DEF Cleared
<1>7. ASSUME Advance
      PROVE  \/ cmd' = "none" /\ ok'
             \/ cmd' = cmd /\ Len(todo') = n - 1
  <2>1. Head(todo) # "uuid"
    BY <1>1
  <2>2. CASE Len(todo) = 1
    BY <1>7, <2>2 DEF Advance, AdvanceWith, Return
  <2>3. CASE Len(todo) # 1
    <3>1. cmd' = cmd
      BY <1>7, <2>3 DEF Advance, AdvanceWith
    <3>2. Go /\ Len(todo') = Len(todo) - 1
      BY <1>1, <1>7, <2>1, <3>1, Stepping DEF Leave
    <3> QED BY <1>2, <3>1, <3>2
  <2> QED BY <2>2, <2>3
<1>8. ASSUME Advance, Clear(n - 1, vms', disks', tf')
      PROVE  ((cmd' = "none" /\ ~ok') => Orphans # {}) /\ Cleared'
  <2>1. CASE cmd' = "none" /\ ok'
    BY <1>5, <2>1
  <2>2. CASE cmd' = cmd /\ Len(todo') = n - 1
    <3>1. PICK m : m = n - 1
      OBVIOUS
    <3> QED BY <1>6, <1>8, <2>2, <3>1
  <2> QED BY <1>8, <1>7, <2>1, <2>2
<1>9. CASE Reads
  <2>1. Head(todo) \in {"reload", "resolvers"}
    BY <1>1, <1>9 DEF Reads, ReadOnly
  <2>2. ReadOnly["reload"] = TRUE /\ ReadOnly["resolvers"] = TRUE
    BY DEF ReadOnly
  <2>3. Require(TRUE)
    <3>1. Require(ReadOnly[Head(todo)])
      BY <1>9 DEF Reads
    <3>2. ReadOnly[Head(todo)] = TRUE
      BY <2>1, <2>2
    <3> QED BY <3>1, <3>2
  <2>4. Advance
    BY <2>3 DEF Require
  <2>5. UNCHANGED <<tf, vms, disks>>
    BY <1>9 DEF Reads, world, machine
  <2>6. n \in {8, 4}
    BY <1>4, <2>1
  <2>7. Clear(n - 1, vms', disks', tf')
    BY <1>3, <2>5, <2>6 DEF Clear
  <2> QED BY <1>8, <2>4, <2>7
<1>10. CASE DestroyOrch
  <2>1. /\ Advance /\ Head(todo) = "destroyOrch"
        /\ "orch" \in disks' => "orch" \in vms'
    BY <1>10 DEF DestroyOrch, At
  <2>2. Clear(n - 1, vms', disks', tf')
    BY <1>4, <2>1 DEF Clear
  <2> QED BY <1>8, <2>1, <2>2
<1>11. CASE Virsh
  <2>1. /\ Advance /\ Head(todo) = "virsh" /\ vms' = vms \ {"orch"}
        /\ disks' = IF "orch" \in vms THEN disks \ {"orch"} ELSE disks
    BY <1>11 DEF Virsh, VirshUndefine, At
  <2>2. Clear(n - 1, vms', disks', tf')
    BY <1>3, <1>4, <2>1 DEF Clear
  <2> QED BY <1>8, <2>1, <2>2
<1>12. CASE RestoreConf
  <2>1. Head(todo) = "restoreConf" /\ UNCHANGED <<tf, vms, disks>>
    BY <1>12 DEF RestoreConf, At
  <2>2. CASE Advance
    <3>1. Clear(n - 1, vms', disks', tf')
      BY <1>3, <1>4, <2>1 DEF Clear
    <3> QED BY <1>8, <2>2, <3>1
  <2>3. CASE AdvanceWith(3, job) /\ dns.bak = ""
    <3>1. Len(todo) # 3
      <4>1. n = 9
        BY <1>4, <2>1
      <4> QED BY <1>2, <4>1
    <3>2. cmd' = cmd
      BY <2>3, <3>1 DEF AdvanceWith
    <3>3. todo' = SubSeq(todo, 4, Len(todo))
      <4>1. todo' = SubSeq(todo, 3 + 1, Len(todo))
        BY <2>3, <3>1 DEF AdvanceWith
      <4> QED BY <4>1
    <3>4. Len(todo') = n - 3
      <4>1. todo \in Seq(AllSteps) /\ Len(todo) = 9
        BY <1>1, <1>2, <1>4, <2>1 DEF Turn
      <4> QED BY <1>2, <3>3, <4>1
    <3>5. PICK m : m = n - 3
      OBVIOUS
    <3>6. Clear(m, vms', disks', tf')
      BY <1>3, <1>4, <2>1, <3>5 DEF Clear
    <3> QED BY <1>6, <3>2, <3>4, <3>5, <3>6
  <2> QED BY <1>12, <2>2, <2>3 DEF RestoreConf
<1>13. CASE RestartResolved
  <2>1. Advance /\ Head(todo) = "restart" /\ UNCHANGED <<tf, vms, disks>>
    BY <1>13 DEF RestartResolved, At
  <2>2. Clear(n - 1, vms', disks', tf')
    BY <1>3, <1>4, <2>1 DEF Clear
  <2> QED BY <1>8, <2>1, <2>2
<1>14. CASE DestroyNetwork
  <2>1. /\ Advance /\ Head(todo) = "destroyNetwork"
        /\ UNCHANGED <<vms, disks>>
    BY <1>14 DEF DestroyNetwork, At
  <2>2. Clear(n - 1, vms', disks', tf')
    BY <1>3, <1>4, <2>1 DEF Clear
  <2> QED BY <1>8, <2>1, <2>2
<1>17. CASE DestroyPool
  <2>1. /\ Require(disks = {}) /\ Head(todo) = "destroyPool"
        /\ UNCHANGED <<vms, disks>>
    BY <1>17 DEF DestroyPool, At
  <2>2. CASE disks = {}
    <3>1. Clear(n - 1, vms', disks', tf')
      BY <1>3, <1>4, <2>1, <2>2 DEF Clear
    <3> QED BY <1>8, <2>1, <2>2, <3>1 DEF Require
  <2>3. CASE disks # {}
    <3>1. "orch" \notin disks
      BY <1>3, <1>4, <2>1 DEF Clear
    <3>2. disks \subseteq {"orch", "lost"} \cup Serials
      BY DEF Types, VmsType
    <3>3. Orphans # {}
      BY <2>3, <3>1, <3>2 DEF Orphans
    <3>4. cmd' = "none"
      BY <2>1, <2>3 DEF Require, GiveUp, InTest, Return
    <3>5. Cleared'
      BY <3>4 DEF Cleared
    <3> QED BY <3>3, <3>5
  <2> QED BY <2>2, <2>3
<1>15. CASE Apply
  <2>1. PICK x : x = Applied[Head(todo)]
    OBVIOUS
  <2>2. /\ Head(todo) = "applyNetwork" => x = "network"
        /\ Head(todo) = "applyPool" => x = "pool"
        /\ Head(todo) = "applyOrch" => x = "orch"
        /\ Head(todo) \in {"applyNetwork", "applyPool", "applyOrch"}
    BY <1>15, <2>1 DEF Apply, Applied
  <2>3. \/ n = 3 /\ x = "network"
        \/ n = 2 /\ x = "pool"
        \/ n = 1 /\ x = "orch"
    BY <1>4, <2>2
  <2>4. CanApply(x)
    BY <1>3, <2>3 DEF CanApply, Clear
  <2>5. /\ Advance /\ tf' = tf \cup {x}
        /\ x # "orch" => vms' = vms /\ disks' = disks
    BY <1>15, <2>1, <2>4 DEF Apply, Require
  <2>6. CASE n = 1
    <3>1. cmd' = "none" /\ ok'
      BY <1>2, <2>5, <2>6 DEF Advance, AdvanceWith, Return
    <3> QED BY <1>5, <3>1
  <2>7. CASE n # 1
    <3>1. Clear(n - 1, vms', disks', tf')
      BY <1>3, <2>3, <2>5, <2>7 DEF Clear
    <3> QED BY <1>8, <2>5, <3>1
  <2> QED BY <2>6, <2>7
<1>16. \/ Reads \/ DestroyOrch \/ Virsh \/ RestoreConf \/ RestartResolved
       \/ DestroyNetwork \/ DestroyPool \/ Apply
  <2>1. ~(\/ Users \/ ReadUuid \/ AppReady \/ Waits \/ DeleteCluster
          \/ CreateCluster \/ AddClusterLabels \/ GenKubeconfigEntry
          \/ RmKubeconfigEntry \/ UseOrch \/ UseEdgeCluster)
    BY <1>1 DEF At, Users, ReadUuid, AppReady, Waits, Awaited, DeleteCluster,
         CreateCluster, AddClusterLabels, GenKubeconfigEntry,
         RmKubeconfigEntry, UseOrch, UseEdgeCluster
  <2>2. ~(\/ PostTemplate \/ SetDefaultTemplate \/ DeployEnic \/ DeleteEnic
          \/ RegisterHost \/ NewInstance \/ BackUpConf \/ WriteConf
          \/ Certificate \/ ApplyVen \/ UndefineVen \/ Onboard
          \/ BlockEnicTraffic \/ Post \/ GetHost \/ PatchHost
          \/ UnsetMaintenanceMode)
    BY <1>1 DEF At, PostTemplate, SetDefaultTemplate, DeployEnic, DeleteEnic,
         RegisterHost, NewInstance, BackUpConf, WriteConf, Certificate,
         ApplyVen, UndefineVen, Onboard, Calls, BlockEnicTraffic, Post,
         Posts, GetHost, PatchHost, UnsetMaintenanceMode, Undo
  <2> QED BY <2>1, <2>2 DEF Step
<1> QED BY <1>9, <1>10, <1>11, <1>12, <1>13, <1>14, <1>15, <1>16, <1>17

\* Every step of the system keeps what is cleared.
LEMMA ClearedGoesOn ==
    ASSUME Turn, Types, Cleared, Next
    PROVE  Cleared' /\ ((Errs /\ cmd = "onPrem" /\ clean') => Orphans # {})
<1>1. CASE \E c \in DOMAIN Program : \E a \in Args(c) : Start(c, a)
  <2>0. PICK c \in DOMAIN Program : \E a \in Args(c) : Start(c, a)
    BY <1>1
  <2>1. PICK a \in Args(c) : Start(c, a)
    BY <2>0
  <2>2. cmd = "none" /\ cmd' = c /\ todo' = Program[c]
    BY <2>1 DEF Start, Begin
  <2>3. cmd' = "onPrem" => Len(todo') = 11
    <3>1. AtOnPrem(Program["onPrem"])
      BY OnPremSteps
    <3> QED BY <2>2, <3>1 DEF AtOnPrem
  <2>4. Clear(11, vms', disks', tf')
    BY DEF Clear
  <2> QED BY <2>2, <2>3, <2>4 DEF Cleared, Errs
<1>2. CASE Step
  <2>1. clean' = clean /\ Moves
    BY <1>2, StepMoves
  <2>2. CASE cmd = "onPrem" /\ clean
    BY <1>2, <2>2, OnPremSucceeds DEF Errs
  <2>3. CASE ~(cmd = "onPrem" /\ clean)
    BY <2>1, <2>3 DEF Cleared, Errs, Moves, Stay, Leave, Go, Back
  <2> QED BY <2>2, <2>3
<1>3. CASE CallFails
  BY <1>3 DEF CallFails, Cleared
<1>4. CASE Surroundings
  <2>1. UNCHANGED command /\ UNCHANGED <<tf, vms, disks, clean>>
    BY <1>4 DEF Surroundings, ArgoCD, PodStarts, PodLost, AgentRuns,
                ClusterChanges, Inventory, machine, same
  <2> QED BY <2>1 DEF command, Cleared, Errs
<1> QED BY <1>1, <1>2, <1>3, <1>4 DEF Next

\* deploy:onPrem succeeds when its calls do, whatever earlier commands have
\* left in libvirt and in terraform's states, for any sequence of them, unless
\* the pool holds the disk of a virtual edge node or one that terraform has no
\* record of (Magefile.go:412).
THEOREM OnPremIsMadeAgain == Spec => OnPremRedeploys
<1>1. Init => Cleared
  BY DEF Init, Cleared
<1>2. ASSUME IInv, Cleared, [Next]_vars PROVE Cleared'
  <2>1. CASE Next
    BY <1>2, <2>1, ClearedGoesOn DEF IInv
  <2>2. CASE UNCHANGED vars
    BY <1>2, <2>2 DEF vars, world, machine, command, Cleared
  <2> QED BY <1>2, <2>1, <2>2
<1>3. ASSUME IInv, Cleared, [Next]_vars
      PROVE  [(Errs /\ cmd = "onPrem" /\ clean') => Orphans # {}]_vars
  BY <1>3, ClearedGoesOn DEF IInv
<1> QED BY <1>1, <1>2, <1>3, Inductive, PTL DEF Spec, OnPremRedeploys

-----------------------------------------------------------------------------
(* Maintenance mode is undone *)

\* When n steps of the test are left: what has been made, and the ids of it
\* that are on record; nothing is made before the context is known to be the
\* Orchestrator's (a), which the clean-up needs as well; the clean-up takes
\* away schedule, configuration, site and region in this order, each before
\* what it depends on.
Tidies(n, made, ids, a) ==
    /\ n >= 13 => made = {}
    /\ n \in 7..12 => a
    /\ made # {} => a
    /\ n \in 7..11 => "region" \in ids
    /\ n \in 7..9 => "host" \in ids
    /\ "region" \in made => "region" \in ids
    /\ "site" \in made => "region" \in ids /\ "site" \in ids
    /\ "hosted" \in made => "host" \in ids
    /\ "schedule" \in made => "schedule" \in ids
    /\ n <= 3 => "schedule" \notin made
    /\ n <= 2 => "hosted" \notin made
    /\ n <= 1 => "site" \notin made

\* ... as long as no answer with an id was lost.
Tidy ==
    (cmd = "alerts" /\ ~mm.lost) =>
      Tidies(Len(todo), mm.made, mm.ids, InOrch)

\* The current step and the number of steps left tell each other; only unblock
\* is there twice.
LEMMA AlertPlace ==
    ASSUME Turn, cmd = "alerts"
    PROVE  /\ Len(todo) \in 1..14
           /\ Head(todo) \in {"block", "hostUuid", "postRegion", "postSite",
                "getHost", "patchHost", "postSchedule", "unblock", "revert",
                "delSchedule", "unconfigure", "delSite", "delRegion"}
           /\ Head(todo) = "block" => Len(todo) = 14
           /\ Head(todo) = "hostUuid" => Len(todo) = 13
           /\ Head(todo) = "postRegion" => Len(todo) = 12
           /\ Head(todo) = "postSite" => Len(todo) = 11
           /\ Head(todo) = "getHost" => Len(todo) = 10
           /\ Head(todo) = "patchHost" => Len(todo) = 9
           /\ Head(todo) = "postSchedule" => Len(todo) = 8
           /\ Head(todo) = "unblock" => Len(todo) \in {7, 5}
           /\ Head(todo) = "revert" => Len(todo) = 6
           /\ Head(todo) = "delSchedule" => Len(todo) = 4
           /\ Head(todo) = "unconfigure" => Len(todo) = 3
           /\ Head(todo) = "delSite" => Len(todo) = 2
           /\ Head(todo) = "delRegion" => Len(todo) = 1
<1>1. PICK p : p = Program["alerts"]
  OBVIOUS
<1>2. PICK i : i = Len(p) - Len(todo) + 1
  OBVIOUS
<1>3. AtAlert(p)
  BY <1>1, Alerting
<1>4. /\ Len(todo) \in Nat /\ Len(todo) >= 1 /\ i \in 1..Len(p)
      /\ Head(todo) = p[i]
  BY <1>1, <1>2, Now
<1>5. Len(todo) = 15 - i /\ i \in 1..14
  BY <1>2, <1>3, <1>4 DEF AtAlert
<1>6. CASE i \in 1..5
  BY <1>3, <1>4, <1>5, <1>6 DEF AtAlert
<1>7. CASE i \in 6..10
  BY <1>3, <1>4, <1>5, <1>7 DEF AtAlert
<1>8. CASE i \in 11..14
  BY <1>3, <1>4, <1>5, <1>8 DEF AtAlert
<1> QED BY <1>5, <1>6, <1>7, <1>8

\* The clean-up may begin wherever the test failed.
LEMMA StillTidy ==
    ASSUME NEW made, NEW ids, NEW a, NEW n \in 7..14,
           Tidies(n, made, ids, a)
    PROVE  Tidies(6, made, ids, a)
  BY DEF Tidies

\* The steps that the test is made of.
LEMMA AlertActions ==
    ASSUME Turn, Step, cmd = "alerts"
    PROVE  \/ Reads \/ ReadUuid \/ BlockEnicTraffic \/ Post \/ GetHost
           \/ PatchHost \/ UnsetMaintenanceMode
<1>1. /\ Head(todo) \in {"block", "hostUuid", "postRegion", "postSite",
           "getHost", "patchHost", "postSchedule", "unblock", "revert",
           "delSchedule", "unconfigure", "delSite", "delRegion"}
      /\ todo # <<>> /\ cmd # "none"
  BY AlertPlace DEF Turn
<1>2. ~(\/ Users \/ AppReady \/ Waits \/ DeleteCluster
        \/ CreateCluster \/ AddClusterLabels \/ GenKubeconfigEntry
        \/ RmKubeconfigEntry \/ UseOrch \/ UseEdgeCluster)
  BY <1>1 DEF At, Users, AppReady, Waits, Awaited, DeleteCluster,
       CreateCluster, AddClusterLabels, GenKubeconfigEntry,
       RmKubeconfigEntry, UseOrch, UseEdgeCluster
<1>3. ~(\/ PostTemplate \/ SetDefaultTemplate \/ DeployEnic
        \/ DeleteEnic \/ RegisterHost \/ NewInstance \/ Apply
        \/ DestroyOrch \/ Virsh \/ DestroyNetwork \/ DestroyPool)
  BY <1>1 DEF At, PostTemplate, SetDefaultTemplate, DeployEnic,
       DeleteEnic, RegisterHost, NewInstance, Apply, Applied,
       DestroyOrch, Virsh, DestroyNetwork, DestroyPool
<1>4. ~(\/ RestoreConf \/ BackUpConf \/ WriteConf \/ RestartResolved
        \/ Certificate \/ ApplyVen \/ UndefineVen \/ Onboard)
  BY <1>1 DEF At, RestoreConf, BackUpConf, WriteConf, RestartResolved,
       Certificate, ApplyVen, UndefineVen, Onboard, Calls
<1> QED BY <1>2, <1>3, <1>4 DEF Step

\* A lost answer stays lost until the next test.
LEMMA LostForGood ==
    ASSUME Turn, mm \in Maintenance, Step, cmd = "alerts", mm.lost
    PROVE  mm'.lost
<1>1. \/ Reads \/ ReadUuid \/ BlockEnicTraffic \/ Post \/ GetHost
      \/ PatchHost \/ UnsetMaintenanceMode
  BY AlertActions
<1>2. CASE mm' = mm
  BY <1>2
<1>3. CASE Post
  <2>1. PICK x : x = Posts[Head(todo)]
    OBVIOUS
  <2>2. mm' = [mm EXCEPT !.made = mm.made \cup {x},
                         !.ids = mm.ids \cup {x}]
    BY <1>3, <2>1 DEF Post, Record
  <2> QED BY <2>2 DEF Maintenance
<1>4. CASE GetHost
  BY <1>4 DEF GetHost, Maintenance
<1>5. CASE PatchHost
  BY <1>5 DEF PatchHost, Maintenance
<1>6. CASE UnsetMaintenanceMode
  <2>1. PICK g : g = Undo[Head(todo)].gone
    OBVIOUS
  <2>2. mm' = mm \/ mm' = [mm EXCEPT !.made = mm.made \ {g}]
    BY <1>6, <2>1 DEF UnsetMaintenanceMode
  <2> QED BY <2>2 DEF Maintenance
<1>7. Reads \/ ReadUuid \/ BlockEnicTraffic => mm' = mm
  BY DEF Reads, ReadUuid, BlockEnicTraffic, world, tests
<1> QED BY <1>1, <1>2, <1>3, <1>4, <1>5, <1>6, <1>7

\* ... also when another call fails.
LEMMA LostThrough ==
    ASSUME Turn, mm \in Maintenance, CallFails, mm.lost
    PROVE  mm'.lost
<1>1. CASE mm' = mm
  BY <1>1
<1>2. CASE Head(todo) \in DOMAIN Posts
  <2>1. PICK x : x = Posts[Head(todo)]
    OBVIOUS
  <2>2. \/ mm' = mm
        \/ mm' = [mm EXCEPT !.made = mm.made \cup {x}, !.lost = TRUE]
        \/ mm' = [mm EXCEPT !.made = mm.made \cup {"hosted"}]
    BY <2>1 DEF CallFails, Half, world, tests
  <2> QED BY <2>2 DEF Maintenance
<1>3. CASE mm' = [mm EXCEPT !.made = mm.made \cup {"hosted"}]
  BY <1>3 DEF Maintenance
<1> QED BY <1>1, <1>2, <1>3 DEF CallFails, Half, world, tests

\* A step of the test keeps its order, and its end leaves nothing.
LEMMA AlertStep ==
    ASSUME Turn, Types, Tidy, Step, cmd = "alerts", ~mm.lost
    PROVE  (cmd' = "none" => mm'.made = {}) /\ Tidy'
<1>1. /\ Head(todo) \in {"block", "hostUuid", "postRegion", "postSite",
           "getHost", "patchHost", "postSchedule", "unblock", "revert",
           "delSchedule", "unconfigure", "delSite", "delRegion"}
      /\ todo # <<>> /\ cmd # "none"
  BY AlertPlace DEF Turn
<1>2. PICK n : n = Len(todo)
  OBVIOUS
<1>3. PICK d : d = mm.made
  OBVIOUS
<1>4. PICK e : e = mm.ids
  OBVIOUS
<1>5. PICK a : a = InOrch
  OBVIOUS
<1>6. n \in 1..14 /\ Tidies(n, d, e, a) /\ mm \in Maintenance
      /\ d \subseteq {"region", "site", "hosted", "schedule"}
  BY <1>2, <1>3, <1>4, <1>5, AlertPlace DEF Tidy, Types, MmType, Maintenance
<1>7. /\ Head(todo) = "block" => n = 14
      /\ Head(todo) = "hostUuid" => n = 13
      /\ Head(todo) = "postRegion" => n = 12
      /\ Head(todo) = "postSite" => n = 11
      /\ Head(todo) = "getHost" => n = 10
      /\ Head(todo) = "patchHost" => n = 9
      /\ Head(todo) = "postSchedule" => n = 8
      /\ Head(todo) = "unblock" => n \in {7, 5}
      /\ Head(todo) = "revert" => n = 6
      /\ Head(todo) = "delSchedule" => n = 4
      /\ Head(todo) = "unconfigure" => n = 3
      /\ Head(todo) = "delSite" => n = 2
      /\ Head(todo) = "delRegion" => n = 1
  BY <1>2, AlertPlace
<1>8. ASSUME cmd' = "none", mm'.made = {}
      PROVE  (cmd' = "none" => mm'.made = {}) /\ Tidy'
  BY <1>8 DEF Tidy
<1>9. ASSUME NEW m, cmd' = cmd, Len(todo') = m,
             Tidies(m, mm'.made, mm'.ids, InOrch')
      PROVE  (cmd' = "none" => mm'.made = {}) /\ Tidy'
  BY <1>9 DEF Tidy
<1>10. ASSUME Advance, n # 1, Tidies(n - 1, mm'.made, mm'.ids, InOrch')
       PROVE  (cmd' = "none" => mm'.made = {}) /\ Tidy'
  <2>1. Head(todo) # "uuid" /\ Len(todo) # 1
    BY <1>1, <1>2, <1>10
  <2>2. cmd' = cmd
    BY <1>10, <2>1 DEF Advance, AdvanceWith
  <2>3. Len(todo') = Len(todo) - 1
    BY <1>1, <1>10, <2>1, <2>2, Stepping DEF Leave
  <2>4. PICK m : m = n - 1
    OBVIOUS
  <2> QED BY <1>2, <1>9, <1>10, <2>2, <2>3, <2>4
<1>11. ASSUME GiveUp, n \in 7..14, Tidies(n, mm'.made, mm'.ids, InOrch')
       PROVE  (cmd' = "none" => mm'.made = {}) /\ Tidy'
  <2>1. Len(todo) \in 7..14 /\ Len(AfterAll) = 6
    BY <1>2, <1>11, CleaningUp
  <2>2. InTest
    <3>1. Len(todo) > Len(AfterAll)
      <4>1. PICK k : k = Len(todo)
        OBVIOUS
      <4>2. PICK l : l = Len(AfterAll)
        OBVIOUS
      <4>3. k \in 7..14 /\ l = 6
        BY <2>1, <4>1, <4>2
      <4>4. k > l
        BY <4>3
      <4> QED BY <4>1, <4>2, <4>4
    <3> QED BY <3>1 DEF InTest
  <2>3. cmd' = cmd /\ todo' = AfterAll
    BY <1>11, <2>2 DEF GiveUp
  <2>4. PICK m : m = 6
    OBVIOUS
  <2>5. PICK x : x = mm'.made
    OBVIOUS
  <2>6. PICK y : y = mm'.ids
    OBVIOUS
  <2>7. PICK z : z = InOrch'
    OBVIOUS
  <2>8. Tidies(6, x, y, z)
    <3>1. Tidies(n, x, y, z)
      BY <1>11, <2>5, <2>6, <2>7
    <3> QED BY <1>11, <3>1, StillTidy
  <2>9. Len(todo') = 6
    BY <2>1, <2>3
  <2>10. Tidies(m, mm'.made, mm'.ids, InOrch')
    BY <2>4, <2>5, <2>6, <2>7, <2>8
  <2> QED BY <1>9, <2>3, <2>4, <2>9, <2>10
<1>12. ASSUME kube' = kube PROVE InOrch' = a
  BY <1>5, <1>12 DEF InOrch
<1>13. CASE Reads
  <2>1. Head(todo) = "revert" /\ ReadOnly["revert"] = TRUE
    BY <1>1, <1>13 DEF Reads, ReadOnly
  <2>2. Advance
    <3>1. Require(ReadOnly[Head(todo)])
      BY <1>13 DEF Reads
    <3> QED BY <2>1, <3>1 DEF Require
  <2>3. mm' = mm /\ kube' = kube
    BY <1>13 DEF Reads, world, tests, edge
  <2>4. Tidies(n - 1, d, e, a) /\ n # 1
    BY <1>6, <1>7, <2>1 DEF Tidies
  <2> QED BY <1>3, <1>4, <1>10, <1>12, <2>2, <2>3, <2>4
<1>14. CASE ReadUuid
  <2>1. Head(todo) = "hostUuid" /\ n = 13
    BY <1>1, <1>7, <1>14 DEF ReadUuid, At
  <2>2. mm' = mm /\ kube' = kube
    BY <1>14 DEF ReadUuid, world, tests, edge
  <2>3. CASE PodRuns /\ AdvanceWith(1, [job EXCEPT !.uuid = enic.pod])
    <3>1. Len(todo) # 1
      BY <1>2, <2>1
    <3>2. PICK j : j = [job EXCEPT !.uuid = enic.pod]
      OBVIOUS
    <3>3. /\ cmd' = cmd
          /\ todo' = SubSeq(todo, 2, Len(todo))
      <4>1. /\ cmd' = cmd
            /\ todo' = SubSeq(todo, 1 + 1, Len(todo))
        BY <2>3, <3>1, <3>2 DEF AdvanceWith
      <4> QED BY <4>1
    <3>4. Len(todo') = 12
      <4>1. todo \in Seq(AllSteps) /\ Len(todo) = 13
        BY <1>1, <1>2, <2>1 DEF Turn
      <4> QED BY <3>3, <4>1
    <3>5. PICK m : m = 12
      OBVIOUS
    <3>6. a
      BY <1>5, <2>3 DEF PodRuns
    <3>7. Tidies(m, d, e, a)
      BY <1>6, <2>1, <3>5, <3>6 DEF Tidies
    <3> QED BY <1>3, <1>4, <1>9, <1>12, <2>2, <3>3, <3>4, <3>5, <3>7
  <2>4. CASE GiveUp
    BY <1>3, <1>4, <1>6, <1>11, <1>12, <2>1, <2>2, <2>4
  <2> QED BY <1>14, <2>1, <2>3, <2>4 DEF ReadUuid, At
<1>15. CASE BlockEnicTraffic
  <2>1. mm' = mm /\ kube' = kube
    BY <1>15 DEF BlockEnicTraffic, tests
  <2>2. \/ Head(todo) = "block" /\ (Advance \/ GiveUp)
        \/ Head(todo) = "unblock" /\ Require(InOrch)
    BY <1>15 DEF BlockEnicTraffic, At, Require
  <2>3. CASE GiveUp /\ n \in 7..14
    BY <1>3, <1>4, <1>6, <1>11, <1>12, <2>1, <2>3
  <2>4. CASE Advance
    <3>1. n # 1 /\ Tidies(n - 1, d, e, a)
      BY <1>6, <1>7, <2>2 DEF Tidies
    <3> QED BY <1>3, <1>4, <1>10, <1>12, <2>1, <2>4, <3>1
  <2>5. CASE GiveUp /\ n = 5 /\ ~InOrch
    <3>1. d = {}
      BY <1>5, <1>6, <2>5 DEF Tidies
    <3>2. ~InTest
      <4>1. Len(todo) = 5 /\ Len(AfterAll) = 6
        BY <1>2, <2>5, CleaningUp
      <4> QED BY <4>1 DEF InTest
    <3>3. cmd' = "none"
      BY <2>5, <3>2 DEF GiveUp, Return
    <3> QED BY <1>3, <1>8, <2>1, <3>1, <3>3
  <2>6. Head(todo) = "block" => n \in 7..14
    BY <1>7
  <2>7. Head(todo) = "unblock" => n \in 7..14 \/ n = 5
    BY <1>7
  <2>8. Require(InOrch) => Advance \/ (GiveUp /\ ~InOrch)
    BY DEF Require
  <2> QED BY <2>2, <2>3, <2>4, <2>5, <2>6, <2>7, <2>8
<1>16. CASE Post
  <2>1. PICK x : x = Posts[Head(todo)]
    OBVIOUS
  <2>2. \/ n = 12 /\ x = "region"
        \/ n = 11 /\ x = "site"
        \/ n = 8 /\ x = "schedule"
    BY <1>7, <1>16, <2>1 DEF Post, Posts
  <2>3. mm' = [mm EXCEPT !.made = mm.made \cup {x},
                         !.ids = mm.ids \cup {x}]
    BY <1>16, <2>1 DEF Post, Record
  <2>4. mm'.made = d \cup {x} /\ mm'.ids = e \cup {x}
    BY <1>3, <1>4, <1>6, <2>3 DEF Maintenance
  <2>5. Advance /\ kube' = kube
    BY <1>16 DEF Post, edge
  <2>6. n # 1 /\ Tidies(n - 1, d \cup {x}, e \cup {x}, a)
    BY <1>6, <2>2 DEF Tidies
  <2> QED BY <1>10, <1>12, <2>4, <2>5, <2>6
<1>17. CASE GetHost
  <2>1. Head(todo) = "getHost" /\ n = 10
    BY <1>7, <1>17 DEF GetHost, At
  <2>2. kube' = kube
    BY <1>17 DEF GetHost, edge
  <2>3. CASE Advance /\ mm' = [mm EXCEPT !.ids = mm.ids \cup {"host"}]
    <3>1. mm'.made = d /\ mm'.ids = e \cup {"host"}
      BY <1>3, <1>4, <1>6, <2>3 DEF Maintenance
    <3>2. n # 1 /\ Tidies(n - 1, d, e \cup {"host"}, a)
      BY <1>6, <2>1 DEF Tidies
    <3> QED BY <1>10, <1>12, <2>2, <2>3, <3>1, <3>2
  <2>4. CASE GiveUp /\ mm' = mm
    BY <1>3, <1>4, <1>6, <1>11, <1>12, <2>1, <2>2, <2>4
  <2> QED BY <1>17, <2>3, <2>4 DEF GetHost, Require
<1>18. CASE PatchHost
  <2>1. Head(todo) = "patchHost" /\ n = 9 /\ Advance /\ kube' = kube
    BY <1>7, <1>18 DEF PatchHost, At, edge
  <2>2. mm' = [mm EXCEPT !.made = mm.made \cup {"hosted"}]
    BY <1>18 DEF PatchHost
  <2>3. mm'.made = d \cup {"hosted"} /\ mm'.ids = e
    BY <1>3, <1>4, <1>6, <2>2 DEF Maintenance
  <2>4. n # 1 /\ Tidies(n - 1, d \cup {"hosted"}, e, a)
    BY <1>6, <2>1 DEF Tidies
  <2> QED BY <1>10, <1>12, <2>1, <2>3, <2>4
<1>19. CASE UnsetMaintenanceMode
  <2>1. PICK u : u = Undo[Head(todo)]
    OBVIOUS
  <2>2. \/ /\ n = 4 /\ u.gone = "schedule"
           /\ u.ids = {"schedule"} /\ u.first = {}
        \/ /\ n = 3 /\ u.gone = "hosted"
           /\ u.ids = {"host"} /\ u.first = {}
        \/ /\ n = 2 /\ u.gone = "site"
           /\ u.ids = {"region", "site"} /\ u.first = {"hosted"}
        \/ /\ n = 1 /\ u.gone = "region"
           /\ u.ids = {"region"} /\ u.first = {"site"}
    BY <1>7, <1>19, <2>1 DEF UnsetMaintenanceMode, Undo
  <2>3. u.first \cap d = {}
    BY <1>6, <2>2 DEF Tidies
  <2>4. Advance /\ kube' = kube
    BY <1>3, <1>19, <2>1, <2>3 DEF UnsetMaintenanceMode, Require, edge
  <2>5. \/ ~(u.ids \subseteq e) /\ mm' = mm
        \/ mm' = [mm EXCEPT !.made = mm.made \ {u.gone}]
    BY <1>3, <1>4, <1>19, <2>1, <2>3 DEF UnsetMaintenanceMode
  <2>6. mm'.made = d \ {u.gone} /\ mm'.ids = e
    <3>1. CASE ~(u.ids \subseteq e) /\ mm' = mm
      <4>1. u.gone \notin d
        BY <1>6, <2>2, <3>1 DEF Tidies
      <4> QED BY <1>3, <1>4, <3>1, <4>1
    <3>2. CASE mm' = [mm EXCEPT !.made = mm.made \ {u.gone}]
      BY <1>3, <1>4, <1>6, <3>2 DEF Maintenance
    <3> QED BY <2>5, <3>1, <3>2
  <2>7. CASE n = 1
    <3>1. u.gone = "region"
      BY <2>2, <2>7
    <3>2. /\ "schedule" \notin d /\ "hosted" \notin d
          /\ "site" \notin d
      BY <1>6, <2>7 DEF Tidies
    <3>3. d \ {"region"} = {}
      BY <1>6, <3>2
    <3>4. mm'.made = {}
      BY <2>6, <3>1, <3>3
    <3>5. cmd' = "none"
      <4>1. Len(todo) = 1
        BY <1>2, <2>7
      <4> QED BY <2>4, <4>1 DEF Advance, AdvanceWith, Return
    <3> QED BY <1>8, <3>4, <3>5
  <2>8. CASE n # 1
    <3>1. Tidies(n - 1, d \ {u.gone}, e, a)
      BY <1>6, <2>2, <2>8 DEF Tidies
    <3> QED BY <1>10, <1>12, <2>4, <2>6, <2>8, <3>1
  <2> QED BY <2>7, <2>8
<1>20. \/ Reads \/ ReadUuid \/ BlockEnicTraffic \/ Post \/ GetHost
       \/ PatchHost \/ UnsetMaintenanceMode
  BY AlertActions
<1> QED BY <1>13, <1>14, <1>15, <1>16, <1>17, <1>18, <1>19, <1>20

\* A call that fails ends the test, or has its clean-up begin.
LEMMA AlertFails ==
    ASSUME Turn, Types, Tidy, CallFails, cmd = "alerts", ~mm.lost
    PROVE  Tidy'
<1>1. /\ Head(todo) \in {"block", "hostUuid", "postRegion", "postSite",
           "getHost", "patchHost", "postSchedule", "unblock", "revert",
           "delSchedule", "unconfigure", "delSite", "delRegion"}
      /\ todo # <<>> /\ cmd # "none"
  BY AlertPlace DEF Turn
<1>2. SUFFICES ASSUME ~mm'.lost, cmd' = "alerts" PROVE Tidy'
  BY DEF Tidy
<1>3. InTest /\ todo' = AfterAll
  <2>1. GiveUp
    BY <1>1, <1>2 DEF CallFails, Return, Forgiven, Unlimited, Awaited
  <2> QED BY <1>2, <2>1 DEF GiveUp, Return
<1>4. Len(todo) \in 7..14 /\ Len(AfterAll) = 6
  <2>1. Len(todo) > Len(AfterAll)
    BY <1>3 DEF InTest
  <2>2. Len(todo) \in 1..14 /\ Len(AfterAll) = 6
    BY AlertPlace, CleaningUp
  <2>3. PICK k : k = Len(todo)
    OBVIOUS
  <2>4. PICK l : l = Len(AfterAll)
    OBVIOUS
  <2>5. k \in 1..14 /\ l = 6 /\ k > l
    BY <2>1, <2>2, <2>3, <2>4
  <2>6. k \in 7..14
    BY <2>5
  <2> QED BY <2>3, <2>4, <2>5, <2>6
<1>5. \/ mm' = mm
      \/ Head(todo) = "patchHost"
         /\ mm' = [mm EXCEPT !.made = mm.made \cup {"hosted"}]
  <2>1. mm \in Maintenance /\ (Head(todo) \in DOMAIN Posts
          /\ mm' = [mm EXCEPT !.made = mm.made \cup {Posts[Head(todo)]},
                              !.lost = TRUE] => mm'.lost = TRUE)
    BY DEF Types, MmType, Maintenance
  <2> QED BY <1>1, <1>2, <2>1 DEF CallFails, Half, At, world, tests
<1>6. kube' = kube
  BY <1>1 DEF CallFails, Half, At, world, edge
<1>7. PICK n : n = Len(todo)
  OBVIOUS
<1>8. PICK d : d = mm.made
  OBVIOUS
<1>9. PICK e : e = mm.ids
  OBVIOUS
<1>10. PICK a : a = InOrch
  OBVIOUS
<1>11. n \in 7..14 /\ Tidies(n, d, e, a) /\ mm \in Maintenance
  BY <1>4, <1>7, <1>8, <1>9, <1>10 DEF Tidy, Types, MmType
<1>12. (Head(todo) = "patchHost" => n = 9) /\ InOrch' = a
  BY <1>6, <1>7, <1>10, AlertPlace DEF InOrch
<1>13. Tidies(6, mm'.made, mm'.ids, InOrch')
  <2>1. CASE mm' = mm
    <3>1. Tidies(6, d, e, a)
      BY <1>11, StillTidy
    <3> QED BY <1>8, <1>9, <1>12, <2>1, <3>1
  <2>2. CASE /\ Head(todo) = "patchHost"
             /\ mm' = [mm EXCEPT !.made = mm.made \cup {"hosted"}]
    <3>1. mm'.made = d \cup {"hosted"} /\ mm'.ids = e
      BY <1>8, <1>9, <1>11, <2>2 DEF Maintenance
    <3>2. Tidies(6, d \cup {"hosted"}, e, a)
      BY <1>11, <1>12, <2>2 DEF Tidies
    <3> QED BY <1>12, <3>1, <3>2
  <2> QED BY <1>5, <2>1, <2>2
<1>14. Len(todo') = 6
  BY <1>3, <1>4
<1>15. PICK m : m = 6
  OBVIOUS
<1> QED BY <1>13, <1>14, <1>15 DEF Tidy

\* Every step of the system keeps the order.
LEMMA TidyGoesOn ==
    ASSUME Turn, Types, Tidy, Next
    PROVE  /\ Tidy'
           /\ (cmd = "alerts" /\ cmd' = "none" /\ fails' = fails) =>
                mm'.made = {} \/ mm.lost
<1>1. CASE \E c \in DOMAIN Program : \E a \in Args(c) : Start(c, a)
  <2>1. PICK c \in DOMAIN Program : \E a \in Args(c) : Start(c, a)
    BY <1>1
  <2>2. PICK a \in Args(c) : Start(c, a)
    BY <2>1
  <2>3. /\ cmd = "none" /\ cmd' = c /\ todo' = Program[c]
        /\ c = "alerts" => mm' = NoMaintenance
    BY <2>2 DEF Start, Begin
  <2>4. mm' = NoMaintenance => mm'.made = {}
    BY DEF NoMaintenance
  <2>5. cmd' = "alerts" => Len(todo') = 14
    <3>1. AtAlert(Program["alerts"])
      BY Alerting
    <3> QED BY <2>3, <3>1 DEF AtAlert
  <2>6. PICK d : d = mm'.made
    OBVIOUS
  <2>7. d = {} => Tidies(14, d, mm'.ids, InOrch')
    BY DEF Tidies
  <2> QED BY <2>3, <2>4, <2>5, <2>6, <2>7 DEF Tidy
<1>2. CASE Step
  <2>1. Moves
    BY <1>2, StepMoves
  <2>2. CASE cmd = "alerts" /\ ~mm.lost
    BY <1>2, <2>2, AlertStep
  <2>3. CASE cmd = "alerts" /\ mm.lost
    <3>1. mm'.lost
      <4>1. mm \in Maintenance
        BY DEF Types, MmType
      <4> QED BY <1>2, <2>3, <4>1, LostForGood
    <3> QED BY <2>3, <3>1 DEF Tidy
  <2>4. CASE cmd # "alerts"
    BY <2>1, <2>4 DEF Tidy, Moves, Stay, Leave, Go, Back
  <2> QED BY <2>2, <2>3, <2>4
<1>3. CASE CallFails
  <2>1. fails' # fails
    BY <1>3 DEF CallFails, Fault, Types, CommandType
  <2>2. CASE cmd = "alerts" /\ ~mm.lost
    BY <1>3, <2>1, <2>2, AlertFails
  <2>3. CASE cmd = "alerts" /\ mm.lost
    <3>1. mm'.lost
      <4>1. mm \in Maintenance
        BY DEF Types, MmType
      <4> QED BY <1>3, <2>3, <4>1, LostThrough
    <3> QED BY <2>1, <2>3, <3>1 DEF Tidy
  <2>4. CASE cmd # "alerts"
    <3>1. Stay \/ Leave \/ Back \/ Go
      BY <1>3, FailMoves DEF Types
    <3> QED BY <2>1, <2>4, <3>1 DEF Tidy, Stay, Leave, Back, Go
  <2> QED BY <2>1, <2>2, <2>3, <2>4
<1>4. CASE Surroundings
  <2>1. UNCHANGED command /\ UNCHANGED <<kube, mm>>
    BY <1>4 DEF Surroundings, ArgoCD, PodStarts, PodLost, AgentRuns,
                ClusterChanges, Inventory, tests, edge
  <2> QED BY <2>1 DEF command, Tidy, InOrch
<1> QED BY <1>1, <1>2, <1>3, <1>4 DEF Next

\* However far the test came with setting the maintenance mode, its clean-up
\* takes away the region, site, host configuration and schedule that were
\* made, unless a call of the clean-up fails or an answer with an id was lost
\* (o11y_helpers.go:329, 404).
THEOREM MaintenanceIsUndone == Spec => MaintenanceUndone
<1>1. Init => Tidy
  BY DEF Init, Tidy
<1>2. ASSUME IInv, Tidy, [Next]_vars PROVE Tidy'
  <2>1. CASE Next
    BY <1>2, <2>1, TidyGoesOn DEF IInv
  <2>2. CASE UNCHANGED vars
    BY <1>2, <2>2 DEF vars, world, edge, tests, command, Tidy, InOrch
  <2> QED BY <1>2, <2>1, <2>2
<1>3. ASSUME IInv, Tidy, [Next]_vars
      PROVE  [(cmd = "alerts" /\ cmd' = "none" /\ fails' = fails) =>
                mm'.made = {} \/ mm.lost]_vars
  BY <1>3, TidyGoesOn DEF IInv
<1> QED BY <1>1, <1>2, <1>3, Inductive, PTL DEF Spec, MaintenanceUndone

-----------------------------------------------------------------------------
(* ENiC and its cluster, deployed and deployed again *)

\* The deployment of ENiC and of its cluster, step by step.
AtEdge(p) ==
    /\ p \in Seq(Steps) /\ Len(p) = 28
    /\ p[1] = "getProject" /\ p[2] = "users" /\ p[3] = "projectId"
    /\ p[4] = "deleteCluster" /\ p[5] = "clusterGone" /\ p[6] = "useOrch"
    /\ p[7] = "rmEntry" /\ p[8] = "uninstall" /\ p[9] = "deleteSet"
    /\ p[10] = "deletePod" /\ p[11] = "deployEnic" /\ p[12] = "uuid"
    /\ p[13] = "register" /\ p[14] = "uuid" /\ p[15] = "hostId"
    /\ p[16] = "osId" /\ p[17] = "instance" /\ p[18] = "appReady"
    /\ p[19] = "podRunning" /\ p[20] = "guid" /\ p[21] = "createNs"
    /\ p[22] = "createCluster" /\ p[23] = "clusterReady"
    /\ p[24] = "labels" /\ p[25] = "genEntry" /\ p[26] = "useEdge"
    /\ p[27] = "fleetReady" /\ p[28] = "useOrch"

\* The program of deploy:edgeCluster is that sequence (edge_cluster.go:41).
LEMMA EdgeSteps == AtEdge(Program["edgeCluster"])
<1>1. PICK t : t = GetTenant
  OBVIOUS
<1>2. PICK c : c = CleanUpEnic
  OBVIOUS
<1>3. PICK d : d = <<"deployEnic">>
  OBVIOUS
<1>4. PICK r : r = RegisterEnic
  OBVIOUS
<1>5. PICK v : v = ProvisionEnic
  OBVIOUS
<1>6. PICK w : w = WaitForEnic
  OBVIOUS
<1>7. PICK g : g = <<"guid", "createNs", "createCluster", "clusterReady",
                     "labels", "genEntry", "useEdge", "fleetReady",
                     "useOrch">>
  OBVIOUS
<1>8. /\ t \in Seq(Steps) /\ Len(t) = 3 /\ t[1] = "getProject"
      /\ t[2] = "users" /\ t[3] = "projectId"
  BY <1>1 DEF GetTenant, Steps
<1>9. /\ c \in Seq(Steps) /\ Len(c) = 7 /\ c[1] = "deleteCluster"
      /\ c[2] = "clusterGone" /\ c[3] = "useOrch" /\ c[4] = "rmEntry"
      /\ c[5] = "uninstall" /\ c[6] = "deleteSet" /\ c[7] = "deletePod"
  BY <1>2 DEF CleanUpEnic, Steps
<1>10. d \in Seq(Steps) /\ Len(d) = 1 /\ d[1] = "deployEnic"
  BY <1>3 DEF Steps
<1>11. /\ r \in Seq(Steps) /\ Len(r) = 2 /\ r[1] = "uuid"
       /\ r[2] = "register"
  BY <1>4 DEF RegisterEnic, Steps
<1>12. /\ v \in Seq(Steps) /\ Len(v) = 4 /\ v[1] = "uuid"
       /\ v[2] = "hostId" /\ v[3] = "osId" /\ v[4] = "instance"
  BY <1>5 DEF ProvisionEnic, Steps
<1>13. /\ w \in Seq(Steps) /\ Len(w) = 2 /\ w[1] = "appReady"
       /\ w[2] = "podRunning"
  BY <1>6 DEF WaitForEnic, Steps
<1>14. /\ g \in Seq(Steps) /\ Len(g) = 9 /\ g[1] = "guid"
       /\ g[2] = "createNs" /\ g[3] = "createCluster"
       /\ g[4] = "clusterReady" /\ g[5] = "labels" /\ g[6] = "genEntry"
       /\ g[7] = "useEdge" /\ g[8] = "fleetReady" /\ g[9] = "useOrch"
  BY <1>7 DEF Steps
<1>15. PICK x : x = c \o d
  OBVIOUS
<1>16. x \in Seq(Steps) /\ Joins(x, c, d)
  BY <1>9, <1>10, <1>15, Joining
<1>17. /\ Len(x) = 8 /\ x[1] = "deleteCluster"
       /\ x[2] = "clusterGone" /\ x[3] = "useOrch" /\ x[4] = "rmEntry"
       /\ x[5] = "uninstall" /\ x[6] = "deleteSet" /\ x[7] = "deletePod"
       /\ x[8] = "deployEnic"
  BY <1>9, <1>10, <1>16 DEF Joins
<1>18. PICK y : y = x \o r
  OBVIOUS
<1>19. y \in Seq(Steps) /\ Joins(y, x, r)
  BY <1>11, <1>16, <1>18, Joining
<1>20. /\ Len(y) = 10 /\ y[1] = "deleteCluster"
       /\ y[2] = "clusterGone" /\ y[3] = "useOrch" /\ y[4] = "rmEntry"
       /\ y[5] = "uninstall" /\ y[6] = "deleteSet" /\ y[7] = "deletePod"
       /\ y[8] = "deployEnic" /\ y[9] = "uuid" /\ y[10] = "register"
  BY <1>11, <1>17, <1>19 DEF Joins
<1>21. PICK z : z = y \o v
  OBVIOUS
<1>22. z \in Seq(Steps) /\ Joins(z, y, v)
  BY <1>12, <1>19, <1>21, Joining
<1>23. /\ Len(z) = 14 /\ z[1] = "deleteCluster"
       /\ z[2] = "clusterGone" /\ z[3] = "useOrch" /\ z[4] = "rmEntry"
       /\ z[5] = "uninstall" /\ z[6] = "deleteSet" /\ z[7] = "deletePod"
       /\ z[8] = "deployEnic" /\ z[9] = "uuid" /\ z[10] = "register"
       /\ z[11] = "uuid" /\ z[12] = "hostId" /\ z[13] = "osId"
       /\ z[14] = "instance"
  BY <1>12, <1>20, <1>22 DEF Joins
<1>24. PICK m : m = z \o w
  OBVIOUS
<1>25. m \in Seq(Steps) /\ Joins(m, z, w)
  BY <1>13, <1>22, <1>24, Joining
<1>26. /\ Len(m) = 16 /\ m[1] = "deleteCluster"
       /\ m[2] = "clusterGone" /\ m[3] = "useOrch" /\ m[4] = "rmEntry"
       /\ m[5] = "uninstall" /\ m[6] = "deleteSet" /\ m[7] = "deletePod"
       /\ m[8] = "deployEnic" /\ m[9] = "uuid" /\ m[10] = "register"
       /\ m[11] = "uuid" /\ m[12] = "hostId" /\ m[13] = "osId"
       /\ m[14] = "instance" /\ m[15] = "appReady" /\ m[16] = "podRunning"
  BY <1>13, <1>23, <1>25 DEF Joins
<1>27. PICK n : n = m \o g
  OBVIOUS
<1>28. n \in Seq(Steps) /\ Joins(n, m, g)
  BY <1>14, <1>25, <1>27, Joining
<1>29. /\ Len(n) = 25 /\ \A i \in 1..16 : n[i] = m[i]
       /\ \A i \in 1..9 : n[16 + i] = g[i]
  BY <1>14, <1>26, <1>28 DEF Joins
<1>30. /\ n[17] = "guid" /\ n[18] = "createNs"
       /\ n[19] = "createCluster" /\ n[20] = "clusterReady"
       /\ n[21] = "labels" /\ n[22] = "genEntry" /\ n[23] = "useEdge"
       /\ n[24] = "fleetReady" /\ n[25] = "useOrch"
  <2>1. /\ n[17] = g[1] /\ n[18] = g[2] /\ n[19] = g[3] /\ n[20] = g[4]
        /\ n[21] = g[5] /\ n[22] = g[6] /\ n[23] = g[7] /\ n[24] = g[8]
        /\ n[25] = g[9]
    BY <1>29
  <2> QED BY <1>14, <2>1
<1>31. PICK p : p = t \o n
  OBVIOUS
<1>32. p \in Seq(Steps) /\ Joins(p, t, n)
  BY <1>8, <1>28, <1>31, Joining
<1>33. /\ Len(p) = 28 /\ \A i \in 1..3 : p[i] = t[i]
       /\ \A i \in 1..25 : p[3 + i] = n[i]
  BY <1>8, <1>29, <1>32 DEF Joins
<1>34. /\ p[1] = t[1] /\ p[2] = t[2] /\ p[3] = t[3]
       /\ p[4] = n[1] /\ p[5] = n[2] /\ p[6] = n[3] /\ p[7] = n[4]
       /\ p[8] = n[5] /\ p[9] = n[6] /\ p[10] = n[7] /\ p[11] = n[8]
       /\ p[12] = n[9] /\ p[13] = n[10] /\ p[14] = n[11]
       /\ p[15] = n[12] /\ p[16] = n[13] /\ p[17] = n[14]
       /\ p[18] = n[15] /\ p[19] = n[16]
  BY <1>33
<1>35. /\ p[20] = n[17] /\ p[21] = n[18] /\ p[22] = n[19]
       /\ p[23] = n[20] /\ p[24] = n[21] /\ p[25] = n[22]
       /\ p[26] = n[23] /\ p[27] = n[24] /\ p[28] = n[25]
  BY <1>33
<1>36. /\ n[1] = m[1] /\ n[2] = m[2] /\ n[3] = m[3] /\ n[4] = m[4]
       /\ n[5] = m[5] /\ n[6] = m[6] /\ n[7] = m[7] /\ n[8] = m[8]
       /\ n[9] = m[9] /\ n[10] = m[10] /\ n[11] = m[11] /\ n[12] = m[12]
       /\ n[13] = m[13] /\ n[14] = m[14] /\ n[15] = m[15]
       /\ n[16] = m[16]
  BY <1>29
<1>37. AtEdge(p)
  <2>1. /\ p[1] = "getProject" /\ p[2] = "users" /\ p[3] = "projectId"
        /\ p[4] = "deleteCluster" /\ p[5] = "clusterGone"
        /\ p[6] = "useOrch" /\ p[7] = "rmEntry" /\ p[8] = "uninstall"
        /\ p[9] = "deleteSet" /\ p[10] = "deletePod"
    BY <1>8, <1>26, <1>34, <1>36
  <2>2. /\ p[11] = "deployEnic" /\ p[12] = "uuid" /\ p[13] = "register"
        /\ p[14] = "uuid" /\ p[15] = "hostId" /\ p[16] = "osId"
        /\ p[17] = "instance" /\ p[18] = "appReady"
        /\ p[19] = "podRunning"
    BY <1>26, <1>34, <1>36
  <2> QED BY <1>30, <1>32, <1>33, <1>35, <2>1, <2>2 DEF AtEdge
<1>38. Program["edgeCluster"] = p
  <2>1. DeployEnicCluster = n
    BY <1>2, <1>3, <1>4, <1>5, <1>6, <1>7, <1>15, <1>18, <1>21, <1>24, <1>27
       DEF DeployEnicCluster
  <2> QED BY <1>1, <1>31, <2>1 DEF Program
<1> QED BY <1>37, <1>38

\* When the step k is next, what the steps before it have brought about,
\* unless the pod was lost meanwhile: there is no cluster until one is made
\* (c); release, stateful set and pod are gone one after the other, so that
\* nothing brings the old pod up again (e); the new pod has a UUID that no
\* host was ever registered under, then is registered and provisioned (h); the
\* UUID that was read for each of these is that of the pod which runs (j); the
\* cluster is made on that node, gets ready and carries its labels (a); and
\* the kubeconfig entry leads to it (n).
Deployed(k, c, h, e, j, n, a) ==
    /\ k \in 6..22 => c.st = "none"
    /\ k \in 9..11 => ~e.release
    /\ k \in 10..11 => ~e.set
    /\ k = 11 => e.pod = 0
    /\ k \in 11..13 => e.pod \notin h.reg
    /\ k \in 11..17 => e.pod \notin h.inst
    /\ k >= 12 => e.project = a.project
    /\ k >= 13 => e.pod # 0 /\ j.uuid = e.pod
    /\ k >= 14 => e.pod \in h.reg
    /\ k >= 18 => e.pod \in h.inst
    /\ k \in 21..22 => j.guid = e.pod
    /\ k = 23 => c.st \in {"creating", "ready"}
    /\ k >= 23 => c.node = e.pod
    /\ k >= 24 => c.st = "ready"
    /\ k >= 25 => a.labels \subseteq c.labels
    /\ k >= 26 => n.node = c.node /\ n.made = "whole"

\* ... for the command that runs.
Deploying ==
    (cmd \in EdgeDeployments /\ pods.at # done) =>
      Deployed(29 - Len(todo), clusters[arg.project], hosts[arg.project],
               enic, job, kube.entry, arg)

\* Its steps.
EdgeHeads ==
    {"getProject", "users", "projectId", "deleteCluster", "clusterGone",
     "useOrch", "rmEntry", "uninstall", "deleteSet", "deletePod",
     "deployEnic", "uuid", "register", "hostId", "osId", "instance",
     "appReady", "podRunning", "guid", "createNs", "createCluster",
     "clusterReady", "labels", "genEntry", "useEdge", "fleetReady"}

\* Step and place tell each other; the UUID and the Orchestrator's context are
\* asked for twice.
EdgeStep(k, x) ==
    /\ x \in EdgeHeads
    /\ x = "getProject" => k = 1
    /\ x = "users" => k = 2
    /\ x = "projectId" => k = 3
    /\ x = "deleteCluster" => k = 4
    /\ x = "clusterGone" => k = 5
    /\ x = "useOrch" => k \in {6, 28}
    /\ x = "rmEntry" => k = 7
    /\ x = "uninstall" => k = 8
    /\ x = "deleteSet" => k = 9
    /\ x = "deletePod" => k = 10
    /\ x = "deployEnic" => k = 11
    /\ x = "uuid" => k \in {12, 14}
    /\ x = "register" => k = 13
    /\ x = "hostId" => k = 15
    /\ x = "osId" => k = 16
    /\ x = "instance" => k = 17
    /\ x = "appReady" => k = 18
    /\ x = "podRunning" => k = 19
    /\ x = "guid" => k = 20
    /\ x = "createNs" => k = 21
    /\ x = "createCluster" => k = 22
    /\ x = "clusterReady" => k = 23
    /\ x = "labels" => k = 24
    /\ x = "genEntry" => k = 25
    /\ x = "useEdge" => k = 26
    /\ x = "fleetReady" => k = 27

\* That is so in the sequence ...
LEMMA EdgeStepAt ==
    ASSUME NEW p, AtEdge(p), NEW k \in 1..28 PROVE EdgeStep(k, p[k])
<1>1. CASE k \in 1..3
  <2>1. \/ k = 1 /\ p[k] = "getProject"
        \/ k = 2 /\ p[k] = "users"
        \/ k = 3 /\ p[k] = "projectId"
    BY <1>1 DEF AtEdge
  <2> QED BY <2>1 DEF EdgeStep, EdgeHeads
<1>2. CASE k \in 4..6
  <2>1. \/ k = 4 /\ p[k] = "deleteCluster"
        \/ k = 5 /\ p[k] = "clusterGone"
        \/ k = 6 /\ p[k] = "useOrch"
    BY <1>2 DEF AtEdge
  <2> QED BY <2>1 DEF EdgeStep, EdgeHeads
<1>3. CASE k \in 7..9
  <2>1. \/ k = 7 /\ p[k] = "rmEntry"
        \/ k = 8 /\ p[k] = "uninstall"
        \/ k = 9 /\ p[k] = "deleteSet"
    BY <1>3 DEF AtEdge
  <2> QED BY <2>1 DEF EdgeStep, EdgeHeads
<1>4. CASE k \in 10..12
  <2>1. \/ k = 10 /\ p[k] = "deletePod"
        \/ k = 11 /\ p[k] = "deployEnic"
        \/ k = 12 /\ p[k] = "uuid"
    BY <1>4 DEF AtEdge
  <2> QED BY <2>1 DEF EdgeStep, EdgeHeads
<1>5. CASE k \in 13..15
  <2>1. \/ k = 13 /\ p[k] = "register"
        \/ k = 14 /\ p[k] = "uuid"
        \/ k = 15 /\ p[k] = "hostId"
    BY <1>5 DEF AtEdge
  <2> QED BY <2>1 DEF EdgeStep, EdgeHeads
<1>6. CASE k \in 16..18
  <2>1. \/ k = 16 /\ p[k] = "osId"
        \/ k = 17 /\ p[k] = "instance"
        \/ k = 18 /\ p[k] = "appReady"
    BY <1>6 DEF AtEdge
  <2> QED BY <2>1 DEF EdgeStep, EdgeHeads
<1>7. CASE k \in 19..21
  <2>1. \/ k = 19 /\ p[k] = "podRunning"
        \/ k = 20 /\ p[k] = "guid"
        \/ k = 21 /\ p[k] = "createNs"
    BY <1>7 DEF AtEdge
  <2> QED BY <2>1 DEF EdgeStep, EdgeHeads
<1>8. CASE k \in 22..24
  <2>1. \/ k = 22 /\ p[k] = "createCluster"
        \/ k = 23 /\ p[k] = "clusterReady"
        \/ k = 24 /\ p[k] = "labels"
    BY <1>8 DEF AtEdge
  <2> QED BY <2>1 DEF EdgeStep, EdgeHeads
<1>9. CASE k \in 25..28
  <2>1. \/ k = 25 /\ p[k] = "genEntry"
        \/ k = 26 /\ p[k] = "useEdge"
        \/ k = 27 /\ p[k] = "fleetReady"
        \/ k = 28 /\ p[k] = "useOrch"
    BY <1>9 DEF AtEdge
  <2> QED BY <2>1 DEF EdgeStep, EdgeHeads
<1> QED BY <1>1, <1>2, <1>3, <1>4, <1>5, <1>6, <1>7, <1>8, <1>9

\* ... and so for the command that runs.
LEMMA EdgePlace ==
    ASSUME Turn, cmd \in EdgeDeployments, NEW k, k = 29 - Len(todo)
    PROVE  k \in 1..28 /\ Len(todo) = 29 - k /\ EdgeStep(k, Head(todo))
<1>1. PICK p : p = Program[cmd]
  OBVIOUS
<1>2. PICK i : i = Len(p) - Len(todo) + 1
  OBVIOUS
<1>3. AtEdge(p)
  <2>1. Program["edgeCluster"] = Program["edgeClusterWithProject"]
    BY DEF Program
  <2> QED BY <1>1, <2>1, EdgeSteps DEF EdgeDeployments
<1>4. cmd # "none"
  BY DEF EdgeDeployments
<1>5. /\ Len(todo) \in Nat /\ Len(todo) >= 1 /\ i \in 1..Len(p)
      /\ Head(todo) = p[i]
  BY <1>1, <1>2, <1>4, Now
<1>6. i = k /\ k \in 1..28 /\ Len(todo) = 29 - k
  BY <1>2, <1>3, <1>5 DEF AtEdge
<1>7. Head(todo) = p[k]
  BY <1>5, <1>6
<1> QED BY <1>3, <1>6, <1>7, EdgeStepAt

\* Leaving steps behind, when that is not the end.
LEMMA Leaving ==
    ASSUME Turn, cmd # "none", NEW n \in 1..3, n < Len(todo), NEW j,
           AdvanceWith(n, j)
    PROVE  /\ UNCHANGED <<cmd, arg, ok, done>> /\ job' = j
           /\ Len(todo') = Len(todo) - n
<1>1. todo \in Seq(AllSteps) /\ Len(todo) \in Nat /\ Len(todo) # n
  BY DEF Turn
<1>2. /\ todo' = SubSeq(todo, n + 1, Len(todo)) /\ job' = j
      /\ UNCHANGED <<cmd, arg, ok, done>>
  BY <1>1 DEF AdvanceWith
<1> QED BY <1>1, <1>2

\* What a deployment that succeeds has brought about.
Landed ==
    LET c == clusters'[project] IN
    /\ c.st = "ready" /\ arg.labels \subseteq c.labels
    /\ c.node = enic'.pod /\ enic'.project = project
    /\ c.node \in hosts'[project].reg \cap hosts'[project].inst
    /\ kube'.entry.node = c.node /\ kube'.at = "orch"

\* Why a deployment whose calls work may fail nevertheless.
Excused == ticks = 0 \/ ~InOrch \/ job.user # project

\* A step of a deployment leads to the next place, or to one of these ends.
Fate ==
    /\ cmd' = "none" /\ ok' => Landed
    /\ cmd' = "none" /\ ~ok' => Excused
    /\ Deploying'

\* At the next place, what is said of it has to hold.
LEMMA NextPlace ==
    ASSUME cmd \in EdgeDeployments, NEW m \in 1..28, Len(todo') = 29 - m,
           cmd' = cmd, arg' = arg,
           Deployed(m, clusters'[project], hosts'[project], enic', job',
                    kube'.entry, arg)
    PROVE  Fate
<1>1. cmd' # "none"
  BY DEF EdgeDeployments
<1>2. PICK l : l = Len(todo')
  OBVIOUS
<1>3. 29 - l = m
  BY <1>2
<1>4. 29 - Len(todo') = m
  BY <1>2, <1>3
<1> QED BY <1>1, <1>4 DEF Fate, Deploying, project

\* The place behind the current one.
LEMMA Onward ==
    ASSUME NEW k \in 1..27, NEW l, l = 29 - k
    PROVE  1 < l /\ k + 1 \in 1..28 /\ l - 1 = 29 - (k + 1)
  OBVIOUS

\* A step that is left behind leads to it.
LEMMA GoesOn ==
    ASSUME Turn, cmd \in EdgeDeployments, NEW k \in 1..27,
           Len(todo) = 29 - k, NEW j, AdvanceWith(1, j),
           Deployed(k + 1, clusters'[project], hosts'[project], enic', j,
                    kube'.entry, arg)
    PROVE  Fate
<1>1. cmd # "none"
  BY DEF EdgeDeployments
<1>2. PICK l : l = Len(todo)
  OBVIOUS
<1>3. 1 < l /\ k + 1 \in 1..28 /\ l - 1 = 29 - (k + 1)
  BY <1>2, Onward
<1>4. PICK n : n = 1
  OBVIOUS
<1>5. n \in 1..3 /\ n < Len(todo) /\ AdvanceWith(n, j)
  BY <1>2, <1>3, <1>4
<1>6. /\ UNCHANGED <<cmd, arg, ok, done>> /\ job' = j
      /\ Len(todo') = Len(todo) - n
  BY <1>1, <1>5, Leaving
<1>7. PICK m : m = k + 1
  OBVIOUS
<1>8. m \in 1..28 /\ Len(todo') = 29 - m
  BY <1>2, <1>3, <1>4, <1>6, <1>7
<1> QED BY <1>6, <1>7, <1>8, NextPlace

\* A step that gives up needs its excuse.
LEMMA Quits ==
    ASSUME cmd \in EdgeDeployments, GiveUp, Excused PROVE Fate
<1>1. cmd # "alerts" /\ "none" \notin EdgeDeployments
  BY DEF EdgeDeployments
<1>2. Return(FALSE)
  BY <1>1 DEF GiveUp, InTest
<1>3. cmd' = "none" /\ ~ok'
  BY <1>2 DEF Return
<1> QED BY <1>1, <1>3 DEF Fate, Deploying

\* A wait that goes on.
LEMMA Lingers ==
    ASSUME cmd \in EdgeDeployments, NEW k \in 1..28, Len(todo) = 29 - k,
           UNCHANGED <<cmd, arg, todo, job>>,
           Deployed(k, clusters'[project], hosts'[project], enic', job,
                    kube'.entry, arg)
    PROVE  Fate
  BY NextPlace

\* What is known while a deployment runs.
LEMMA EdgeState ==
    ASSUME Turn, Types, Deploying, cmd \in EdgeDeployments, pods.at # done
    PROVE  /\ cmd # "none" /\ todo # <<>>
           /\ project = arg.project /\ project \in Projects
           /\ job \in Locals(pods.made)
           /\ clusters \in [Projects -> Cluster(pods.made)]
           /\ hosts \in [Projects -> Host(pods.made)]
           /\ kube \in Kube(pods.made)
           /\ DOMAIN enic = {"release", "app", "set", "pod", "agent",
                             "project", "blocked"}
           /\ Deployed(29 - Len(todo), clusters[project], hosts[project],
                       enic, job, kube.entry, arg)
<1>1. cmd # "none"
  BY DEF EdgeDeployments
<1>2. project \in Projects
  BY <1>1, Ready DEF project
<1> QED BY <1>1, <1>2 DEF Turn, Types, ClustersType, HostsType, KubeType,
           EnicType, Deploying, project

\* The steps that only read: the host is found under the UUID that was read,
\* if it was registered in the same project.
LEMMA EdgeReads ==
    ASSUME Turn, Types, Deploying, cmd \in EdgeDeployments, pods.at # done,
           Reads
    PROVE  Fate
<1>1. PICK k : k = 29 - Len(todo)
  OBVIOUS
<1>2. k \in 1..28 /\ Len(todo) = 29 - k /\ EdgeStep(k, Head(todo))
  BY <1>1, EdgePlace
<1>3. PICK j : j = job
  OBVIOUS
<1>4. PICK c : c = clusters[project]
  OBVIOUS
<1>5. PICK h : h = hosts[project]
  OBVIOUS
<1>6. PICK e : e = kube.entry
  OBVIOUS
<1>7. Deployed(k, c, h, enic, j, e, arg)
  BY <1>1, <1>3, <1>4, <1>5, <1>6, EdgeState
<1>8. /\ Head(todo) \in {"getProject", "projectId", "hostId", "osId",
                       "createNs"}
      /\ Require(ReadOnly[Head(todo)])
      /\ UNCHANGED <<clusters, hosts, enic, kube>>
  BY <1>2 DEF Reads, ReadOnly, EdgeStep, EdgeHeads, world, edge
<1>9. k \in {1, 3, 15, 16, 21} /\ (Head(todo) = "hostId" => k = 15)
  BY <1>2, <1>8 DEF EdgeStep
<1>10. CASE Advance
  <2>1. Deployed(k + 1, c, h, enic, j, e, arg)
    BY <1>7, <1>9 DEF Deployed
  <2>2. k \in 1..27 /\ AdvanceWith(1, j)
    BY <1>3, <1>9, <1>10 DEF Advance
  <2>3. Deployed(k + 1, clusters'[project], hosts'[project], enic', j,
                 kube'.entry, arg)
    BY <1>4, <1>5, <1>6, <1>8, <2>1
  <2> QED BY <1>2, <2>2, <2>3, GoesOn
<1>11. CASE GiveUp /\ ~ReadOnly[Head(todo)]
  <2>1. /\ ReadOnly["getProject"] = InOrch
        /\ ReadOnly["projectId"] = InOrch
        /\ ReadOnly["createNs"] = InOrch
        /\ ReadOnly["osId"] = TRUE
        /\ ReadOnly["hostId"] =
             (job.uuid \in hosts[project].reg /\ job.user = project)
    BY DEF ReadOnly
  <2>2. CASE Head(todo) \in {"getProject", "projectId", "createNs"}
    BY <1>11, <2>1, <2>2, Quits DEF Excused
  <2>3. CASE Head(todo) = "hostId"
    <3>1. j.uuid \in h.reg
      BY <1>7, <1>9, <2>3 DEF Deployed
    <3>2. Excused
      BY <1>3, <1>5, <1>11, <2>1, <2>3, <3>1 DEF Excused
    <3> QED BY <1>11, <3>2, Quits
  <2>4. Head(todo) # "osId"
    BY <1>11, <2>1
  <2> QED BY <1>8, <2>2, <2>3, <2>4
<1> QED BY <1>8, <1>10, <1>11 DEF Require

\* The users that are found last are of some project.
LEMMA EdgeUsers ==
    ASSUME Turn, Types, Deploying, cmd \in EdgeDeployments, pods.at # done,
           Users
    PROVE  Fate
<1>1. PICK k : k = 29 - Len(todo)
  OBVIOUS
<1>2. k \in 1..28 /\ Len(todo) = 29 - k /\ EdgeStep(k, Head(todo))
  BY <1>1, EdgePlace
<1>3. PICK j : j = job
  OBVIOUS
<1>4. PICK c : c = clusters[project]
  OBVIOUS
<1>5. PICK h : h = hosts[project]
  OBVIOUS
<1>6. PICK e : e = kube.entry
  OBVIOUS
<1>7. Deployed(k, c, h, enic, j, e, arg)
  BY <1>1, <1>3, <1>4, <1>5, <1>6, EdgeState
<1>8. k = 2 /\ UNCHANGED <<clusters, hosts, enic, kube>>
  BY <1>2 DEF Users, At, EdgeStep, world, edge
<1>9. PICK u \in Projects : AdvanceWith(1, [job EXCEPT !.user = u])
  BY DEF Users
<1>10. PICK x : x = [job EXCEPT !.user = u]
  OBVIOUS
<1>11. k \in 1..27 /\ AdvanceWith(1, x)
  BY <1>8, <1>9, <1>10
<1>12. Deployed(k + 1, c, h, enic, x, e, arg)
  BY <1>8 DEF Deployed
<1>13. Deployed(k + 1, clusters'[project], hosts'[project], enic', x,
                kube'.entry, arg)
  BY <1>4, <1>5, <1>6, <1>8, <1>12
<1> QED BY <1>2, <1>11, <1>13, GoesOn

\* The UUID is that of the pod which runs, at the first two places and for the
\* cluster.
LEMMA EdgeUuid ==
    ASSUME Turn, Types, Deploying, cmd \in EdgeDeployments, pods.at # done,
           ReadUuid
    PROVE  Fate
<1>1. PICK k : k = 29 - Len(todo)
  OBVIOUS
<1>2. k \in 1..28 /\ Len(todo) = 29 - k /\ EdgeStep(k, Head(todo))
  BY <1>1, EdgePlace
<1>3. PICK j : j = job
  OBVIOUS
<1>4. PICK c : c = clusters[project]
  OBVIOUS
<1>5. PICK h : h = hosts[project]
  OBVIOUS
<1>6. PICK e : e = kube.entry
  OBVIOUS
<1>7. Deployed(k, c, h, enic, j, e, arg)
  BY <1>1, <1>3, <1>4, <1>5, <1>6, EdgeState
<1>8. /\ UNCHANGED <<clusters, hosts, enic, kube>>
      /\ \/ Head(todo) = "uuid" /\ k \in {12, 14}
         \/ Head(todo) = "guid" /\ k = 20
  BY <1>2 DEF ReadUuid, At, EdgeStep, EdgeHeads, world, edge
<1>9. PICK p : p = enic.pod
  OBVIOUS
<1>10. j \in Locals(pods.made)
  BY <1>3, EdgeState
<1>11. ASSUME NEW x, AdvanceWith(1, x),
              Deployed(k + 1, c, h, enic, x, e, arg)
       PROVE  Fate
  <2>1. Deployed(k + 1, clusters'[project], hosts'[project], enic', x,
                 kube'.entry, arg)
    BY <1>4, <1>5, <1>6, <1>8, <1>11
  <2>2. k \in 1..27
    BY <1>8
  <2> QED BY <1>2, <1>11, <2>1, <2>2, GoesOn
<1>12. CASE ticks = 0 /\ GiveUp
  BY <1>12, Quits DEF Excused
<1>13. CASE At("uuid") /\ PodRuns /\ AdvanceWith(1, [job EXCEPT !.uuid = p])
  <2>1. PICK x : x = [j EXCEPT !.uuid = p]
    OBVIOUS
  <2>2. x.uuid = p
    BY <1>10, <2>1 DEF Locals
  <2>3. p # 0 /\ k \in {12, 14}
    BY <1>8, <1>9, <1>13 DEF PodRuns, At
  <2>4. Deployed(k + 1, c, h, enic, x, e, arg)
    BY <1>7, <1>9, <2>2, <2>3 DEF Deployed
  <2> QED BY <1>3, <1>11, <1>13, <2>1, <2>4
<1>14. CASE /\ At("uuid") /\ ~PodRuns
            /\ UNCHANGED <<cmd, arg, todo, job, ok, done>>
  <2>1. Deployed(k, clusters'[project], hosts'[project], enic', job,
                 kube'.entry, arg)
    BY <1>3, <1>4, <1>5, <1>6, <1>7, <1>8
  <2> QED BY <1>2, <1>14, <2>1, Lingers
<1>15. CASE At("guid") /\ PodRuns /\ AdvanceWith(1, [job EXCEPT !.guid = p])
  <2>1. PICK x : x = [j EXCEPT !.guid = p]
    OBVIOUS
  <2>2. x.guid = p /\ x.uuid = j.uuid
    BY <1>10, <2>1 DEF Locals
  <2>3. k = 20
    BY <1>8, <1>15 DEF At
  <2>4. Deployed(k + 1, c, h, enic, x, e, arg)
    BY <1>7, <1>9, <2>2, <2>3 DEF Deployed
  <2> QED BY <1>3, <1>11, <1>15, <2>1, <2>4
<1>16. CASE At("guid") /\ ~PodRuns /\ GiveUp
  <2>1. enic.pod # 0
    BY <1>7, <1>8, <1>16 DEF Deployed, At
  <2>2. Excused
    BY <1>16, <2>1 DEF PodRuns, Excused
  <2> QED BY <1>16, <2>2, Quits
<1>17. ~At("hostUuid")
  BY <1>8 DEF At
<1> QED BY <1>9, <1>12, <1>13, <1>14, <1>15, <1>16, <1>17 DEF ReadUuid

\* Without a cluster there is no wait for its end.
LEMMA EdgeDelete ==
    ASSUME Turn, Types, Deploying, cmd \in EdgeDeployments, pods.at # done,
           DeleteCluster
    PROVE  Fate
<1>1. PICK k : k = 29 - Len(todo)
  OBVIOUS
<1>2. k \in 1..28 /\ Len(todo) = 29 - k /\ EdgeStep(k, Head(todo))
  BY <1>1, EdgePlace
<1>3. PICK j : j = job
  OBVIOUS
<1>4. PICK c : c = clusters[project]
  OBVIOUS
<1>5. PICK h : h = hosts[project]
  OBVIOUS
<1>6. PICK e : e = kube.entry
  OBVIOUS
<1>7. Deployed(k, c, h, enic, j, e, arg)
  BY <1>1, <1>3, <1>4, <1>5, <1>6, EdgeState
<1>8. k = 4 /\ UNCHANGED <<hosts, enic, kube>>
  BY <1>2 DEF DeleteCluster, At, EdgeStep
<1>9. CASE ~Manages /\ GiveUp
  <2>1. Excused
    BY <1>9 DEF Manages, Excused
  <2> QED BY <1>9, <2>1, Quits
<1>10. CASE /\ clusters[project].st = "none" /\ UNCHANGED clusters
            /\ AdvanceWith(2, job)
  <2>1. PICK n : n = 2
    OBVIOUS
  <2>2. n \in 1..3 /\ n < Len(todo) /\ AdvanceWith(n, j) /\ cmd # "none"
    BY <1>2, <1>3, <1>8, <1>10, <2>1, EdgeState
  <2>3. /\ UNCHANGED <<cmd, arg, ok, done>> /\ job' = j
        /\ Len(todo') = Len(todo) - n
    BY <2>2, Leaving
  <2>4. PICK m : m = 6
    OBVIOUS
  <2>5. m \in 1..28 /\ Len(todo') = 29 - m
    BY <1>2, <1>8, <2>1, <2>3, <2>4
  <2>6. Deployed(m, c, h, enic, j, e, arg)
    BY <1>4, <1>10, <2>4 DEF Deployed
  <2>7. Deployed(m, clusters'[project], hosts'[project], enic', job',
                 kube'.entry, arg)
    BY <1>4, <1>5, <1>6, <1>8, <1>10, <2>3, <2>6
  <2> QED BY <2>3, <2>5, <2>7, NextPlace
<1>11. CASE Advance
  <2>1. k \in 1..27 /\ AdvanceWith(1, j)
    BY <1>3, <1>8, <1>11 DEF Advance
  <2>2. PICK x : x = clusters'[project]
    OBVIOUS
  <2>3. Deployed(k + 1, x, h, enic, j, e, arg)
    BY <1>8 DEF Deployed
  <2>4. Deployed(k + 1, clusters'[project], hosts'[project], enic', j,
                 kube'.entry, arg)
    BY <1>5, <1>6, <1>8, <2>2, <2>3
  <2> QED BY <1>2, <2>1, <2>4, GoesOn
<1> QED BY <1>9, <1>10, <1>11 DEF DeleteCluster

\* A cluster is gone, or ready, when its wait ends.
LEMMA EdgeWaits ==
    ASSUME Turn, Types, Deploying, cmd \in EdgeDeployments, pods.at # done,
           Waits
    PROVE  Fate
<1>1. PICK k : k = 29 - Len(todo)
  OBVIOUS
<1>2. k \in 1..28 /\ Len(todo) = 29 - k /\ EdgeStep(k, Head(todo))
  BY <1>1, EdgePlace
<1>3. PICK j : j = job
  OBVIOUS
<1>4. PICK c : c = clusters[project]
  OBVIOUS
<1>5. PICK h : h = hosts[project]
  OBVIOUS
<1>6. PICK e : e = kube.entry
  OBVIOUS
<1>7. Deployed(k, c, h, enic, j, e, arg)
  BY <1>1, <1>3, <1>4, <1>5, <1>6, EdgeState
<1>8. /\ UNCHANGED <<clusters, hosts, enic, kube>>
      /\ Retry(Awaited[Head(todo)])
      /\ \/ Head(todo) = "clusterGone" /\ k = 5
         \/ Head(todo) = "podRunning" /\ k = 19
         \/ Head(todo) = "clusterReady" /\ k = 23
         \/ Head(todo) = "fleetReady" /\ k = 27
  BY <1>2 DEF Waits, Awaited, EdgeStep, EdgeHeads, world, edge
<1>9. CASE ticks = 0 /\ GiveUp
  BY <1>9, Quits DEF Excused
<1>10. CASE Awaited[Head(todo)] /\ Advance
  <2>1. /\ Awaited["clusterGone"] =
             (InOrch /\ clusters[project].st = "none")
        /\ Awaited["clusterReady"] =
             (InOrch /\ clusters[project].st = "ready")
    BY DEF Awaited
  <2>2. (k = 5 => c.st = "none") /\ (k = 23 => c.st = "ready")
    <3>1. CASE Head(todo) = "clusterGone" /\ k = 5
      <4>1. clusters[project].st = "none"
        BY <1>10, <2>1, <3>1
      <4> QED BY <1>4, <3>1, <4>1
    <3>2. CASE Head(todo) = "clusterReady" /\ k = 23
      <4>1. clusters[project].st = "ready"
        BY <1>10, <2>1, <3>2
      <4> QED BY <1>4, <3>2, <4>1
    <3>3. CASE k \notin {5, 23}
      BY <3>3
    <3> QED BY <1>8, <3>1, <3>2, <3>3
  <2>3. Deployed(k + 1, c, h, enic, j, e, arg)
    BY <1>7, <1>8, <2>2 DEF Deployed
  <2>4. k \in 1..27 /\ AdvanceWith(1, j)
    BY <1>3, <1>8, <1>10 DEF Advance
  <2>5. Deployed(k + 1, clusters'[project], hosts'[project], enic', j,
                 kube'.entry, arg)
    BY <1>4, <1>5, <1>6, <1>8, <2>3
  <2> QED BY <1>2, <2>4, <2>5, GoesOn
<1>11. CASE UNCHANGED <<cmd, arg, todo, job, ok, done>>
  <2>1. Deployed(k, clusters'[project], hosts'[project], enic', job,
                 kube'.entry, arg)
    BY <1>3, <1>4, <1>5, <1>6, <1>7, <1>8
  <2> QED BY <1>2, <1>11, <2>1, Lingers
<1> QED BY <1>8, <1>9, <1>10, <1>11 DEF Retry

\* The wait for ArgoCD's application changes nothing.
LEMMA EdgeAppReady ==
    ASSUME Turn, Types, Deploying, cmd \in EdgeDeployments, pods.at # done,
           AppReady
    PROVE  Fate
<1>1. PICK k : k = 29 - Len(todo)
  OBVIOUS
<1>2. k \in 1..28 /\ Len(todo) = 29 - k /\ EdgeStep(k, Head(todo))
  BY <1>1, EdgePlace
<1>3. PICK j : j = job
  OBVIOUS
<1>4. PICK c : c = clusters[project]
  OBVIOUS
<1>5. PICK h : h = hosts[project]
  OBVIOUS
<1>6. PICK e : e = kube.entry
  OBVIOUS
<1>7. Deployed(k, c, h, enic, j, e, arg)
  BY <1>1, <1>3, <1>4, <1>5, <1>6, EdgeState
<1>8. k = 18 /\ UNCHANGED <<clusters, hosts, enic, kube>>
  BY <1>2 DEF AppReady, At, EdgeStep, EdgeHeads, world, edge
<1>9. CASE todo' = Tail(todo) /\ UNCHANGED <<cmd, arg, job, ticks, ok, done>>
  <2>1. PICK m : m = 19
    OBVIOUS
  <2>2. Len(todo') = 10
    <3>1. Len(todo) = 29 - 18
      BY <1>2, <1>8
    <3>2. todo \in Seq(AllSteps) /\ Len(todo) = 11
      BY <3>1, EdgeState DEF Turn
    <3> QED BY <1>9, <3>2
  <2>3. m \in 1..28 /\ Len(todo') = 29 - m
    BY <2>1, <2>2
  <2>4. Deployed(m, c, h, enic, j, e, arg)
    BY <1>7, <1>8, <2>1 DEF Deployed
  <2>5. Deployed(m, clusters'[project], hosts'[project], enic', job',
                 kube'.entry, arg)
    BY <1>3, <1>4, <1>5, <1>6, <1>8, <1>9, <2>4
  <2> QED BY <1>9, <2>3, <2>5, NextPlace
<1>10. CASE UNCHANGED <<cmd, arg, todo, job, ok, done>>
  <2>1. Deployed(k, clusters'[project], hosts'[project], enic', job,
                 kube'.entry, arg)
    BY <1>3, <1>4, <1>5, <1>6, <1>7, <1>8
  <2> QED BY <1>2, <1>10, <2>1, Lingers
<1>11. ~At("appReadyFirst") /\ ~At("replicas")
  BY <1>2 DEF At, EdgeStep, EdgeHeads
<1> QED BY <1>9, <1>10, <1>11 DEF AppReady

\* There is no cluster when one is made; its node is the one whose UUID was
\* read last.
LEMMA EdgeCreates ==
    ASSUME Turn, Types, Deploying, cmd \in EdgeDeployments, pods.at # done,
           CreateCluster \/ AddClusterLabels
    PROVE  Fate
<1>1. PICK k : k = 29 - Len(todo)
  OBVIOUS
<1>2. k \in 1..28 /\ Len(todo) = 29 - k /\ EdgeStep(k, Head(todo))
  BY <1>1, EdgePlace
<1>3. PICK j : j = job
  OBVIOUS
<1>4. PICK c : c = clusters[project]
  OBVIOUS
<1>5. PICK h : h = hosts[project]
  OBVIOUS
<1>6. PICK e : e = kube.entry
  OBVIOUS
<1>7. Deployed(k, c, h, enic, j, e, arg)
  BY <1>1, <1>3, <1>4, <1>5, <1>6, EdgeState
<1>8. /\ UNCHANGED <<hosts, enic, kube>>
      /\ \/ CreateCluster /\ k = 22
         \/ AddClusterLabels /\ k = 24
  BY <1>2 DEF CreateCluster, AddClusterLabels, At, EdgeStep
<1>9. /\ clusters \in [Projects -> Cluster(pods.made)]
      /\ project \in Projects /\ c \in Cluster(pods.made)
      /\ Deployed(k, c, h, enic, j, e, arg)
  BY <1>4, <1>7, EdgeState
<1>10. ASSUME NEW x, Advance, clusters' = [clusters EXCEPT ![project] = x],
              Deployed(k + 1, x, h, enic, j, e, arg)
       PROVE  Fate
  <2>1. clusters'[project] = x
    BY <1>9, <1>10
  <2>2. k \in 1..27 /\ AdvanceWith(1, j)
    BY <1>3, <1>8, <1>10 DEF Advance
  <2>3. Deployed(k + 1, clusters'[project], hosts'[project], enic', j,
                 kube'.entry, arg)
    BY <1>5, <1>6, <1>8, <1>10, <2>1
  <2> QED BY <1>2, <2>2, <2>3, GoesOn
<1>11. CASE CreateCluster /\ k = 22
  <2>1. PICK b : b = (Manages /\ clusters[project].st = "none")
    OBVIOUS
  <2>2. PICK x : x = [NoCluster EXCEPT !.st = "creating", !.node = job.guid]
    OBVIOUS
  <2>3. /\ Require(b)
        /\ b => clusters' = [clusters EXCEPT ![project] = x]
    BY <1>11, <2>1, <2>2 DEF CreateCluster
  <2>4. CASE ~b
    <3>1. clusters[project].st = "none"
      BY <1>4, <1>7, <1>11 DEF Deployed
    <3>2. ~Manages
      BY <2>1, <2>4, <3>1
    <3>3. Excused /\ GiveUp
      BY <2>3, <2>4, <3>2 DEF Manages, Excused, Require
    <3> QED BY <3>3, Quits
  <2>5. CASE b
    <3>1. x.st = "creating" /\ x.node = j.guid
      BY <1>3, <2>2 DEF NoCluster
    <3>2. Deployed(k + 1, x, h, enic, j, e, arg)
      BY <1>7, <1>11, <3>1 DEF Deployed
    <3>3. Advance
      BY <2>3, <2>5 DEF Require
    <3> QED BY <1>10, <2>3, <2>5, <3>2, <3>3
  <2> QED BY <2>4, <2>5
<1>12. CASE AddClusterLabels /\ k = 24
  <2>1. CASE ~InOrch
    BY <1>12, <2>1, Quits DEF AddClusterLabels, Require, Excused
  <2>2. CASE InOrch
    <3>1. PICK x : x = [c EXCEPT !.labels = c.labels \cup arg.labels]
      OBVIOUS
    <3>2. clusters' = [clusters EXCEPT ![project] = x]
      BY <1>4, <1>12, <2>2, <3>1 DEF AddClusterLabels
    <3>3. /\ x.st = c.st /\ x.node = c.node
          /\ arg.labels \subseteq x.labels
      BY <1>9, <3>1 DEF Cluster
    <3>4. Deployed(k + 1, x, h, enic, j, e, arg)
      BY <1>7, <1>12, <3>3 DEF Deployed
    <3>5. Advance
      BY <1>12, <2>2 DEF AddClusterLabels, Require
    <3> QED BY <1>10, <3>2, <3>4, <3>5
  <2> QED BY <2>1, <2>2
<1> QED BY <1>8, <1>11, <1>12

\* The entry is made of the cluster that is there, and used when it is whole;
\* the last step is a change of context.
LEMMA EdgeContexts ==
    ASSUME Turn, Types, Deploying, cmd \in EdgeDeployments, pods.at # done,
           \/ GenKubeconfigEntry \/ RmKubeconfigEntry \/ UseOrch
           \/ UseEdgeCluster
    PROVE  Fate
<1>1. PICK k : k = 29 - Len(todo)
  OBVIOUS
<1>2. k \in 1..28 /\ Len(todo) = 29 - k /\ EdgeStep(k, Head(todo))
  BY <1>1, EdgePlace
<1>3. PICK j : j = job
  OBVIOUS
<1>4. PICK c : c = clusters[project]
  OBVIOUS
<1>5. PICK h : h = hosts[project]
  OBVIOUS
<1>6. PICK e : e = kube.entry
  OBVIOUS
<1>7. Deployed(k, c, h, enic, j, e, arg)
  BY <1>1, <1>3, <1>4, <1>5, <1>6, EdgeState
<1>8. /\ UNCHANGED <<clusters, hosts, enic>>
      /\ \/ GenKubeconfigEntry /\ k = 25
         \/ RmKubeconfigEntry /\ k = 7
         \/ UseOrch /\ k \in {6, 28}
         \/ UseEdgeCluster /\ k = 26
  BY <1>2 DEF GenKubeconfigEntry, RmKubeconfigEntry, UseOrch,
              UseEdgeCluster, At, EdgeStep
<1>9. kube \in Kube(pods.made)
  BY EdgeState
<1>10. ASSUME NEW x, Advance, kube'.entry = x, k # 28,
              Deployed(k + 1, c, h, enic, j, x, arg)
       PROVE  Fate
  <2>1. k \in 1..27 /\ AdvanceWith(1, j)
    BY <1>2, <1>3, <1>10 DEF Advance
  <2>2. Deployed(k + 1, clusters'[project], hosts'[project], enic', j,
                 kube'.entry, arg)
    BY <1>4, <1>5, <1>8, <1>10
  <2> QED BY <1>2, <2>1, <2>2, GoesOn
<1>11. CASE GenKubeconfigEntry /\ k = 25
  <2>1. PICK b : b = (InOrch /\ clusters[project].st # "none")
    OBVIOUS
  <2>2. PICK x : x = [made |-> "whole", node |-> clusters[project].node]
    OBVIOUS
  <2>3. Require(b) /\ (b => kube' = [kube EXCEPT !.entry = x])
    BY <1>11, <2>1, <2>2 DEF GenKubeconfigEntry
  <2>4. CASE ~b
    <3>1. clusters[project].st # "none"
      BY <1>4, <1>7, <1>11 DEF Deployed
    <3>2. ~InOrch
      BY <2>1, <2>4, <3>1
    <3> QED BY <2>3, <2>4, <3>2, Quits DEF Excused, Require
  <2>5. CASE b
    <3>1. kube'.entry = x
      BY <1>9, <2>3, <2>5 DEF Kube
    <3>2. x.made = "whole" /\ x.node = c.node
      BY <1>4, <2>2
    <3>3. Deployed(k + 1, c, h, enic, j, x, arg)
      BY <1>7, <1>11, <3>2 DEF Deployed
    <3>4. Advance /\ k # 28
      BY <1>11, <2>3, <2>5 DEF Require
    <3> QED BY <1>10, <3>1, <3>3, <3>4
  <2> QED BY <2>4, <2>5
<1>12. CASE RmKubeconfigEntry /\ k = 7
  <2>1. PICK x : x = kube'.entry
    OBVIOUS
  <2>2. Deployed(k + 1, c, h, enic, j, x, arg)
    BY <1>7, <1>12 DEF Deployed
  <2>3. Advance /\ k # 28
    BY <1>12 DEF RmKubeconfigEntry
  <2> QED BY <1>10, <2>1, <2>2, <2>3
<1>13. CASE UseOrch /\ k = 6
  <2>1. kube'.entry = e
    BY <1>6, <1>9, <1>13 DEF UseOrch, Kube
  <2>2. Deployed(k + 1, c, h, enic, j, e, arg)
    BY <1>7, <1>13 DEF Deployed
  <2>3. Advance /\ k # 28
    BY <1>13 DEF UseOrch
  <2> QED BY <1>10, <2>1, <2>2, <2>3
<1>14. CASE UseOrch /\ k = 28
  <2>1. kube' = [kube EXCEPT !.at = "orch"] /\ Advance
    BY <1>14 DEF UseOrch
  <2>2. kube'.entry = e /\ kube'.at = "orch"
    BY <1>6, <1>9, <2>1 DEF Kube
  <2>3. Len(todo) = 1
    BY <1>2, <1>14
  <2>4. cmd' = "none" /\ ok'
    BY <2>1, <2>3 DEF Advance, AdvanceWith, Return
  <2>5. /\ c.st = "ready" /\ arg.labels \subseteq c.labels
        /\ c.node = enic.pod /\ enic.project = arg.project
        /\ enic.pod \in h.reg /\ enic.pod \in h.inst
        /\ e.node = c.node
    BY <1>7, <1>14 DEF Deployed
  <2>6. Landed
    BY <1>4, <1>5, <1>8, <2>2, <2>5 DEF Landed, project
  <2> QED BY <2>4, <2>6 DEF Fate, Deploying, EdgeDeployments
<1>15. CASE UseEdgeCluster /\ k = 26
  <2>1. kube.entry.made = "whole"
    BY <1>6, <1>7, <1>15 DEF Deployed
  <2>2. Advance /\ k # 28 /\ kube' = [kube EXCEPT !.at = "edge"]
    BY <1>15, <2>1 DEF UseEdgeCluster, Require
  <2>3. kube'.entry = e
    BY <1>6, <1>9, <2>2 DEF Kube
  <2>4. Deployed(k + 1, c, h, enic, j, e, arg)
    BY <1>7, <1>15 DEF Deployed
  <2> QED BY <1>10, <2>2, <2>3, <2>4
<1>16. k \in {6, 28} => k = 6 \/ k = 28
  OBVIOUS
<1> QED BY <1>8, <1>11, <1>12, <1>13, <1>14, <1>15, <1>16

\* The old release, stateful set and pod go in this order, before the new
\* release comes.
LEMMA EdgeEnic ==
    ASSUME Turn, Types, Deploying, cmd \in EdgeDeployments, pods.at # done,
           DeployEnic \/ DeleteEnic
    PROVE  Fate
<1>1. PICK k : k = 29 - Len(todo)
  OBVIOUS
<1>2. k \in 1..28 /\ Len(todo) = 29 - k /\ EdgeStep(k, Head(todo))
  BY <1>1, EdgePlace
<1>3. PICK j : j = job
  OBVIOUS
<1>4. PICK c : c = clusters[project]
  OBVIOUS
<1>5. PICK h : h = hosts[project]
  OBVIOUS
<1>6. PICK e : e = kube.entry
  OBVIOUS
<1>7. Deployed(k, c, h, enic, j, e, arg)
  BY <1>1, <1>3, <1>4, <1>5, <1>6, EdgeState
<1>8. /\ UNCHANGED <<clusters, hosts, kube>>
      /\ \/ DeployEnic /\ k = 11
         \/ DeleteEnic /\ Head(todo) = "uninstall" /\ k = 8
         \/ DeleteEnic /\ Head(todo) = "deleteSet" /\ k = 9
         \/ DeleteEnic /\ Head(todo) = "deletePod" /\ k = 10
  BY <1>2 DEF DeployEnic, DeleteEnic, At, EdgeStep
<1>9. DOMAIN enic = {"release", "app", "set", "pod", "agent", "project",
                     "blocked"}
  BY EdgeState
<1>10. ASSUME NEW x, Advance, enic' = x,
              Deployed(k + 1, c, h, x, j, e, arg)
       PROVE  Fate
  <2>1. k \in 1..27 /\ AdvanceWith(1, j)
    BY <1>3, <1>8, <1>10 DEF Advance
  <2>2. Deployed(k + 1, clusters'[project], hosts'[project], enic', j,
                 kube'.entry, arg)
    BY <1>4, <1>5, <1>6, <1>8, <1>10
  <2> QED BY <1>2, <2>1, <2>2, GoesOn
<1>11. CASE DeployEnic /\ k = 11
  <2>1. CASE ~InOrch
    BY <1>11, <2>1, Quits DEF DeployEnic, Require, Excused
  <2>2. CASE InOrch
    <3>1. PICK x : x = [enic EXCEPT !.release = TRUE, !.project = arg.project]
      OBVIOUS
    <3>2. x.pod = enic.pod /\ x.project = arg.project
      BY <1>9, <3>1
    <3>3. Deployed(k + 1, c, h, x, j, e, arg)
      BY <1>7, <1>11, <3>2 DEF Deployed
    <3>4. Advance /\ enic' = x
      BY <1>11, <2>2, <3>1 DEF DeployEnic, Require, project
    <3> QED BY <1>10, <3>3, <3>4
  <2> QED BY <2>1, <2>2
<1>12. CASE DeleteEnic /\ Head(todo) = "uninstall" /\ k = 8
  <2>1. PICK x : x = [enic EXCEPT !.release = FALSE, !.app = FALSE]
    OBVIOUS
  <2>2. Advance /\ enic' = x
    BY <1>12, <2>1 DEF DeleteEnic, Uninstall, At
  <2>3. ~x.release
    BY <1>9, <2>1
  <2>4. Deployed(k + 1, c, h, x, j, e, arg)
    BY <1>7, <1>12, <2>3 DEF Deployed
  <2> QED BY <1>10, <2>2, <2>4
<1>13. CASE DeleteEnic /\ Head(todo) = "deleteSet" /\ k = 9
  <2>1. PICK x : x = [enic EXCEPT !.set = FALSE]
    OBVIOUS
  <2>2. Advance /\ enic' = x
    BY <1>13, <2>1 DEF DeleteEnic, DropSet, At
  <2>3. ~x.set /\ x.release = enic.release
    BY <1>9, <2>1
  <2>4. Deployed(k + 1, c, h, x, j, e, arg)
    BY <1>7, <1>13, <2>3 DEF Deployed
  <2> QED BY <1>10, <2>2, <2>4
<1>14. CASE DeleteEnic /\ Head(todo) = "deletePod" /\ k = 10
  <2>1. PICK x : x = [enic EXCEPT !.pod = 0, !.agent = FALSE]
    OBVIOUS
  <2>2. Advance /\ enic' = x
    BY <1>14, <2>1 DEF DeleteEnic, DropPod, At
  <2>3. x.pod = 0 /\ x.release = enic.release /\ x.set = enic.set
    BY <1>9, <2>1
  <2>4. 0 \notin h.reg /\ 0 \notin h.inst
    <3>1. h \in Host(pods.made)
      BY <1>5, EdgeState
    <3> QED BY <3>1 DEF Host, Types, PodsType
  <2>5. Deployed(k + 1, c, h, x, j, e, arg)
    BY <1>7, <1>14, <2>3, <2>4 DEF Deployed
  <2> QED BY <1>10, <2>2, <2>5
<1> QED BY <1>8, <1>11, <1>12, <1>13, <1>14

\* The pod's UUID is new: no host was registered or provisioned under it
\* before.
LEMMA EdgeHosts ==
    ASSUME Turn, Types, Deploying, cmd \in EdgeDeployments, pods.at # done,
           RegisterHost \/ NewInstance
    PROVE  Fate
<1>1. PICK k : k = 29 - Len(todo)
  OBVIOUS
<1>2. k \in 1..28 /\ Len(todo) = 29 - k /\ EdgeStep(k, Head(todo))
  BY <1>1, EdgePlace
<1>3. PICK j : j = job
  OBVIOUS
<1>4. PICK c : c = clusters[project]
  OBVIOUS
<1>5. PICK h : h = hosts[project]
  OBVIOUS
<1>6. PICK e : e = kube.entry
  OBVIOUS
<1>7. Deployed(k, c, h, enic, j, e, arg)
  BY <1>1, <1>3, <1>4, <1>5, <1>6, EdgeState
<1>8. /\ UNCHANGED <<clusters, enic, kube>>
      /\ \/ RegisterHost /\ k = 13
         \/ NewInstance /\ k = 17
  BY <1>2 DEF RegisterHost, NewInstance, At, EdgeStep
<1>9. /\ hosts \in [Projects -> Host(pods.made)]
      /\ project \in Projects /\ h \in Host(pods.made)
  BY <1>5, EdgeState
<1>10. ASSUME NEW x, Advance, hosts' = [hosts EXCEPT ![project] = x],
              Deployed(k + 1, c, x, enic, j, e, arg)
       PROVE  Fate
  <2>1. hosts'[project] = x
    BY <1>9, <1>10
  <2>2. k \in 1..27 /\ AdvanceWith(1, j)
    BY <1>3, <1>8, <1>10 DEF Advance
  <2>3. Deployed(k + 1, clusters'[project], hosts'[project], enic', j,
                 kube'.entry, arg)
    BY <1>4, <1>6, <1>8, <1>10, <2>1
  <2> QED BY <1>2, <2>2, <2>3, GoesOn
<1>11. CASE RegisterHost /\ k = 13
  <2>1. PICK b : b = (job.user = project /\ job.uuid \notin hosts[project].reg)
    OBVIOUS
  <2>2. PICK x : x = [h EXCEPT !.reg = h.reg \cup {j.uuid}]
    OBVIOUS
  <2>3. Require(b) /\ (b => hosts' = [hosts EXCEPT ![project] = x])
    BY <1>3, <1>5, <1>11, <2>1, <2>2 DEF RegisterHost
  <2>4. CASE ~b
    <3>1. j.uuid \notin h.reg
      BY <1>7, <1>11 DEF Deployed
    <3>2. Excused /\ GiveUp
      BY <1>3, <1>5, <2>1, <2>3, <2>4, <3>1 DEF Excused, Require
    <3> QED BY <3>2, Quits
  <2>5. CASE b
    <3>1. x.reg = h.reg \cup {j.uuid} /\ x.inst = h.inst
      BY <1>9, <2>2 DEF Host
    <3>2. Deployed(k + 1, c, x, enic, j, e, arg)
      BY <1>7, <1>11, <3>1 DEF Deployed
    <3>3. Advance
      BY <2>3, <2>5 DEF Require
    <3> QED BY <1>10, <2>3, <2>5, <3>2, <3>3
  <2> QED BY <2>4, <2>5
<1>12. CASE NewInstance /\ k = 17
  <2>1. PICK b : b = (job.user = project
                        /\ job.uuid \notin hosts[project].inst)
    OBVIOUS
  <2>2. PICK x : x = [h EXCEPT !.inst = h.inst \cup {j.uuid}]
    OBVIOUS
  <2>3. Require(b) /\ (b => hosts' = [hosts EXCEPT ![project] = x])
    BY <1>3, <1>5, <1>12, <2>1, <2>2 DEF NewInstance
  <2>4. CASE ~b
    <3>1. j.uuid \notin h.inst
      BY <1>7, <1>12 DEF Deployed
    <3>2. Excused /\ GiveUp
      BY <1>3, <1>5, <2>1, <2>3, <2>4, <3>1 DEF Excused, Require
    <3> QED BY <3>2, Quits
  <2>5. CASE b
    <3>1. x.inst = h.inst \cup {j.uuid} /\ x.reg = h.reg
      BY <1>9, <2>2 DEF Host
    <3>2. Deployed(k + 1, c, x, enic, j, e, arg)
      BY <1>7, <1>12, <3>1 DEF Deployed
    <3>3. Advance
      BY <2>3, <2>5 DEF Require
    <3> QED BY <1>10, <2>3, <2>5, <3>2, <3>3
  <2> QED BY <2>4, <2>5
<1> QED BY <1>8, <1>11, <1>12

\* The steps that a deployment is made of.
LEMMA EdgeActions ==
    ASSUME Turn, Step, cmd \in EdgeDeployments
    PROVE  \/ Reads \/ Users \/ ReadUuid \/ AppReady \/ Waits
           \/ DeleteCluster \/ CreateCluster \/ AddClusterLabels
           \/ GenKubeconfigEntry \/ RmKubeconfigEntry \/ UseOrch
           \/ UseEdgeCluster \/ DeployEnic \/ DeleteEnic
           \/ RegisterHost \/ NewInstance
<1>1. PICK k : k = 29 - Len(todo)
  OBVIOUS
<1>2. Head(todo) \in EdgeHeads
  BY <1>1, EdgePlace DEF EdgeStep
<1>3. ~(\/ PostTemplate \/ SetDefaultTemplate \/ Apply \/ DestroyOrch
        \/ Virsh \/ DestroyNetwork \/ DestroyPool \/ RestoreConf
        \/ BackUpConf)
  BY <1>2 DEF At, EdgeHeads, PostTemplate, SetDefaultTemplate, Apply,
       Applied, DestroyOrch, Virsh, DestroyNetwork, DestroyPool,
       RestoreConf, BackUpConf
<1>4. ~(\/ WriteConf \/ RestartResolved \/ Certificate \/ ApplyVen
        \/ UndefineVen \/ Onboard \/ BlockEnicTraffic \/ Post \/ GetHost
        \/ PatchHost \/ UnsetMaintenanceMode)
  BY <1>2 DEF At, EdgeHeads, WriteConf, RestartResolved, Certificate,
       ApplyVen, UndefineVen, Onboard, Calls, BlockEnicTraffic, Post, Posts,
       GetHost, PatchHost, UnsetMaintenanceMode, Undo
<1> QED BY <1>3, <1>4 DEF Step

\* So every step leads to the next place or to one of the ends.
LEMMA DeployStep ==
    ASSUME Turn, Types, Deploying, cmd \in EdgeDeployments, pods.at # done,
           Step
    PROVE  Fate
BY EdgeActions, EdgeReads, EdgeUsers, EdgeUuid, EdgeAppReady, EdgeWaits,
   EdgeDelete, EdgeCreates, EdgeContexts, EdgeEnic, EdgeHosts

\* A call that fails ends the deployment, or changes nothing and is tried
\* again.
LEMMA DeployFails ==
    ASSUME Turn, Types, Deploying, cmd \in EdgeDeployments, pods.at # done,
           CallFails
    PROVE  Deploying' /\ ~(cmd' = "none" /\ ok')
<1>1. PICK k : k = 29 - Len(todo)
  OBVIOUS
<1>2. k \in 1..28 /\ Len(todo) = 29 - k /\ EdgeStep(k, Head(todo))
  BY <1>1, EdgePlace
<1>3. Head(todo) \in EdgeHeads
  BY <1>2 DEF EdgeStep
<1>4. ~InTest /\ "none" \notin EdgeDeployments
  BY DEF InTest, EdgeDeployments
<1>5. \/ Return(FALSE)
      \/ /\ Head(todo) \in {"appReady", "clusterGone", "podRunning",
                            "clusterReady", "fleetReady", "uuid"}
         /\ UNCHANGED <<cmd, arg, todo, job, done>>
  BY <1>3, <1>4 DEF CallFails, Forgiven, Unlimited, Awaited, EdgeHeads,
       GiveUp, command
<1>6. CASE Return(FALSE)
  BY <1>4, <1>6 DEF Return, Deploying
<1>7. CASE /\ Head(todo) \in {"appReady", "clusterGone", "podRunning",
                              "clusterReady", "fleetReady", "uuid"}
           /\ UNCHANGED <<cmd, arg, todo, job, done>>
  <2>1. UNCHANGED <<clusters, hosts, enic, kube, pods>>
    <3>1. Half /\ cmd \notin {"onPrem", "undeployOnPrem"}
      BY DEF CallFails, EdgeDeployments
    <3> QED BY <1>7, <3>1 DEF Half, At, Posts, world, edge
  <2>2. cmd' # "none"
    BY <1>4, <1>7
  <2> QED BY <1>7, <2>1, <2>2 DEF Deploying
<1> QED BY <1>5, <1>6, <1>7

\* What goes on by itself spoils none of it: ArgoCD makes no set of a release
\* that is gone, a pod that starts has a new UUID, and a cluster that is made
\* only gets ready.
LEMMA DeployAmid ==
    ASSUME Turn, Types, Deploying, Surroundings PROVE Deploying'
<1>1. UNCHANGED <<cmd, arg, todo, job, done, kube>>
  BY DEF Surroundings, ArgoCD, PodStarts, PodLost, AgentRuns,
         ClusterChanges, Inventory, command, edge
<1>2. SUFFICES ASSUME cmd \in EdgeDeployments, (pods.at # done)'
               PROVE  Deploying'
  BY <1>1 DEF Deploying
<1>3. PICK k : k = 29 - Len(todo)
  OBVIOUS
<1>4. k \in 1..28 /\ Len(todo) = 29 - k /\ EdgeStep(k, Head(todo))
  BY <1>2, <1>3, EdgePlace
<1>5. PICK c : c = clusters[project]
  OBVIOUS
<1>6. PICK h : h = hosts[project]
  OBVIOUS
<1>7. PICK e : e = kube.entry
  OBVIOUS
<1>8. PICK j : j = job
  OBVIOUS
<1>9. SUFFICES ASSUME pods.at # done
                PROVE  Deployed(k, clusters'[project], hosts'[project],
                                enic', j, e, arg)
  <2>1. CASE pods.at = done
    <3>1. pods' = [pods EXCEPT !.made = pods.made + 1] \/ pods' = pods
          \/ PodLost
      BY DEF Surroundings, ArgoCD, PodStarts, AgentRuns, ClusterChanges,
             Inventory, edge
    <3>2. pods'.at = pods.at \/ pods'.at = done
      BY <3>1 DEF PodLost, Types, PodsType
    <3> QED BY <1>1, <1>2, <2>1, <3>2
  <2>2. CASE pods.at # done
    BY <1>1, <1>3, <1>7, <1>8, <1>9, <2>2 DEF Deploying, project
  <2> QED BY <2>1, <2>2
<1>10. /\ Deployed(k, c, h, enic, j, e, arg)
       /\ project \in Projects /\ cmd # "none"
       /\ clusters \in [Projects -> Cluster(pods.made)]
       /\ hosts \in [Projects -> Host(pods.made)]
       /\ DOMAIN enic = {"release", "app", "set", "pod", "agent",
                         "project", "blocked"}
  BY <1>2, <1>3, <1>5, <1>6, <1>7, <1>8, <1>9, EdgeState
<1>11. ASSUME UNCHANGED <<clusters, hosts>>, NEW x, enic' = x,
              Deployed(k, c, h, x, j, e, arg)
       PROVE  Deployed(k, clusters'[project], hosts'[project], enic', j, e,
                       arg)
  BY <1>5, <1>6, <1>11
<1>12. CASE ArgoCD
  <2>1. PICK x : x = enic'
    OBVIOUS
  <2>2. /\ enic.release /\ x.release = enic.release /\ x.pod = enic.pod
        /\ x.project = enic.project
    <3>1. \/ x = [enic EXCEPT !.set = TRUE]
          \/ x = [enic EXCEPT !.app = ~enic.app]
      BY <1>12, <2>1 DEF ArgoCD
    <3>2. enic.release
      BY <1>12 DEF ArgoCD
    <3> QED BY <1>10, <3>1, <3>2
  <2>3. k \notin 9..11
    BY <1>10, <2>2 DEF Deployed
  <2>4. Deployed(k, c, h, x, j, e, arg)
    BY <1>10, <2>2, <2>3 DEF Deployed
  <2> QED BY <1>11, <1>12, <2>1, <2>4 DEF ArgoCD
<1>13. CASE PodStarts
  <2>1. PICK n : n = pods.made + 1
    OBVIOUS
  <2>2. PICK x : x = [enic EXCEPT !.pod = n]
    OBVIOUS
  <2>3. /\ x.pod = n /\ x.release = enic.release /\ x.set = enic.set
        /\ x.project = enic.project
    BY <1>10, <2>2
  <2>4. enic.set /\ enic.pod = 0 /\ enic' = x
    BY <1>13, <2>1, <2>2 DEF PodStarts
  <2>5. n \notin h.reg /\ n \notin h.inst /\ n # 0
    <3>1. h \in Host(pods.made) /\ pods.made \in Nat
      BY <1>6, <1>10 DEF Types, PodsType
    <3> QED BY <2>1, <3>1 DEF Host
  <2>6. k \notin 10..11 /\ k < 13
    BY <1>4, <1>10, <2>4 DEF Deployed
  <2>7. Deployed(k, c, h, x, j, e, arg)
    <3>1. CASE k \in 1..9
      BY <1>10, <2>3, <3>1 DEF Deployed
    <3>2. CASE k = 12
      BY <1>10, <2>3, <2>5, <3>2 DEF Deployed
    <3> QED BY <1>4, <2>6, <3>1, <3>2
  <2> QED BY <1>11, <1>13, <2>4, <2>7 DEF PodStarts
<1>14. ~PodLost
  <2>1. PodLost => pods'.at = done
    BY DEF PodLost, Types, PodsType
  <2> QED BY <1>1, <1>2, <2>1
<1>15. ~AgentRuns
  BY <1>2 DEF AgentRuns, EdgeDeployments
<1>16. CASE ClusterChanges
  <2>1. k \in {4, 5, 23, 27} /\ UNCHANGED <<hosts, enic>>
    BY <1>4, <1>16 DEF ClusterChanges, EdgeStep
  <2>2. PICK d : d = CASE c.st = "creating" -> [c EXCEPT !.st = "ready"]
                       [] c.st = "ready"    -> [c EXCEPT !.agent = TRUE]
                       [] OTHER             -> NoCluster
    OBVIOUS
  <2>3. clusters' = [clusters EXCEPT ![project] = d]
    BY <1>5, <1>16, <2>2 DEF ClusterChanges
  <2>4. clusters'[project] = d
    BY <1>10, <2>3
  <2>5. c \in Cluster(pods.made)
    BY <1>5, <1>10
  <2>6. k \in {23, 27} =>
          d.st = "ready" /\ d.node = c.node /\ d.labels = c.labels
    <3>1. CASE k \in {23, 27} /\ c.st = "creating"
      <4>1. d = [c EXCEPT !.st = "ready"]
        BY <2>2, <3>1
      <4> QED BY <2>5, <4>1 DEF Cluster
    <3>2. CASE k \in {23, 27} /\ c.st = "ready"
      <4>1. d = [c EXCEPT !.agent = TRUE]
        BY <2>2, <3>2
      <4> QED BY <2>5, <3>2, <4>1 DEF Cluster
    <3>3. k \in {23, 27} => c.st \in {"creating", "ready"}
      BY <1>10 DEF Deployed
    <3> QED BY <3>1, <3>2, <3>3
  <2>7. Deployed(k, d, h, enic, j, e, arg)
    BY <1>10, <2>1, <2>6 DEF Deployed
  <2> QED BY <1>6, <2>1, <2>4, <2>7
<1>17. CASE Inventory
  BY <1>10, <1>11, <1>17 DEF Inventory, edge
<1> QED BY <1>12, <1>13, <1>14, <1>15, <1>16, <1>17 DEF Surroundings

\* Every step of the system keeps what is said of the places.
LEMMA DeployingGoesOn ==
    ASSUME Turn, Types, Deploying, Next
    PROVE  /\ Deploying'
           /\ (Succeeds /\ cmd \in EdgeDeployments /\ pods.at # done) =>
                Landed
           /\ (Errs /\ cmd \in EdgeDeployments /\ clean'
                 /\ pods.at # done) => Excused
<1>1. CASE \E c \in DOMAIN Program : \E a \in Args(c) : Start(c, a)
  <2>1. PICK c \in DOMAIN Program : \E a \in Args(c) : Start(c, a)
    BY <1>1
  <2>2. PICK a \in Args(c) : Start(c, a)
    BY <2>1
  <2>3. cmd = "none" /\ cmd' = c /\ todo' = Program[c]
    BY <2>2 DEF Start, Begin
  <2>4. Deploying'
    <3>1. SUFFICES ASSUME c \in EdgeDeployments PROVE Deploying'
      BY <2>3 DEF Deploying
    <3>2. Program["edgeCluster"] = Program["edgeClusterWithProject"]
      BY DEF Program
    <3>3. Len(todo') = 28
      BY <2>3, <3>1, <3>2, EdgeSteps DEF EdgeDeployments, AtEdge
    <3>4. PICK m : m = 1
      OBVIOUS
    <3>5. 29 - Len(todo') = m
      BY <3>3, <3>4
    <3>6. \A x, h, e, j, n, b : Deployed(m, x, h, e, j, n, b)
      BY <3>4 DEF Deployed
    <3> QED BY <3>5, <3>6 DEF Deploying
  <2> QED BY <2>3, <2>4 DEF Succeeds, Errs
<1>2. CASE Step
  <2>1. CASE cmd \in EdgeDeployments /\ pods.at # done
    BY <1>2, <2>1, DeployStep DEF Fate, Succeeds, Errs
  <2>2. CASE ~(cmd \in EdgeDeployments /\ pods.at # done)
    <3>1. Moves /\ UNCHANGED pods /\ "none" \notin EdgeDeployments
      BY <1>2, StepMoves DEF EdgeDeployments
    <3> QED BY <2>2, <3>1 DEF Deploying, Moves, Stay, Leave, Go, Back
  <2> QED BY <2>1, <2>2
<1>3. CASE CallFails
  <2>1. ~clean'
    BY <1>3 DEF CallFails
  <2>2. CASE cmd \in EdgeDeployments /\ pods.at # done
    BY <1>3, <2>1, <2>2, DeployFails DEF Succeeds
  <2>3. CASE ~(cmd \in EdgeDeployments /\ pods.at # done)
    <3>1. /\ Stay \/ Leave \/ Back \/ Go
          /\ UNCHANGED pods /\ "none" \notin EdgeDeployments
      <4>1. Stay \/ Leave \/ Back \/ Go
        BY <1>3, FailMoves DEF Types
      <4>2. UNCHANGED pods
        BY <1>3 DEF CallFails, Half, world, edge
      <4> QED BY <4>1, <4>2 DEF EdgeDeployments
    <3> QED BY <2>3, <3>1 DEF Deploying, Stay, Leave, Go, Back
  <2> QED BY <2>2, <2>3
<1>4. CASE Surroundings
  <2>1. Deploying'
    BY <1>4, DeployAmid
  <2>2. cmd' = cmd
    BY <1>4 DEF Surroundings, ArgoCD, PodStarts, PodLost, AgentRuns,
                ClusterChanges, Inventory, command
  <2> QED BY <2>1, <2>2 DEF Succeeds, Errs
<1> QED BY <1>1, <1>2, <1>3, <1>4 DEF Next

\* ... and so do steps of others.
LEMMA DeployingStands ==
    ASSUME Deploying, UNCHANGED vars PROVE Deploying'
BY DEF vars, world, edge, command, Deploying

\* What is said of the places holds always.
THEOREM DeployingAlways == Spec => []Deploying
<1>1. Init => Deploying
  BY DEF Init, Deploying, EdgeDeployments
<1>2. IInv /\ Deploying /\ [Next]_vars => Deploying'
  BY DeployingGoesOn, DeployingStands DEF IInv
<1> QED BY <1>1, <1>2, Inductive, PTL DEF Spec

\* A deployment that succeeds, and whose pod was not lost meanwhile, leaves a
\* cluster on the node that runs, registered and provisioned in the same
\* project and reached by the kubeconfig entry, with kubectl back at the
\* Orchestrator, for any projects and labels and whatever commands ran before
\* (edge_cluster.go:41).
THEOREM ClusterIsOnItsNode == Spec => ClusterRunsOnItsNode
<1>1. ASSUME IInv, Deploying, [Next]_vars
      PROVE  [(Succeeds /\ cmd \in EdgeDeployments /\ pods.at # done) =>
                LET c == clusters'[project] IN
                /\ c.st = "ready" /\ arg.labels \subseteq c.labels
                /\ c.node = enic'.pod /\ enic'.project = project
                /\ c.node \in hosts'[project].reg \cap hosts'[project].inst
                /\ kube'.entry.node = c.node /\ kube'.at = "orch"]_vars
  BY <1>1, DeployingGoesOn DEF IInv, Landed
<1> QED BY <1>1, Inductive, DeployingAlways, PTL DEF Spec, ClusterRunsOnItsNode

\* A deployment whose calls all work is never stopped by the cluster, hosts,
\* release, pod or entry that earlier commands left: it fails only when a wait
\* is too short, the pod is lost, the users found are another project's, or
\* kubectl was left at the edge cluster (edge_cluster.go:593).
THEOREM EnicIsMadeAgain == Spec => EnicRedeploys
<1>1. ASSUME IInv, Deploying, [Next]_vars
      PROVE  [(Errs /\ cmd \in EdgeDeployments /\ clean' /\ pods.at # done)
                => ticks = 0 \/ ~InOrch \/ job.user # project]_vars
  BY <1>1, DeployingGoesOn DEF IInv, Excused
<1> QED BY <1>1, Inductive, DeployingAlways, PTL DEF Spec, EnicRedeploys
=============================================================================
