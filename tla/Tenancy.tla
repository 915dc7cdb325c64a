------------------------------ MODULE Tenancy ------------------------------
(***************************************************************************)
(* mage/tenant_utils.go, mage/keycloak_utils.go, the role functions of     *)
(* mage/dev_utils.go and e2e-tests/orchestrator/helpers: the commands that *)
(* make and delete an organization, a project and their users.             *)
(*                                                                         *)
(* A command is a program, a sequence of steps that one person runs at a   *)
(* time and may run again after a failure.  It acts on two services that   *)
(* work on their own: the tenancy manager with its watchers, and Keycloak. *)
(* One organization and one project; a grant is a pair <<owner, name>> and *)
(* exists only while its owner is provided.                                *)
(***************************************************************************)
EXTENDS Command

CONSTANTS
    Strong, Short, Weak, \* passwords, by the policies they satisfy
    EnvPasswords,        \* values ORCH_DEFAULT_PASSWORD may have
    Unset,               \* the variable is not set
    First,               \* Keycloak's admin password after the deployment
    Tries,               \* retryCount of ManageRoles
    Commands             \* the commands that are run

Passwords == Strong \cup Short \cup Weak

ASSUME TenancyAssumption ==
    /\ First \in Strong
    /\ Unset \notin Passwords /\ EnvPasswords \subseteq Passwords \cup {Unset}
    /\ {"none", "bare"} \cap Passwords = {}
    /\ Ticks \in Nat /\ Tries \in Nat \ {0}
    /\ MaxCommands \in Nat /\ MaxFails \in Nat

VARIABLES
    org, project, \* nodes of the tenancy data model: status and deletion
    folder,       \* the folder "default" exists
    users,        \* Keycloak: the grants of each user
    kc,           \* Keycloak's admin: secret, the pod, the database
    missed        \* a kubectl call of a password command failed

nodes == <<org, project, folder>>
admin == <<kc, missed>>
world == <<nodes, users, admin, fails>>
vars == <<world, command>>

-----------------------------------------------------------------------------
(* What the commands create. *)

Account == <<"realm", "account">>
Password == <<"realm", "password">>
Member == <<"project", "m">>
HostManager == <<"project", "Host-Manager-Group">>
ServiceAdmin == <<"realm", "service-admin-group">>
DefaultRole == <<"realm", "default-roles-master">>

\* A user to be created; keeps: the caller keeps the returned orgId.
User(n, k, g) == [name |-> n, keeps |-> k, grants |-> <<Password>> \o g]

InfraUsers == <<
    User("api-user", TRUE, <<HostManager, Member>>),
    User("en-svc-account", FALSE,
         <<<<"project", "Edge-Node-M2M-Service-Account">>, Member>>),
    User("onboarding-user", FALSE,
         <<<<"project", "Edge-Onboarding-Group">>, Member>>),
    User("service-admin-api-user", TRUE,
         <<HostManager, ServiceAdmin, Member>>)>>

ClusterUsers == <<
    User("edge-op", TRUE, <<<<"project", "Edge-Operator-Group">>, Member>>),
    User("edge-mgr", FALSE, <<<<"project", "Edge-Manager-Group">>, Member>>)>>

\* Three of the eight example users: one group, none, and several.
ExampleUsers == <<
    User("service-admin-example-user", FALSE, <<ServiceAdmin, DefaultRole>>),
    User("no-groups-example-user", FALSE, <<DefaultRole>>),
    User("all-groups-example-user", FALSE,
         <<ServiceAdmin, <<"realm", "sre-group">>, DefaultRole>>)>>

AdminUser == User("admin", TRUE, <<<<"org", "Project-Manager-Group">>>>)

Jobs == [
    admin   |-> <<AdminUser>>,
    infra   |-> InfraUsers,
    cluster |-> ClusterUsers,
    example |-> ExampleUsers,
    e2e     |-> <<User("e2e-user", FALSE, <<>>)>>,
    tenancy |-> <<User("tenancy-user", FALSE, <<>>)>>]

UserNames ==
    UNION {{Jobs[j][i].name : i \in DOMAIN Jobs[j]} : j \in DOMAIN Jobs}

\* The roles of ManageRoles and ManageTenancyUserAndRoles, two of each list.
RolesOf == [
    realm   |-> <<<<"realm", "org-read-role">>, <<"realm", "org-write-role">>>>,
    org     |-> <<<<"org", "project-read-role">>,
                  <<"org", "project-write-role">>>>,
    project |-> <<Member, <<"project", "im-rw">>>>]

CreateOrg == <<"checkOrg", "addOrg", "orgWatcher", "orgIdle">>
CreateProjectAdminInOrg == <<"login", "admin">>
CreateProjectInOrg == <<"addFolder", "addProject", "projectIdle">>
CreateEdgeInfraUsers == <<"login", "projectId", "infra">>
CreateClusterOrchUsers == <<"login", "projectId", "cluster">>
ResetPassword ==
    <<"psql", "selectAdmin", "dropCredential", "dropAdmin", "bootstrap">>

Program == [
    createOrg     |-> CreateOrg,
    createAdmin   |-> CreateProjectAdminInOrg,
    createProject |-> CreateProjectInOrg,
    infraUsers    |-> CreateEdgeInfraUsers,
    clusterUsers  |-> CreateClusterOrchUsers,
    setup         |-> CreateOrg \o CreateProjectAdminInOrg
                        \o CreateProjectInOrg \o CreateEdgeInfraUsers
                        \o CreateClusterOrchUsers,
    exampleUsers  |-> <<"login", "example">>,
    watchers      |-> <<"projectWatchers">>,
    deleteOrg     |-> <<"findOrg", "delFolder", "delOrg", "orgGone">>,
    deleteProject |-> <<"findProject", "delProject", "projectGone">>,
    prepare       |-> <<"login", "e2e", "putOrg", "orgActive", "login",
                        "joinOrg", "putProject", "projectActive">>,
    dismantle     |-> <<"delProject", "projectGone", "delOrg", "orgGone">>,
    tenancyRoles  |-> <<"login", "tenancy", "roles">>,
    manageRoles   |-> <<"userId", "rolesRetried">>,
    removeUser    |-> <<"login", "remove">>,
    setPassword   |-> <<"setSecret", "restartPod">> \o ResetPassword,
    resetPassword |-> ResetPassword]

ASSUME CommandsAssumption == Commands \subseteq DOMAIN Program

PasswordCommands == {"setPassword", "resetPassword"}
RoleCommands == {"tenancyRoles", "manageRoles"}

NoArg == [level |-> "realm", action |-> "POST", pw |-> Unset]
Args(c) ==
    IF c \in RoleCommands
    THEN [level : DOMAIN RolesOf, action : {"POST", "DELETE"}, pw : {Unset}]
    ELSE IF c = "setPassword"
    THEN {[NoArg EXCEPT !.pw = p] : p \in Passwords}
    ELSE {NoArg}

\* i, k: current user and grant (or role); org: orgId is not empty; made: the
\* users this command created; id: the admin's id was read; bad: a role of
\* this pass failed.
NewJob == [i |-> 1, k |-> 0, org |-> FALSE, made |-> {}, id |-> FALSE,
           bad |-> FALSE, tries |-> Tries]

-----------------------------------------------------------------------------
(* The state of the two services as the commands read it. *)

Absent == [st |-> "absent", del |-> FALSE]
Added == [st |-> "added", del |-> FALSE]

\* getOrgId and GetProjectId return an id once the node has a status.
HasId(node) == node.st \notin {"absent", "added"}

\* The keycloak-tenant-controller has made the groups and roles of an owner.
Made(node) == node.st \in {"ready", "idle", "leaving"}
Provided(owner) ==
    CASE owner = "realm" -> TRUE
      [] owner = "org" -> Made(org)
      [] owner = "project" -> Made(project)

Exists(u) == Account \in users[u]

\* GetDefaultOrchPassword: the variable, else Keycloak's admin password; the
\* policy is that of the users' realm.
OrchPassword(p) == IF p = Unset THEN kc.secret ELSE p
Acceptable(p) == p \in Strong

\* check_and_encode_password asks for less: ten characters, no lower case.
Encodable(p) == p \in Strong \cup Short

Init ==
    /\ org = Absent /\ project = Absent /\ folder = FALSE
    /\ users = [u \in UserNames |-> {}]
    /\ kc = [secret |-> First, env |-> First, admin |-> First, up |-> TRUE]
    /\ cmd = "none" /\ arg = <<>> /\ todo = <<>> /\ job = <<>>
    /\ ticks = 0 /\ ok = TRUE /\ missed = FALSE /\ fails = 0 /\ done = 0

-----------------------------------------------------------------------------
(* Running a command. *)

InJob == todo # <<>> /\ Head(todo) \in DOMAIN Jobs

Start(c, a) ==
    /\ Begin(c, a, Program[c], NewJob)
    /\ UNCHANGED world

Advance(n) ==
    AdvanceWith(n, [NewJob EXCEPT !.made = job.made, !.id = job.id])

Wait(s, finished, broken) ==
    /\ WaitFor(s, finished, broken,
               [NewJob EXCEPT !.made = job.made, !.id = job.id])
    /\ UNCHANGED world

-----------------------------------------------------------------------------
(* Organizations. *)

\* An organization with an id is present: the rest of CreateOrg is skipped.
CheckOrg ==
    /\ At("checkOrg")
    /\ Advance(IF HasId(org) THEN Len(CreateOrg) ELSE 1)
    /\ UNCHANGED world

AddOrg ==
    /\ At("addOrg")
    /\ IF org.st = "absent" THEN org' = Added /\ Advance(1)
       ELSE Return(FALSE) /\ UNCHANGED org
    /\ UNCHANGED <<project, folder, users, admin, fails>>

\* Without the runtime node, or without its watcher, the first tick fails.
OrgWatcher ==
    \E unseen \in BOOLEAN :
        Wait("orgWatcher", org.st \in {"ready", "idle", "leaving"},
             ~HasId(org) \/ unseen)

\* GetOrgs' error is dropped, a deleted organization ends the program.
OrgIdle == Wait("orgIdle", org.st = "idle", org.st = "absent")

\* The helper's PUT makes the organization or finds it there.
PutOrg ==
    /\ At("putOrg")
    /\ org' = IF org.st = "absent" THEN Added ELSE org
    /\ Advance(1)
    /\ UNCHANGED <<project, folder, users, admin, fails>>

OrgActive == Wait("orgActive", org.st = "idle", org.st = "absent")

\* Any error of getOrgId counts as an organization that is not there.
FindOrg ==
    /\ At("findOrg")
    /\ IF HasId(org) THEN Advance(1) ELSE Return(TRUE)
    /\ UNCHANGED world

\* Deleting the folder asks for the deletion of its project too.
DelFolder ==
    /\ At("delFolder")
    /\ IF folder THEN Advance(1) ELSE Return(FALSE)
    /\ folder' = FALSE
    /\ project' = IF folder /\ project.st # "absent"
                  THEN [project EXCEPT !.del = TRUE] ELSE project
    /\ UNCHANGED <<org, users, admin, fails>>

DelOrg ==
    /\ At("delOrg")
    /\ IF org.st = "absent" THEN Return(FALSE) /\ UNCHANGED org
       ELSE org' = [org EXCEPT !.del = TRUE] /\ Advance(1)
    /\ UNCHANGED <<project, folder, users, admin, fails>>

OrgGone == Wait("orgGone", org.st = "absent", FALSE)

-----------------------------------------------------------------------------
(* Projects. *)

AddFolder ==
    /\ At("addFolder")
    /\ IF org.st = "absent" THEN Return(FALSE) /\ UNCHANGED folder
       ELSE folder' = TRUE /\ Advance(1)
    /\ UNCHANGED <<org, project, users, admin, fails>>

\* A project that exists already is accepted, also one being deleted.
AddProject ==
    /\ At("addProject")
    /\ IF ~folder THEN Return(FALSE) /\ UNCHANGED project
       ELSE /\ project' = IF project.st = "absent" THEN Added ELSE project
            /\ Advance(1)
    /\ UNCHANGED <<org, folder, users, admin, fails>>

\* The organization is read once; a missing folder or project is waited for.
ProjectIdle ==
    Wait("projectIdle", folder /\ project.st = "idle",
         ticks = Ticks /\ org.st = "absent")

\* The API makes the folder together with the project.
PutProject ==
    /\ At("putProject")
    /\ IF Made(org)
       THEN /\ folder' = TRUE
            /\ project' = IF project.st = "absent" THEN Added ELSE project
            /\ Advance(1)
       ELSE Return(FALSE) /\ UNCHANGED <<folder, project>>
    /\ UNCHANGED <<org, users, admin, fails>>

ProjectActive ==
    Wait("projectActive", project.st = "idle", project.st = "absent")

\* The watchers of the project's runtime node, read once, are all idle.
ProjectWatchers ==
    Wait("projectWatchers", project.st \in {"ready", "idle"},
         ticks = Ticks /\ ~HasId(project))

FindProject ==
    /\ At("findProject")
    /\ IF HasId(project) THEN Advance(1) ELSE Return(TRUE)
    /\ UNCHANGED world

DelProject ==
    /\ At("delProject")
    /\ IF project.st = "absent" THEN Return(FALSE) /\ UNCHANGED project
       ELSE project' = [project EXCEPT !.del = TRUE] /\ Advance(1)
    /\ UNCHANGED <<org, folder, users, admin, fails>>

\* A bug: the loop over GetProjects has no timeout.
ProjectGoneAtLast ==
    /\ At("projectGone")
    /\ IF project.st = "absent" THEN Advance(1) ELSE UNCHANGED command
    /\ UNCHANGED world

\* The mage command looks once more when the time is over.
ProjectGone == Wait("projectGone", project.st = "absent", FALSE)

-----------------------------------------------------------------------------
(* Users. *)

\* KeycloakLogin uses the password in the secret.
KeycloakLogin ==
    /\ At("login")
    /\ IF kc.up /\ kc.admin = kc.secret THEN Advance(1) ELSE Return(FALSE)
    /\ UNCHANGED world

ProjectId ==
    /\ At("projectId")
    /\ IF HasId(project) THEN Advance(1) ELSE Return(FALSE)
    /\ UNCHANGED world

Current == Jobs[Head(todo)][job.i]
Grants == Current.grants

NextUser(j) ==
    IF j.i < Len(Jobs[Head(todo)])
    THEN Within([j EXCEPT !.i = @ + 1, !.k = 0])
    ELSE Advance(1)

\* The orgId of the caller after createKeycloakUser returned id.
Kept(id) == IF Current.keeps THEN id ELSE job.org

\* A user that is found is taken as complete: its password, groups and roles
\* are not looked at.  The empty orgId that comes with it is kept.
FindUser ==
    /\ InJob /\ job.k = 0 /\ Exists(Current.name)
    /\ IF Head(todo) \in {"admin", "e2e"} THEN Return(FALSE)
       ELSE NextUser([job EXCEPT !.org = Kept(FALSE)])
    /\ UNCHANGED world

\* Without an id of the organization nothing is created and no error returned,
\* but the empty user id that comes back fails at the first group.
CreateUser ==
    /\ InJob /\ job.k = 0 /\ ~Exists(Current.name)
    /\ IF Head(todo) \in {"admin", "infra", "cluster"} /\ ~HasId(org)
       THEN Return(FALSE) /\ UNCHANGED users
       ELSE /\ users' = [users EXCEPT ![Current.name] = {Account}]
            /\ Within([job EXCEPT !.k = 1, !.org = Kept(TRUE),
                                  !.made = @ \cup {Current.name}])
    /\ UNCHANGED <<nodes, admin, fails>>

\* A bug: every command goes on with the next user.
GiveUpNever == NextUser(job)

\* CreateDefaultUser goes on with the next user when one cannot be created.
GiveUp ==
    IF Head(todo) = "example" /\ job.k <= 1 THEN NextUser(job)
    ELSE Return(FALSE)

Give(g) ==
    /\ users' = [users EXCEPT ![Current.name] = @ \cup {g}]
    /\ IF job.k < Len(Grants) THEN Within([job EXCEPT !.k = @ + 1])
       ELSE NextUser(job)

\* The user exists before the password is read and found too weak.
SetUserPassword ==
    /\ InJob /\ job.k = 1
    /\ \E p \in EnvPasswords :
         IF Acceptable(OrchPassword(p)) THEN Give(Password)
         ELSE GiveUp /\ UNCHANGED users
    /\ UNCHANGED <<nodes, admin, fails>>

\* The name of a member role is made of both ids.
CanGive(g) == Provided(g[1]) /\ (g = Member => job.org)

GrantNext ==
    /\ InJob /\ job.k > 1
    /\ IF CanGive(Grants[job.k]) THEN Give(Grants[job.k])
       ELSE GiveUp /\ UNCHANGED users
    /\ UNCHANGED <<nodes, admin, fails>>

\* The helper's AddUserToGroup for the Project-Manager-Group.
JoinOrg ==
    /\ At("joinOrg")
    /\ IF Provided("org") /\ Exists("e2e-user")
       THEN /\ users' = [users EXCEPT !["e2e-user"] =
                           @ \cup {<<"org", "Project-Manager-Group">>}]
            /\ Advance(1)
       ELSE Return(FALSE) /\ UNCHANGED users
    /\ UNCHANGED <<nodes, admin, fails>>

\* ManageTenancyUserAndRoles with removeUser: no user, nothing to do.
RemoveUser ==
    /\ At("remove")
    /\ users' = [users EXCEPT !["e2e-user"] = {}]
    /\ Advance(1)
    /\ UNCHANGED <<nodes, admin, fails>>

-----------------------------------------------------------------------------
(* Roles of the tenancy user. *)

Roles == RolesOf[arg.level]
Role == Roles[job.k + 1]

\* manageRole: the role must be found; then it is mapped or unmapped.
Mapped ==
    users' = [users EXCEPT !["tenancy-user"] =
                IF arg.action = "POST" THEN @ \cup {Role} ELSE @ \ {Role}]

ManageRole ==
    /\ At("roles")
    /\ IF ~Provided(Role[1]) THEN Return(FALSE) /\ UNCHANGED users
       ELSE /\ Mapped
            /\ IF job.k + 1 < Len(Roles) THEN Within([job EXCEPT !.k = @ + 1])
               ELSE Advance(1)
    /\ UNCHANGED <<nodes, admin, fails>>

GetUserID ==
    /\ At("userId")
    /\ IF Exists("tenancy-user") THEN Advance(1) ELSE Return(FALSE)
    /\ UNCHANGED world

\* A bug: the count is looked at one try too late.
EndPassLate(bad) ==
    IF ~bad THEN Advance(1)
    ELSE IF job.tries = 0 THEN Return(FALSE)
    ELSE Within([job EXCEPT !.k = 0, !.bad = FALSE, !.tries = @ - 1])

\* A bug: the errors of the pass are printed and forgotten.
EndPassOnce(bad) == Advance(1)

\* After a pass over all roles: done, another try, or too many of them.
EndPass(bad) ==
    IF ~bad THEN Advance(1)
    ELSE IF job.tries = 1 THEN Return(FALSE)
    ELSE Within([job EXCEPT !.k = 0, !.bad = FALSE, !.tries = @ - 1])

\* ManageRoles tries every role in each pass and remembers the failures.
ManageRoleRetried ==
    /\ At("rolesRetried")
    /\ LET bad == job.bad \/ ~Provided(Role[1]) IN
         /\ IF Provided(Role[1]) THEN Mapped ELSE UNCHANGED users
         /\ IF job.k + 1 < Len(Roles)
            THEN Within([job EXCEPT !.k = @ + 1, !.bad = bad])
            ELSE EndPass(bad)
    /\ UNCHANGED <<nodes, admin, fails>>

-----------------------------------------------------------------------------
(* The admin's password: a failing command is printed and the next one run. *)

Misses ==
    /\ Fault /\ missed' = TRUE /\ UNCHANGED kc

Works(k) == kc' = k /\ UNCHANGED <<missed, fails>>

\* Without the new secret the pod is not restarted; the reset runs anyway.
SetSecret ==
    /\ At("setSecret")
    /\ \/ ~Encodable(arg.pw) /\ Return(FALSE) /\ UNCHANGED <<admin, fails>>
       \/ /\ Encodable(arg.pw) /\ Works([kc EXCEPT !.secret = arg.pw])
          /\ Advance(1)
       \/ Encodable(arg.pw) /\ Misses /\ Advance(2)
    /\ UNCHANGED <<nodes, users>>

\* A bug: the pod keeps running with the environment it has.
RestartNothing ==
    /\ At("restartPod")
    /\ Works(kc) \/ Misses
    /\ Advance(1)
    /\ UNCHANGED <<nodes, users>>

\* The command waits 45 seconds for the pod, which may take longer.
RestartPod ==
    /\ At("restartPod")
    /\ Works([kc EXCEPT !.up = FALSE]) \/ Misses
    /\ Advance(1)
    /\ UNCHANGED <<nodes, users>>

\* The loop over kubectl logs has no limit.
PsqlStarted ==
    /\ At("psql") /\ Advance(1)
    /\ UNCHANGED world

\* A query that fails returns "error" for the id, which no row has.
SelectAdmin ==
    /\ At("selectAdmin")
    /\ \/ Works(kc) /\ job' = [job EXCEPT !.id = kc.admin # "none"]
       \/ Misses /\ UNCHANGED job
    /\ todo' = Tail(todo)
    /\ UNCHANGED <<nodes, users, cmd, arg, ticks, ok, done>>

DropCredential ==
    /\ At("dropCredential")
    /\ \/ Works([kc EXCEPT !.admin = IF job.id THEN "bare" ELSE @])
       \/ Misses
    /\ Advance(1)
    /\ UNCHANGED <<nodes, users>>

DropAdmin ==
    /\ At("dropAdmin")
    /\ \/ Works([kc EXCEPT !.admin = IF job.id THEN "none" ELSE @])
       \/ Misses
    /\ Advance(1)
    /\ UNCHANGED <<nodes, users>>

\* bootstrap-admin runs in the pod, with the pod's environment, and fails when
\* there is an admin.
Bootstrap ==
    /\ At("bootstrap")
    /\ \/ kc.up /\ kc.admin = "none" /\ Works([kc EXCEPT !.admin = kc.env])
       \/ /\ ~(kc.up /\ kc.admin = "none") /\ missed' = TRUE
          /\ UNCHANGED <<kc, fails>>
       \/ Misses
    /\ Advance(1)
    /\ UNCHANGED <<nodes, users>>

-----------------------------------------------------------------------------
(* Calls that fail. *)

\* getOrgId's and GetProjectId's errors read as "not there"; a failing read in
\* the mage commands' waits for a deletion is one more tick, while the test
\* helpers' end with it; ManageRoles remembers it.
CallFails ==
    /\ cmd \notin PasswordCommands \cup {"none"}
    /\ Fault
    /\ \/ At("checkOrg") /\ Advance(1)
       \/ (At("findOrg") \/ At("findProject")) /\ Return(TRUE)
       \/ /\ At("rolesRetried")
          /\ IF job.k + 1 < Len(Roles)
             THEN Within([job EXCEPT !.k = @ + 1, !.bad = TRUE])
             ELSE EndPass(TRUE)
       \/ InJob /\ GiveUp
       \/ /\ ~InJob
          /\ Head(todo) \notin {"checkOrg", "findOrg", "findProject",
                               "rolesRetried"}
          /\ Head(todo) \in {"orgGone", "projectGone"} => cmd = "dismantle"
          /\ Return(FALSE)
    /\ UNCHANGED <<nodes, users, admin>>

-----------------------------------------------------------------------------
(* The tenancy manager and its watchers, and Keycloak's pod. *)

process == <<command, fails, missed>>

\* Status, groups and roles, and the end of the creation.
Served(node) ==
    [node EXCEPT !.st = CASE @ = "added" -> "busy" [] @ = "busy" -> "ready"
                          [] @ = "ready" -> "idle" [] OTHER -> @]

InCreation(node) == node.st \in {"added", "busy", "ready"} /\ ~node.del

ServeOrg ==
    /\ InCreation(org) /\ org' = Served(org)
    /\ UNCHANGED <<project, folder, users, kc, process>>

ServeProject ==
    /\ InCreation(project) /\ project' = Served(project)
    /\ UNCHANGED <<org, folder, users, kc, process>>

\* The status follows the deletion with a delay.
NoticeDeletion ==
    /\ \/ /\ org.del /\ org.st = "idle"
          /\ org' = [org EXCEPT !.st = "leaving"] /\ UNCHANGED project
       \/ /\ project.del /\ project.st = "idle"
          /\ project' = [project EXCEPT !.st = "leaving"] /\ UNCHANGED org
    /\ UNCHANGED <<folder, users, kc, process>>

\* The groups and roles of an owner go with it, and their grants.
Withdraw(owner) ==
    users' = [u \in UserNames |-> {g \in users[u] : g[1] # owner}]

RemoveOrg ==
    /\ org.del /\ org' = Absent /\ Withdraw("org")
    /\ UNCHANGED <<project, folder, kc, process>>

RemoveProject ==
    /\ project.del /\ project' = Absent /\ Withdraw("project")
    /\ UNCHANGED <<org, folder, kc, process>>

\* A new pod reads the secret into its environment.
PodUp ==
    /\ ~kc.up /\ kc' = [kc EXCEPT !.up = TRUE, !.env = kc.secret]
    /\ UNCHANGED <<nodes, users, process>>

-----------------------------------------------------------------------------
Step ==
    \/ CheckOrg \/ AddOrg \/ OrgWatcher \/ OrgIdle \/ PutOrg \/ OrgActive
    \/ FindOrg \/ DelFolder \/ DelOrg \/ OrgGone
    \/ AddFolder \/ AddProject \/ ProjectIdle \/ PutProject \/ ProjectActive
    \/ ProjectWatchers \/ FindProject \/ DelProject \/ ProjectGone
    \/ KeycloakLogin \/ ProjectId \/ FindUser \/ CreateUser
    \/ SetUserPassword \/ GrantNext \/ JoinOrg \/ RemoveUser
    \/ ManageRole \/ GetUserID \/ ManageRoleRetried
    \/ SetSecret \/ RestartPod \/ SelectAdmin \/ DropCredential
    \/ DropAdmin \/ Bootstrap

Services ==
    \/ ServeOrg \/ ServeProject \/ NoticeDeletion \/ RemoveOrg
    \/ RemoveProject \/ PodUp

Next ==
    \/ \E c \in Commands : \E a \in Args(c) : Start(c, a)
    \/ Step \/ PsqlStarted \/ CallFails \/ Services

Spec == Init /\ [][Next]_vars

\* The program goes on by itself; nothing is promised by the services, nor by
\* the log that ResetPassword waits for.
FairSpec == Spec /\ WF_vars(Step)

-----------------------------------------------------------------------------
(* Properties. *)

NodeType == [st : {"absent", "added", "busy", "ready", "idle", "leaving"},
             del : BOOLEAN]

GrantsOf(j) ==
    UNION {{Jobs[j][i].grants[k] : k \in DOMAIN Jobs[j][i].grants} :
              i \in DOMAIN Jobs[j]}
RolesAt(l) == {RolesOf[l][k] : k \in DOMAIN RolesOf[l]}
Grantable ==
    {Account} \cup UNION ({GrantsOf(j) : j \in DOMAIN Jobs}
                            \cup {RolesAt(l) : l \in DOMAIN RolesOf})

\* Types; a command's locals stay within its job, its wait and its tries.
TypeOK ==
    /\ org \in NodeType /\ project \in NodeType /\ folder \in BOOLEAN
    /\ users \in [UserNames -> SUBSET Grantable]
    /\ kc.secret \in Passwords /\ kc.env \in Passwords
    /\ kc.admin \in Passwords \cup {"none", "bare"} /\ kc.up \in BOOLEAN
    /\ cmd \in DOMAIN Program \cup {"none"}
    /\ cmd # "none" => arg \in Args(cmd) /\ todo # <<>>
    /\ InJob => job.i \in DOMAIN Jobs[Head(todo)] /\ job.k \in 0..Len(Grants)
    /\ cmd # "none" => job.tries \in 1..Tries
    /\ missed \in BOOLEAN /\ CommandType

\* Between commands the password in the secret is the one Keycloak's admin has
\* in the database, unless a command of a password change failed: the order
\* secret, pod, database keeps three copies of one password together
\* (keycloak_utils.go).
SecretLogsIn ==
    (cmd \notin PasswordCommands /\ ~missed) => kc.admin = kc.secret

\* u has all that its job gives, but for what went with its owner.
Complete(u) ==
    \A j \in DOMAIN Jobs : \A i \in DOMAIN Jobs[j] :
        Jobs[j][i].name = u =>
            \A k \in DOMAIN Jobs[j][i].grants :
                \/ Jobs[j][i].grants[k] \in users[u]
                \/ ~Provided(Jobs[j][i].grants[k][1])

UserCommands == {"createAdmin", "infraUsers", "clusterUsers", "setup"}

\* When a command that creates users reports success, every user it made has
\* its password, its groups and its member role, whatever happened to the
\* organization and the project meanwhile (tenant_utils.go:330, 750, 842).
MadeUsersAreComplete ==
    [][(Succeeds /\ cmd \in UserCommands) =>
         \A u \in job.made : Complete(u)']_vars

\* When a role command reports success, the user has every role of the list
\* (or none of it, for DELETE), although roles appear and fail one by one
\* while the passes go on (dev_utils.go:627, 692).
RolesAsAsked ==
    [][(Succeeds /\ cmd \in RoleCommands) =>
         \A k \in DOMAIN Roles :
             \/ ~Provided(Roles[k][1])
             \/ (Roles[k] \in users'["tenancy-user"])
                  = (arg.action = "POST")]_vars

\* Every command comes back, also when the tenancy manager does nothing; only
\* the password commands may wait for ever (keycloak_utils.go:126).
CommandsReturn ==
    (cmd \notin PasswordCommands \cup {"none"}) ~> (cmd = "none")

\* What the comments promise and reruns break: when the users of a project are
\* reported as created, they are complete (tenant_utils.go:748, 840).
UsersAreComplete ==
    [][(Succeeds /\ cmd = "infraUsers") =>
         \A i \in DOMAIN InfraUsers : Complete(InfraUsers[i].name)']_vars
=============================================================================
