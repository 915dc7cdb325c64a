--------------------------- MODULE Tenancy_proofs ---------------------------
(***************************************************************************)
(* Tenancy for all passwords, commands, tries and failing calls: its       *)
(* types, the password that the secret and the database share, and the     *)
(* roles that a command which reports success has left.                    *)
(***************************************************************************)
EXTENDS Tenancy, Command_proofs

-----------------------------------------------------------------------------
(* Programs *)

\* The steps of all programs.
Steps ==
    {"checkOrg", "addOrg", "orgWatcher", "orgIdle", "putOrg", "orgActive",
     "findOrg", "delFolder", "delOrg", "orgGone", "addFolder", "addProject",
     "projectIdle", "putProject", "projectActive", "projectWatchers",
     "findProject", "delProject", "projectGone", "login", "projectId",
     "joinOrg", "remove", "roles", "userId", "rolesRetried", "setSecret",
     "restartPod", "psql", "selectAdmin", "dropCredential", "dropAdmin",
     "bootstrap", "admin", "infra", "cluster", "example", "e2e", "tenancy"}

\* The steps of p that leave several steps behind, or the next one to a
\* function of their own, find them in the program.
Left(p) ==
    /\ p \in Seq(Steps) /\ Len(p) > 0
    /\ \A i \in 1..Len(p) :
         /\ p[i] = "checkOrg" => Len(p) - i >= 3
         /\ p[i] = "setSecret" => Len(p) - i >= 2
         /\ p[i] = "selectAdmin" =>
              Len(p) - i >= 1 /\ p[i + 1] = "dropCredential"

\* A program without such steps.
Plain(p) ==
    /\ p \in Seq(Steps)
    /\ \A i \in 1..Len(p) :
         p[i] \notin {"checkOrg", "setSecret", "selectAdmin"}

\* A plain program may follow any other.
LEMMA PlainJoin ==
    ASSUME NEW s, NEW t, Left(s), Plain(t) PROVE Left(s \o t)
  BY Joining DEF Left, Plain, Joins

\* The steps of ResetPassword, by their numbers.
LEMMA ResetSteps ==
    /\ ResetPassword \in Seq(Steps) /\ Len(ResetPassword) = 5
    /\ ResetPassword[1] = "psql" /\ ResetPassword[2] = "selectAdmin"
    /\ ResetPassword[3] = "dropCredential"
    /\ ResetPassword[4] = "dropAdmin" /\ ResetPassword[5] = "bootstrap"
  BY DEF ResetPassword, Steps

\* The steps of the command that sets a password, by their numbers.
LEMMA PasswordSteps ==
    LET p == Program["setPassword"] IN
    /\ p \in Seq(Steps) /\ Len(p) = 7
    /\ p[1] = "setSecret" /\ p[2] = "restartPod" /\ p[3] = "psql"
    /\ p[4] = "selectAdmin" /\ p[5] = "dropCredential"
    /\ p[6] = "dropAdmin" /\ p[7] = "bootstrap"
<1> DEFINE s == <<"setSecret", "restartPod">>
<1>1. Program["setPassword"] = s \o ResetPassword
  BY DEF Program
<1>2. /\ s \in Seq(Steps) /\ Len(s) = 2
      /\ s[1] = "setSecret" /\ s[2] = "restartPod"
  BY DEF Steps
<1> HIDE DEF s
<1>3. /\ s \o ResetPassword \in Seq(Steps)
      /\ Joins(s \o ResetPassword, s, ResetPassword)
  BY <1>2, ResetSteps, Joining
<1> DEFINE p == s \o ResetPassword
<1> HIDE DEF p
<1>4. /\ Len(p) = 7 /\ \A i \in 1..2 : p[i] = s[i]
      /\ \A i \in 1..5 : p[2 + i] = ResetPassword[i]
  BY <1>3, <1>2, ResetSteps DEF p, Joins
<1>5. /\ p[2 + 1] = "psql" /\ p[2 + 2] = "selectAdmin"
      /\ p[2 + 3] = "dropCredential" /\ p[2 + 4] = "dropAdmin"
      /\ p[2 + 5] = "bootstrap"
  BY <1>4, ResetSteps
<1>6. p[1] = "setSecret" /\ p[2] = "restartPod" BY <1>4, <1>2
<1>7. Program["setPassword"] = p BY <1>1 DEF p
<1>8. /\ p[3] = "psql" /\ p[4] = "selectAdmin"
      /\ p[5] = "dropCredential" /\ p[6] = "dropAdmin"
      /\ p[7] = "bootstrap"
  BY <1>5
<1>9. p \in Seq(Steps)
  BY <1>3 DEF p
<1> QED BY <1>4, <1>6, <1>7, <1>8, <1>9

\* Every program is one of these.
LEMMA Programs == \A c \in DOMAIN Program : Left(Program[c])
<1>1. /\ Left(CreateOrg) /\ Left(CreateProjectAdminInOrg)
      /\ Left(CreateProjectInOrg) /\ Left(CreateEdgeInfraUsers)
      /\ Left(CreateClusterOrchUsers)
  BY DEF Left, Steps, CreateOrg, CreateProjectAdminInOrg,
         CreateProjectInOrg, CreateEdgeInfraUsers, CreateClusterOrchUsers
<1>2. /\ Plain(CreateProjectAdminInOrg) /\ Plain(CreateProjectInOrg)
      /\ Plain(CreateEdgeInfraUsers) /\ Plain(CreateClusterOrchUsers)
  BY DEF Plain, Steps, CreateProjectAdminInOrg, CreateProjectInOrg,
         CreateEdgeInfraUsers, CreateClusterOrchUsers
<1>3. Left(CreateOrg \o CreateProjectAdminInOrg \o CreateProjectInOrg
             \o CreateEdgeInfraUsers \o CreateClusterOrchUsers)
  BY <1>1, <1>2, PlainJoin
<1>4. /\ Left(<<"login", "example">>) /\ Left(<<"projectWatchers">>)
      /\ Left(<<"findOrg", "delFolder", "delOrg", "orgGone">>)
      /\ Left(<<"findProject", "delProject", "projectGone">>)
  BY DEF Left, Steps
<1>5. /\ Left(<<"login", "e2e", "putOrg", "orgActive", "login",
                "joinOrg", "putProject", "projectActive">>)
      /\ Left(<<"delProject", "projectGone", "delOrg", "orgGone">>)
  BY DEF Left, Steps
<1>6. /\ Left(<<"login", "tenancy", "roles">>)
      /\ Left(<<"userId", "rolesRetried">>) /\ Left(<<"login", "remove">>)
  BY DEF Left, Steps
<1>7. Left(ResetPassword)
  BY ResetSteps DEF Left
<1>8. Left(Program["setPassword"])
  BY PasswordSteps DEF Left
<1>9. /\ Left(Program["createOrg"]) /\ Left(Program["createAdmin"])
      /\ Left(Program["createProject"]) /\ Left(Program["infraUsers"])
      /\ Left(Program["clusterUsers"]) /\ Left(Program["setup"])
  BY <1>1, <1>3 DEF Program
<1>10. /\ Left(Program["exampleUsers"]) /\ Left(Program["watchers"])
       /\ Left(Program["deleteOrg"]) /\ Left(Program["deleteProject"])
       /\ Left(Program["prepare"]) /\ Left(Program["dismantle"])
  BY <1>4, <1>5 DEF Program
<1>11. /\ Left(Program["tenancyRoles"]) /\ Left(Program["manageRoles"])
       /\ Left(Program["removeUser"]) /\ Left(Program["resetPassword"])
  BY <1>6, <1>7 DEF Program
<1>12. DOMAIN Program =
         {"createOrg", "createAdmin", "createProject", "infraUsers",
          "clusterUsers", "setup", "exampleUsers", "watchers", "deleteOrg",
          "deleteProject", "prepare", "dismantle", "tenancyRoles",
          "manageRoles", "removeUser", "setPassword", "resetPassword"}
  BY DEF Program
<1> QED BY <1>8, <1>9, <1>10, <1>11, <1>12

-----------------------------------------------------------------------------
(* Users, roles and arguments *)

\* The local variables of a running command.
JobType ==
    [i : Nat, k : Nat, org : BOOLEAN, made : SUBSET UserNames,
     id : BOOLEAN, bad : BOOLEAN, tries : 1..Tries]

\* A user's grants start with its password.
Shaped(u) ==
    /\ Len(u.grants) \in Nat \ {0} /\ DOMAIN u.grants = 1..Len(u.grants)
    /\ u.grants[1] = Password

\* ... as User makes them, whatever the other grants.
LEMMA UserShape ==
    ASSUME NEW S, Password \in S, NEW g \in Seq(S), NEW n, NEW k
    PROVE  Shaped(User(n, k, g))
<1>1. <<Password>> \in Seq(S) /\ Len(<<Password>>) = 1
  OBVIOUS
<1>2. /\ <<Password>> \o g \in Seq(S)
      /\ Joins(<<Password>> \o g, <<Password>>, g)
  BY <1>1, Joining
<1>3. Len(<<Password>> \o g) = 1 + Len(g)
  BY <1>1, <1>2 DEF Joins
<1>4. (<<Password>> \o g)[1] = Password
  BY <1>1, <1>2 DEF Joins
<1> QED BY <1>2, <1>3, <1>4 DEF User, Shaped

\* ... for the numbers of grants that the lists of users have.
LEMMA UserShapes ==
    ASSUME NEW n, NEW k
    PROVE  /\ Shaped(User(n, k, <<>>))
           /\ \A a : Shaped(User(n, k, <<a>>))
           /\ \A a, b : Shaped(User(n, k, <<a, b>>))
           /\ \A a, b, c : Shaped(User(n, k, <<a, b, c>>))
<1>1. Shaped(User(n, k, <<>>))
  BY UserShape, <<>> \in Seq({Password})
<1>2. ASSUME NEW a PROVE Shaped(User(n, k, <<a>>))
  BY UserShape, <<a>> \in Seq({Password, a})
<1>3. ASSUME NEW a, NEW b PROVE Shaped(User(n, k, <<a, b>>))
  BY UserShape, <<a, b>> \in Seq({Password, a, b})
<1>4. ASSUME NEW a, NEW b, NEW c PROVE Shaped(User(n, k, <<a, b, c>>))
  BY UserShape, <<a, b, c>> \in Seq({Password, a, b, c})
<1> QED BY <1>1, <1>2, <1>3, <1>4

\* A list of such users.
JobShaped(s) ==
    /\ Len(s) \in Nat \ {0} /\ DOMAIN s = 1..Len(s)
    /\ \A i \in DOMAIN s : Shaped(s[i])

\* ... for the lengths that the lists have.
LEMMA JobShapes ==
    /\ \A a : Shaped(a) => JobShaped(<<a>>)
    /\ \A a, b : Shaped(a) /\ Shaped(b) => JobShaped(<<a, b>>)
    /\ \A a, b, c : Shaped(a) /\ Shaped(b) /\ Shaped(c)
                      => JobShaped(<<a, b, c>>)
    /\ \A a, b, c, d : Shaped(a) /\ Shaped(b) /\ Shaped(c) /\ Shaped(d)
                         => JobShaped(<<a, b, c, d>>)
  BY DEF JobShaped

\* Every list of users is one of these.
LEMMA JobShape == \A j \in DOMAIN Jobs : JobShaped(Jobs[j])
<1>1. JobShaped(InfraUsers)
  BY UserShapes, JobShapes DEF InfraUsers
<1>2. JobShaped(ClusterUsers) /\ JobShaped(ExampleUsers)
  BY UserShapes, JobShapes DEF ClusterUsers, ExampleUsers
<1>4. /\ JobShaped(<<AdminUser>>)
      /\ JobShaped(<<User("e2e-user", FALSE, <<>>)>>)
      /\ JobShaped(<<User("tenancy-user", FALSE, <<>>)>>)
  BY UserShapes, JobShapes DEF AdminUser
<1>5. DOMAIN Jobs = {"admin", "infra", "cluster", "example", "e2e", "tenancy"}
  BY DEF Jobs
<1>6. /\ JobShaped(Jobs["admin"]) /\ JobShaped(Jobs["infra"])
      /\ JobShaped(Jobs["cluster"]) /\ JobShaped(Jobs["example"])
      /\ JobShaped(Jobs["e2e"]) /\ JobShaped(Jobs["tenancy"])
  BY <1>1, <1>2, <1>4 DEF Jobs
<1> QED BY <1>5, <1>6

\* The names and the grants of the lists have their types.
LEMMA GrantsAreGrantable ==
    ASSUME NEW j \in DOMAIN Jobs, NEW i \in DOMAIN Jobs[j]
    PROVE  /\ Jobs[j][i].name \in UserNames
           /\ \A k \in DOMAIN Jobs[j][i].grants :
                  Jobs[j][i].grants[k] \in Grantable
<1> DEFINE Names(m) == {Jobs[m][l].name : l \in DOMAIN Jobs[m]}
<1>1. Jobs[j][i].name \in Names(j)
  OBVIOUS
<1>2. \A k \in DOMAIN Jobs[j][i].grants :
          Jobs[j][i].grants[k] \in GrantsOf(j)
  BY DEF GrantsOf
<1>3. UserNames = UNION {Names(m) : m \in DOMAIN Jobs}
  BY DEF UserNames
<1>4. GrantsOf(j) \subseteq Grantable
  BY DEF Grantable
<1> HIDE DEF Names
<1> QED BY <1>1, <1>2, <1>3, <1>4

\* Every list of roles has two roles, all of them grantable.
LEMMA RoleShape ==
    \A l \in DOMAIN RolesOf :
        /\ Len(RolesOf[l]) = 2 /\ DOMAIN RolesOf[l] = 1..2
        /\ \A k \in 1..2 : RolesOf[l][k] \in Grantable
<1>1. \A l \in DOMAIN RolesOf :
          Len(RolesOf[l]) = 2 /\ DOMAIN RolesOf[l] = 1..2
  BY DEF RolesOf
<1>2. \A l \in DOMAIN RolesOf : \A k \in 1..2 :
          RolesOf[l][k] \in RolesAt(l)
  BY <1>1 DEF RolesAt
<1>3. ASSUME NEW l \in DOMAIN RolesOf PROVE RolesAt(l) \subseteq Grantable
  BY DEF Grantable
<1> QED BY <1>1, <1>2, <1>3

\* The level of every argument has a list of roles.
LEMMA ArgLevels ==
    ASSUME NEW c \in DOMAIN Program, NEW a \in Args(c)
    PROVE  a.level \in DOMAIN RolesOf
  BY DEF Args, NoArg, RolesOf, RoleCommands

-----------------------------------------------------------------------------
(* The place of a command *)

\* A command runs the rest of its program.
Running ==
    /\ cmd \in DOMAIN Program /\ arg \in Args(cmd) /\ job \in JobType
    /\ todo \in Seq(Steps) /\ todo # <<>> /\ Rest(todo, Program[cmd])

\* No command runs.
Idle == cmd = "none" /\ arg = <<>> /\ todo = <<>> /\ job = <<>>

\* The current user, grant or role is one of the list.
Locals ==
    /\ InJob => job.i \in DOMAIN Jobs[Head(todo)] /\ job.k \in 0..Len(Grants)
    /\ At("roles") \/ At("rolesRetried") => job.k \in 0..1

\* What a command keeps track of is within its program and its lists.
Turn ==
    /\ (Running /\ Locals) \/ Idle
    /\ ticks \in 0..Ticks /\ ok \in BOOLEAN /\ done \in 0..MaxCommands

\* No command is called none.
LEMMA Names == "none" \notin DOMAIN Program
  BY DEF Program

\* Every list has a first user, whose grants are still to come.
LEMMA FirstUser ==
    \A j \in DOMAIN Jobs :
        1 \in DOMAIN Jobs[j] /\ 0 \in 0..Len(Jobs[j][1].grants)
  BY JobShape DEF JobShaped, Shaped

\* The steps that leave several steps behind have them ahead, for a command
\* that runs.
LEMMA Places ==
    ASSUME Running
    PROVE  /\ Len(todo) \in Nat \ {0}
           /\ At("checkOrg") => Len(todo) >= 4
           /\ At("setSecret") => Len(todo) >= 3
           /\ At("selectAdmin") =>
                Len(todo) >= 2 /\ todo[2] = "dropCredential"
<1>1. Left(Program[cmd])
  BY Programs DEF Running
<1>2. Len(todo) \in Nat \ {0} /\ Head(todo) = todo[1]
  BY DEF Running
<1>3. todo[1] = Program[cmd][Len(Program[cmd]) - Len(todo) + 1]
  BY <1>1, <1>2 DEF Running, Rest, Left
<1> DEFINE i == Len(Program[cmd]) - Len(todo) + 1
<1>4. i \in 1..Len(Program[cmd]) /\ Len(Program[cmd]) - i = Len(todo) - 1
  BY <1>1, <1>2 DEF Running, Rest, Left
<1>5. Len(todo) >= 2 => todo[2] = Program[cmd][i + 1]
  BY <1>1, <1>2 DEF Running, Rest, Left
<1> HIDE DEF i
<1>6. todo[1] = Program[cmd][i]
  BY <1>3 DEF i
<1> QED BY <1>1, <1>2, <1>4, <1>5, <1>6 DEF At, Left

\* A step starts with locals of the right type.
LEMMA NewJobType == NewJob \in JobType
  BY TenancyAssumption DEF NewJob, JobType

\* A command that advances returns or runs the rest of its program.
LEMMA Advances ==
    ASSUME Turn, Running, NEW n \in 1..Len(todo), Advance(n)
    PROVE  /\ Turn'
           /\ \/ Len(todo) = n /\ Return(TRUE)
              \/ /\ Running' /\ Len(todo') = Len(todo) - n /\ cmd' = cmd
                 /\ arg' = arg
                 /\ job' = [NewJob EXCEPT !.made = job.made, !.id = job.id]
<1> DEFINE j == [NewJob EXCEPT !.made = job.made, !.id = job.id]
<1>1. j \in JobType /\ j.i = 1 /\ j.k = 0
  BY NewJobType DEF Running, JobType, NewJob
<1>2. Program[cmd] \in Seq(Steps)
  BY Programs DEF Running, Left
<1>3. \/ Len(todo) = n /\ Return(TRUE)
      \/ /\ todo' \in Seq(Steps) /\ todo' # <<>> /\ Rest(todo', Program[cmd])
         /\ Len(todo') = Len(todo) - n
         /\ job' = j /\ ticks' = Ticks /\ UNCHANGED <<cmd, arg, ok, done>>
  BY <1>2, Advancing DEF Running, Advance
<1>4. CASE Len(todo) = n /\ Return(TRUE)
  <2>1. Turn'
    BY <1>4, TenancyAssumption DEF Return, Turn, Idle
  <2> QED BY <1>4, <2>1
<1>5. CASE ~(Len(todo) = n /\ Return(TRUE))
  <2>1. Running' /\ job'.i = 1 /\ job'.k = 0
    BY <1>1, <1>3, <1>5 DEF Running
  <2>2. Locals'
    BY <2>1, FirstUser DEF Locals, InJob, Grants, Current
  <2>3. ticks' = Ticks /\ ok' = ok /\ done' = done
    BY <1>3, <1>5
  <2>4. job' = j /\ Len(todo') = Len(todo) - n /\ cmd' = cmd /\ arg' = arg
    BY <1>3, <1>5
  <2>5. Turn'
    BY <2>1, <2>2, <2>3, TenancyAssumption DEF Turn
  <2> QED BY <2>1, <2>4, <2>5
<1> QED BY <1>4, <1>5

\* A command may return at any step.
LEMMA Returns ==
    ASSUME Turn, NEW b \in BOOLEAN, Return(b) PROVE Turn'
  BY TenancyAssumption DEF Return, Turn, Idle

\* A command may change its locals within their lists.
LEMMA Continues ==
    ASSUME Turn, Running, NEW j \in JobType, Within(j),
           InJob => /\ j.i \in DOMAIN Jobs[Head(todo)]
                    /\ j.k \in 0..Len(Jobs[Head(todo)][j.i].grants),
           At("roles") \/ At("rolesRetried") => j.k \in 0..1
    PROVE  Turn'
  BY DEF Turn, Running, Within, Locals, InJob, At, Grants, Current

\* Whatever leaves the command alone keeps its place.
LEMMA Still ==
    ASSUME Turn, UNCHANGED <<cmd, arg, todo, job, ok, done>>,
           ticks' \in 0..Ticks
    PROVE  Turn'
<1>1. ASSUME Running /\ Locals PROVE (Running /\ Locals)'
  BY <1>1 DEF Running, Locals, InJob, At, Grants, Current
<1>2. ASSUME Idle PROVE Idle'
  BY <1>2 DEF Idle
<1> QED BY <1>1, <1>2 DEF Turn

\* One more tick of a wait.
Ticking ==
    ticks > 0 /\ ticks' = ticks - 1
    /\ UNCHANGED <<cmd, arg, todo, job, ok, done>>

\* Every step may leave itself behind, return or wait.
LEMMA MovesOn ==
    ASSUME Turn, todo # <<>>,
           Advance(1) \/ Return(TRUE) \/ Return(FALSE) \/ Ticking
    PROVE  Turn'
<1>1. Running /\ 1 \in 1..Len(todo)
  BY Places DEF Turn, Idle
<1>2. CASE Ticking
  <2>1. ticks' \in 0..Ticks
    BY <1>2, TenancyAssumption DEF Turn, Ticking
  <2> QED BY <1>2, <2>1, Still DEF Ticking
<1> QED BY <1>1, <1>2, Advances, Returns

\* A command starts with its whole program.
LEMMA StartTurn ==
    ASSUME Turn, NEW c \in DOMAIN Program, NEW a \in Args(c), Start(c, a)
    PROVE  Turn'
<1>1. Left(Program[c])
  BY Programs
<1>2. Program[c] # <<>> /\ Rest(Program[c], Program[c])
  BY <1>1 DEF Left, Rest
<1>3. job' = NewJob /\ NewJob.i = 1 /\ NewJob.k = 0
  BY DEF Start, Begin, NewJob
<1>4. Running'
  BY <1>1, <1>2, <1>3, NewJobType DEF Start, Begin, Running, Left
<1>5. Locals'
  BY <1>3, FirstUser DEF Locals, InJob, Grants, Current
<1>6. ticks' = Ticks /\ ok' = ok /\ done' \in 0..MaxCommands
  BY TenancyAssumption DEF Start, Begin, Turn
<1> QED BY <1>4, <1>5, <1>6, TenancyAssumption DEF Turn

\* The steps on organizations and projects keep the command's place.
LEMMA NodesTurn ==
    ASSUME Turn,
           \/ CheckOrg \/ AddOrg \/ OrgWatcher \/ OrgIdle \/ PutOrg
           \/ OrgActive \/ FindOrg \/ DelFolder \/ DelOrg \/ OrgGone
           \/ AddFolder \/ AddProject \/ ProjectIdle \/ PutProject
           \/ ProjectActive \/ ProjectWatchers \/ FindProject \/ DelProject
           \/ ProjectGone
    PROVE  Turn'
<1>1. CASE OrgWatcher \/ OrgIdle \/ OrgActive \/ OrgGone
  <2>1. todo # <<>> /\ (Advance(1) \/ Return(FALSE) \/ Ticking)
    BY <1>1 DEF OrgWatcher, OrgIdle, OrgActive, OrgGone, Wait, WaitFor, At,
                Advance, Ticking
  <2> QED BY <2>1, MovesOn
<1>2. CASE ProjectIdle \/ ProjectActive \/ ProjectWatchers \/ ProjectGone
  <2>1. todo # <<>> /\ (Advance(1) \/ Return(FALSE) \/ Ticking)
    BY <1>2 DEF ProjectIdle, ProjectActive, ProjectWatchers, ProjectGone,
                Wait, WaitFor, At, Advance, Ticking
  <2> QED BY <2>1, MovesOn
<1>3. CASE CheckOrg
  <2>1. Running /\ Len(todo) \in Nat /\ Len(todo) >= 4
    BY <1>3, Places DEF CheckOrg, At, Turn, Idle
  <2>2. Len(CreateOrg) = 4
    BY DEF CreateOrg
  <2>3. \E n \in 1..Len(todo) : Advance(n)
    BY <1>3, <2>1, <2>2 DEF CheckOrg
  <2> QED BY <2>1, <2>3, Advances
<1>4. CASE AddOrg \/ PutOrg \/ FindOrg \/ DelFolder \/ DelOrg
  <2>1. todo # <<>> /\ (Advance(1) \/ Return(TRUE) \/ Return(FALSE))
    BY <1>4 DEF AddOrg, PutOrg, FindOrg, DelFolder, DelOrg, At
  <2> QED BY <2>1, MovesOn
<1>5. CASE AddFolder \/ AddProject \/ PutProject \/ FindProject \/ DelProject
  <2>1. todo # <<>> /\ (Advance(1) \/ Return(TRUE) \/ Return(FALSE))
    BY <1>5 DEF AddFolder, AddProject, PutProject, FindProject, DelProject, At
  <2> QED BY <2>1, MovesOn
<1> QED BY <1>1, <1>2, <1>3, <1>4, <1>5

\* Updates of the locals have their types.
LEMMA Updates ==
    ASSUME NEW j \in JobType, NEW n \in Nat, NEW b \in BOOLEAN
    PROVE  /\ [j EXCEPT !.k = n, !.bad = b] \in JobType
           /\ [j EXCEPT !.k = n, !.bad = b].k = n
           /\ [j EXCEPT !.i = n, !.k = 0] \in JobType
           /\ [j EXCEPT !.i = n, !.k = 0].i = n
           /\ [j EXCEPT !.i = n, !.k = 0].k = 0
  BY DEF JobType

\* The end of a pass over the roles (dev_utils.go) keeps the place.
LEMMA NextPass ==
    ASSUME Turn, At("rolesRetried"), NEW bad \in BOOLEAN, EndPass(bad)
    PROVE  Turn'
<1> DEFINE j == [job EXCEPT !.k = 0, !.bad = FALSE, !.tries = @ - 1]
<1>1. Running /\ ~InJob /\ todo # <<>>
  BY DEF At, Turn, Idle, InJob, Jobs
<1>2. CASE job.tries # 1 /\ Within(j)
  <2>1. job \in JobType /\ job.tries - 1 \in 1..Tries
    BY <1>1, <1>2, TenancyAssumption DEF Running, JobType
  <2>2. j \in JobType /\ j.k = 0
    BY <2>1 DEF JobType
  <2> HIDE DEF j
  <2> QED BY <1>1, <1>2, <2>2, Continues
<1> QED BY <1>1, <1>2, MovesOn DEF EndPass

\* ... and so does the next role.
LEMMA NextRole ==
    ASSUME Turn, At("roles") \/ At("rolesRetried"), job.k + 1 < Len(Roles),
           NEW j \in JobType, j.k = job.k + 1, Within(j)
    PROVE  Turn'
<1>1. Running /\ ~InJob /\ todo # <<>>
  BY DEF At, Turn, Idle, InJob, Jobs
<1>2. Len(Roles) = 2 /\ job.k \in Nat
  BY <1>1, ArgLevels, RoleShape DEF Running, Roles, JobType
<1> QED BY <1>1, <1>2, Continues

\* The steps on roles and the ones that only read keep the place.
LEMMA RolesTurn ==
    ASSUME Turn,
           \/ KeycloakLogin \/ ProjectId \/ JoinOrg \/ RemoveUser
           \/ GetUserID \/ ManageRole \/ ManageRoleRetried
    PROVE  Turn'
<1>1. CASE KeycloakLogin \/ ProjectId \/ JoinOrg \/ RemoveUser \/ GetUserID
  <2>1. todo # <<>> /\ (Advance(1) \/ Return(TRUE) \/ Return(FALSE))
    BY <1>1 DEF KeycloakLogin, ProjectId, JoinOrg, RemoveUser, GetUserID, At
  <2> QED BY <2>1, MovesOn
<1>2. CASE ManageRole
  <2>1. Running /\ At("roles") /\ ~InJob
    BY <1>2 DEF ManageRole, At, Turn, Idle, InJob, Jobs
  <2>2. \/ Advance(1) \/ Return(FALSE)
        \/ (Within([job EXCEPT !.k = @ + 1]) /\ job.k + 1 < Len(Roles))
    BY <1>2 DEF ManageRole
  <2>3. /\ [job EXCEPT !.k = @ + 1] \in JobType
        /\ [job EXCEPT !.k = @ + 1].k = job.k + 1
    BY <2>1 DEF Running, JobType
  <2> QED BY <2>1, <2>2, <2>3, NextRole, MovesOn DEF At
<1>3. CASE ManageRoleRetried
  <2> DEFINE bad == job.bad \/ ~Provided(Role[1])
             j == [job EXCEPT !.k = @ + 1, !.bad = bad]
  <2>1. Running /\ At("rolesRetried") /\ ~InJob
    BY <1>3 DEF ManageRoleRetried, At, Turn, Idle, InJob, Jobs
  <2>2. bad \in BOOLEAN
    OBVIOUS
  <2>3. EndPass(bad) \/ (Within(j) /\ job.k + 1 < Len(Roles))
    BY <1>3 DEF ManageRoleRetried
  <2> HIDE DEF bad
  <2>4. job \in JobType /\ job.k + 1 \in Nat
    BY <2>1 DEF Running, JobType
  <2>5. j \in JobType /\ j.k = job.k + 1
    BY <2>2, <2>4, Updates
  <2> HIDE DEF j
  <2> QED BY <2>1, <2>2, <2>3, <2>5, NextRole, NextPass
<1> QED BY <1>1, <1>2, <1>3

\* The next user is one of the list, or the step is done.
LEMMA NextUsers ==
    ASSUME Turn, InJob, NEW j \in JobType, j.i = job.i, NextUser(j)
    PROVE  Turn'
<1> DEFINE n == [j EXCEPT !.i = @ + 1, !.k = 0]
<1>1. Running /\ todo # <<>> /\ Head(todo) \in DOMAIN Jobs
  BY DEF InJob, Turn, Idle
<1>2. JobShaped(Jobs[Head(todo)]) /\ job.i \in DOMAIN Jobs[Head(todo)]
  BY <1>1, JobShape DEF InJob, Turn, Locals, Idle
<1>3. CASE j.i < Len(Jobs[Head(todo)]) /\ Within(n)
  <2> j.i + 1 \in Nat
    BY DEF JobType
  <2>1. n \in JobType /\ n.i = j.i + 1 /\ n.k = 0
    BY Updates
  <2>2. n.i \in DOMAIN Jobs[Head(todo)]
    BY <1>2, <1>3, <2>1 DEF JobShaped
  <2>3. 0 \in 0..Len(Jobs[Head(todo)][n.i].grants)
    BY <2>2, <1>2 DEF JobShaped, Shaped
  <2>4. ~At("roles") /\ ~At("rolesRetried")
    BY <1>1 DEF Jobs, At
  <2> HIDE DEF n
  <2> QED BY <1>1, <1>3, <2>1, <2>2, <2>3, <2>4, Continues
<1> QED BY <1>1, <1>3, MovesOn DEF NextUser

\* The next grant is one of the user's.
LEMMA NextGrant ==
    ASSUME Turn, InJob, NEW j \in JobType, j.i = job.i,
           j.k \in 0..Len(Grants), Within(j)
    PROVE  Turn'
<1>1. Running /\ job.i \in DOMAIN Jobs[Head(todo)]
  BY DEF InJob, Turn, Locals, Idle
<1>2. ~At("roles") /\ ~At("rolesRetried")
  BY DEF InJob, Jobs, At
<1> QED BY <1>1, <1>2, Continues DEF Grants, Current

\* A user that cannot be completed ends the command or is left behind.
LEMMA GiveUpTurn ==
    ASSUME Turn, InJob, GiveUp PROVE Turn'
<1>1. job \in JobType
  BY DEF InJob, Turn, Idle, Running
<1> QED BY <1>1, NextUsers, MovesOn DEF GiveUp, InJob

\* A grant given is followed by the next one or the next user.
LEMMA GiveTurn ==
    ASSUME Turn, InJob, job.k \in 1..Len(Grants), NEW g, Give(g)
    PROVE  Turn'
<1>1. job \in JobType /\ Len(Grants) \in Nat
  BY JobShape DEF InJob, Turn, Idle, Running, Locals, Grants, Current,
                  JobShaped, Shaped
<1>2. CASE job.k < Len(Grants) /\ Within([job EXCEPT !.k = @ + 1])
  <2>1. /\ [job EXCEPT !.k = @ + 1] \in JobType
        /\ [job EXCEPT !.k = @ + 1].i = job.i
        /\ [job EXCEPT !.k = @ + 1].k \in 0..Len(Grants)
    BY <1>1, <1>2 DEF JobType
  <2> QED BY <1>2, <2>1, NextGrant
<1>3. CASE NextUser(job)
  BY <1>1, <1>3, NextUsers
<1> QED BY <1>2, <1>3 DEF Give

\* The steps on users keep the place in the list and among the grants.
LEMMA UsersTurn ==
    ASSUME Turn,
           FindUser \/ CreateUser \/ SetUserPassword \/ GrantNext
    PROVE  Turn'
<1>1. InJob /\ todo # <<>> /\ job \in JobType
  BY DEF FindUser, CreateUser, SetUserPassword, GrantNext, InJob, Turn,
         Idle, Running
<1>2. /\ job.i \in DOMAIN Jobs[Head(todo)] /\ job.k \in 0..Len(Grants)
      /\ Len(Grants) \in Nat \ {0} /\ Current.name \in UserNames
  BY <1>1, JobShape, GrantsAreGrantable
     DEF InJob, Turn, Idle, Locals, Grants, Current, JobShaped, Shaped
<1>3. CASE FindUser
  <2> DEFINE j == [job EXCEPT !.org = Kept(FALSE)]
  <2>1. Kept(FALSE) \in BOOLEAN
    BY <1>1 DEF Kept, JobType
  <2>2. j \in JobType /\ j.i = job.i
    BY <1>1, <2>1 DEF JobType
  <2>3. Return(FALSE) \/ NextUser(j)
    BY <1>3 DEF FindUser
  <2> HIDE DEF j
  <2> QED BY <1>1, <2>2, <2>3, NextUsers, MovesOn
<1>4. CASE CreateUser
  <2> DEFINE j == [job EXCEPT !.k = 1, !.org = Kept(TRUE),
                              !.made = @ \cup {Current.name}]
  <2>1. Kept(TRUE) \in BOOLEAN
    BY <1>1 DEF Kept, JobType
  <2>2. j \in JobType /\ j.i = job.i /\ j.k = 1
    BY <1>1, <1>2, <2>1 DEF JobType
  <2>3. Return(FALSE) \/ Within(j)
    BY <1>4 DEF CreateUser
  <2> HIDE DEF j
  <2>4. j.k \in 0..Len(Grants)
    BY <1>2, <2>2
  <2> QED BY <1>1, <2>2, <2>3, <2>4, NextGrant, MovesOn
<1>5. CASE SetUserPassword
  <2>1. GiveUp \/ (Give(Password) /\ job.k \in 1..Len(Grants))
    BY <1>2, <1>5 DEF SetUserPassword
  <2> QED BY <1>1, <2>1, GiveUpTurn, GiveTurn
<1>6. CASE GrantNext
  <2>1. GiveUp \/ (Give(Grants[job.k]) /\ job.k \in 1..Len(Grants))
    BY <1>2, <1>6 DEF GrantNext
  <2> QED BY <1>1, <2>1, GiveUpTurn, GiveTurn
<1> QED BY <1>3, <1>4, <1>5, <1>6

\* The steps of the password commands keep the command's place.
LEMMA PasswordTurn ==
    ASSUME Turn,
           \/ SetSecret \/ RestartPod \/ PsqlStarted \/ SelectAdmin
           \/ DropCredential \/ DropAdmin \/ Bootstrap
    PROVE  Turn'
<1>1. Running /\ todo # <<>>
  BY DEF SetSecret, RestartPod, PsqlStarted, SelectAdmin, DropCredential,
         DropAdmin, Bootstrap, At, Turn, Idle
<1>2. CASE SetSecret
  <2>1. 1 \in 1..Len(todo) /\ 2 \in 1..Len(todo)
    BY <1>1, <1>2, Places DEF SetSecret
  <2>2. Advance(1) \/ Advance(2) \/ Return(FALSE)
    BY <1>2 DEF SetSecret
  <2> QED BY <1>1, <2>1, <2>2, Advances, Returns
<1>3. CASE RestartPod \/ PsqlStarted \/ DropCredential \/ DropAdmin
           \/ Bootstrap
  <2>1. Advance(1)
    BY <1>3 DEF RestartPod, PsqlStarted, DropCredential, DropAdmin, Bootstrap
  <2> QED BY <1>1, <2>1, MovesOn
<1>4. CASE SelectAdmin
  <2>1. Len(todo) >= 2 /\ todo[2] = "dropCredential"
    BY <1>1, <1>4, Places DEF SelectAdmin
  <2>2. Program[cmd] \in Seq(Steps)
    BY <1>1, Programs DEF Running, Left
  <2>3. /\ todo' \in Seq(Steps) /\ todo' # <<>> /\ Rest(todo', Program[cmd])
        /\ Head(todo') = "dropCredential"
    BY <1>1, <1>4, <2>1, <2>2, TailRest DEF SelectAdmin, Running
  <2>4. job' \in JobType
    BY <1>1, <1>4 DEF SelectAdmin, Running, JobType
  <2>5. UNCHANGED <<cmd, arg, ticks, ok, done>>
    BY <1>4 DEF SelectAdmin
  <2>6. Running'
    BY <1>1, <2>3, <2>4, <2>5 DEF Running
  <2>7. Locals'
    BY <2>3 DEF Locals, InJob, At, Jobs
  <2> QED BY <2>5, <2>6, <2>7 DEF Turn
<1> QED BY <1>2, <1>3, <1>4

\* A call that fails keeps the command's place.
LEMMA CallFailsTurn ==
    ASSUME Turn, CallFails PROVE Turn'
<1>1. Running /\ todo # <<>>
  <2>1. cmd # "none"
    BY DEF CallFails
  <2> QED BY <2>1 DEF Turn, Running, Idle
<1>2. CASE Advance(1) \/ Return(TRUE) \/ Return(FALSE)
  BY <1>1, <1>2, MovesOn
<1>3. CASE InJob /\ GiveUp
  BY <1>3, GiveUpTurn
<1>4. CASE At("rolesRetried") /\ EndPass(TRUE)
  BY <1>4, NextPass
<1>5. CASE /\ At("rolesRetried") /\ job.k + 1 < Len(Roles)
           /\ Within([job EXCEPT !.k = @ + 1, !.bad = TRUE])
  <2> DEFINE j == [job EXCEPT !.k = @ + 1, !.bad = TRUE]
  <2>1. job \in JobType /\ job.k + 1 \in Nat
    BY <1>1 DEF Running, JobType
  <2>2. j \in JobType /\ j.k = job.k + 1
    BY <2>1, Updates
  <2>3. Within(j)
    BY <1>5
  <2> HIDE DEF j
  <2> QED BY <1>5, <2>2, <2>3, NextRole
<1> QED BY <1>2, <1>3, <1>4, <1>5 DEF CallFails

\* Turn is inductive.
LEMMA TurnStep ==
    ASSUME Turn, [Next]_vars PROVE Turn'
<1>1. CASE \E c \in Commands : \E a \in Args(c) : Start(c, a)
  BY <1>1, StartTurn, CommandsAssumption
<1>2. CASE Step
  BY <1>2, NodesTurn, RolesTurn, UsersTurn, PasswordTurn DEF Step
<1>3. CASE PsqlStarted
  BY <1>3, PasswordTurn
<1>4. CASE CallFails
  BY <1>4, CallFailsTurn
<1>5. CASE UNCHANGED command
  BY <1>5, Still DEF command, Turn
<1>6. CASE Services
  BY <1>5, <1>6 DEF Services, ServeOrg, ServeProject, NoticeDeletion,
     RemoveOrg, RemoveProject, PodUp, process
<1>7. CASE UNCHANGED vars
  BY <1>5, <1>7 DEF vars
<1> QED BY <1>1, <1>2, <1>3, <1>4, <1>6, <1>7 DEF Next

-----------------------------------------------------------------------------
(* Types and the copies of the password *)

\* The types of the two services' state.
Types ==
    /\ org \in NodeType /\ project \in NodeType /\ folder \in BOOLEAN
    /\ users \in [UserNames -> SUBSET Grantable]
    /\ kc \in [secret : Passwords, env : Passwords,
               admin : Passwords \cup {"none", "bare"}, up : BOOLEAN]
    /\ missed \in BOOLEAN /\ fails \in 0..MaxFails

\* Where a password change is, the secret, the pod's environment and the
\* database agree as far as its steps have brought them, unless one failed.
Custody ==
    \/ missed
    \/ /\ cmd \notin PasswordCommands \/ At("setSecret") => kc.admin = kc.secret
       /\ kc.up /\ ~At("restartPod") => kc.env = kc.secret
       /\ At("restartPod") \/ At("psql") \/ At("selectAdmin")
            => kc.admin \in Passwords
       /\ At("dropCredential") => job.id /\ kc.admin \in Passwords
       /\ At("dropAdmin") => job.id
       /\ At("bootstrap") => kc.admin = "none"

-----------------------------------------------------------------------------
(* The password commands *)

\* The steps of the password commands.
PasswordNames ==
    {"setSecret", "restartPod", "psql", "selectAdmin", "dropCredential",
     "dropAdmin", "bootstrap"}

OtherSteps == Steps \ PasswordNames

\* The other commands have none of the steps of the password commands.
LEMMA OtherPrograms ==
    \A c \in DOMAIN Program \ PasswordCommands : Program[c] \in Seq(OtherSteps)
<1>0. OtherSteps =
    {"checkOrg", "addOrg", "orgWatcher", "orgIdle", "putOrg", "orgActive",
     "findOrg", "delFolder", "delOrg", "orgGone", "addFolder", "addProject",
     "projectIdle", "putProject", "projectActive", "projectWatchers",
     "findProject", "delProject", "projectGone", "login", "projectId",
     "joinOrg", "remove", "roles", "userId", "rolesRetried",
     "admin", "infra", "cluster", "example", "e2e", "tenancy"}
  BY DEF OtherSteps, PasswordNames, Steps
<1>1. /\ CreateOrg \in Seq(OtherSteps)
      /\ CreateProjectAdminInOrg \in Seq(OtherSteps)
      /\ CreateProjectInOrg \in Seq(OtherSteps)
      /\ CreateEdgeInfraUsers \in Seq(OtherSteps)
      /\ CreateClusterOrchUsers \in Seq(OtherSteps)
  BY <1>0 DEF CreateOrg, CreateProjectAdminInOrg,
         CreateProjectInOrg, CreateEdgeInfraUsers, CreateClusterOrchUsers
<1>3. CreateOrg \o CreateProjectAdminInOrg \o CreateProjectInOrg
        \o CreateEdgeInfraUsers \o CreateClusterOrchUsers \in Seq(OtherSteps)
  BY <1>1, Joining
<1>4. /\ <<"login", "example">> \in Seq(OtherSteps)
      /\ <<"projectWatchers">> \in Seq(OtherSteps)
      /\ <<"findOrg", "delFolder", "delOrg", "orgGone">> \in Seq(OtherSteps)
      /\ <<"findProject", "delProject", "projectGone">> \in Seq(OtherSteps)
  BY <1>0
<1>5. /\ <<"login", "e2e", "putOrg", "orgActive", "login",
           "joinOrg", "putProject", "projectActive">> \in Seq(OtherSteps)
      /\ <<"delProject", "projectGone", "delOrg", "orgGone">>
           \in Seq(OtherSteps)
  BY <1>0
<1>6. /\ <<"login", "tenancy", "roles">> \in Seq(OtherSteps)
      /\ <<"userId", "rolesRetried">> \in Seq(OtherSteps)
      /\ <<"login", "remove">> \in Seq(OtherSteps)
  BY <1>0
<1>9. /\ Program["createOrg"] \in Seq(OtherSteps)
      /\ Program["createAdmin"] \in Seq(OtherSteps)
      /\ Program["createProject"] \in Seq(OtherSteps)
      /\ Program["infraUsers"] \in Seq(OtherSteps)
      /\ Program["clusterUsers"] \in Seq(OtherSteps)
      /\ Program["setup"] \in Seq(OtherSteps)
  BY <1>1, <1>3 DEF Program
<1>10. /\ Program["exampleUsers"] \in Seq(OtherSteps)
       /\ Program["watchers"] \in Seq(OtherSteps)
       /\ Program["deleteOrg"] \in Seq(OtherSteps)
       /\ Program["deleteProject"] \in Seq(OtherSteps)
       /\ Program["prepare"] \in Seq(OtherSteps)
       /\ Program["dismantle"] \in Seq(OtherSteps)
  BY <1>4, <1>5 DEF Program
<1>11. /\ Program["tenancyRoles"] \in Seq(OtherSteps)
       /\ Program["manageRoles"] \in Seq(OtherSteps)
       /\ Program["removeUser"] \in Seq(OtherSteps)
  BY <1>6 DEF Program
<1>12. DOMAIN Program \ PasswordCommands =
         {"createOrg", "createAdmin", "createProject", "infraUsers",
          "clusterUsers", "setup", "exampleUsers", "watchers", "deleteOrg",
          "deleteProject", "prepare", "dismantle", "tenancyRoles",
          "manageRoles", "removeUser"}
  BY DEF Program, PasswordCommands
<1> QED BY <1>9, <1>10, <1>11, <1>12

\* ... at whatever step they are.
LEMMA OtherHead ==
    ASSUME NEW c \in DOMAIN Program \ PasswordCommands,
           NEW t \in Seq(Steps), t # <<>>, Rest(t, Program[c])
    PROVE  Head(t) \notin PasswordNames
<1>1. Program[c] \in Seq(OtherSteps)
  BY OtherPrograms
<1>2. Len(t) \in Nat \ {0} /\ Head(t) = t[1]
  OBVIOUS
<1>3. /\ t[1] = Program[c][Len(Program[c]) - Len(t) + 1]
      /\ Len(Program[c]) - Len(t) + 1 \in 1..Len(Program[c])
  BY <1>1, <1>2 DEF Rest
<1>4. t[1] \in OtherSteps
  BY <1>1, <1>3
<1> QED BY <1>2, <1>4 DEF OtherSteps

\* The n-th step before the end of a password command.
PasswordPlace(n, s) ==
    /\ n = 7 <=> s = "setSecret"
    /\ n = 6 <=> s = "restartPod"
    /\ n = 5 <=> s = "psql"
    /\ n = 4 <=> s = "selectAdmin"
    /\ n = 3 <=> s = "dropCredential"
    /\ n = 2 <=> s = "dropAdmin"
    /\ n = 1 <=> s = "bootstrap"

\* Both password commands have the same last five steps.
LEMMA PasswordPlaces ==
    /\ \A n \in 1..7 :
           PasswordPlace(n, Program["setPassword"][7 - n + 1])
    /\ \A n \in 1..5 : PasswordPlace(n, ResetPassword[5 - n + 1])
<1>1. ASSUME NEW p \in Seq(Steps), NEW n \in 1..7,
             p[1] = "setSecret", p[2] = "restartPod", p[3] = "psql",
             p[4] = "selectAdmin", p[5] = "dropCredential",
             p[6] = "dropAdmin", p[7] = "bootstrap"
      PROVE  PasswordPlace(n, p[7 - n + 1])
  BY <1>1 DEF PasswordPlace
<1>2. ASSUME NEW p \in Seq(Steps), NEW n \in 1..5,
             p[1] = "psql", p[2] = "selectAdmin", p[3] = "dropCredential",
             p[4] = "dropAdmin", p[5] = "bootstrap"
      PROVE  PasswordPlace(n, p[5 - n + 1])
  BY <1>2 DEF PasswordPlace
<1> QED BY <1>1, <1>2, PasswordSteps, ResetSteps

\* ... and so the steps left tell the current one.
LEMMA PasswordHead ==
    ASSUME NEW c \in PasswordCommands, NEW t \in Seq(Steps), t # <<>>,
           Rest(t, Program[c])
    PROVE  Len(t) \in 1..7 /\ PasswordPlace(Len(t), Head(t))
<1>1. ASSUME NEW p \in Seq(Steps), Rest(t, p), NEW n, n = Len(p)
      PROVE  Len(t) \in 1..n /\ Head(t) = p[n - Len(t) + 1]
  BY <1>1, HeadOfRest
<1>2. CASE c = "setPassword"
  <2>1. Len(t) \in 1..7 /\ Head(t) = Program["setPassword"][7 - Len(t) + 1]
    BY <1>1, <1>2, PasswordSteps
  <2> QED BY <2>1, PasswordPlaces
<1>3. CASE c = "resetPassword"
  <2>1. Program[c] = ResetPassword
    BY <1>3 DEF Program
  <2>2. Len(t) \in 1..5 /\ Head(t) = ResetPassword[5 - Len(t) + 1]
    BY <1>1, <2>1, ResetSteps
  <2>3. PasswordPlace(Len(t), ResetPassword[5 - Len(t) + 1])
    BY <2>2, PasswordPlaces
  <2>4. Len(t) \in 1..7
    BY <2>2
  <2> QED BY <2>2, <2>3, <2>4
<1> QED BY <1>2, <1>3 DEF PasswordCommands

\* Only the steps of the password commands and the pod touch the admin.
LEMMA OthersKeepAdmin ==
    ASSUME Turn, [Next]_vars, cmd \notin PasswordCommands, ~PodUp,
           ~\E c \in Commands : \E a \in Args(c) : Start(c, a)
    PROVE  UNCHANGED <<kc, missed>> /\ cmd' \notin PasswordCommands
<1>1. todo # <<>> => Head(todo) \notin PasswordNames
  BY OtherHead DEF Turn, Running, Idle
<1>2. /\ ~SetSecret /\ ~RestartPod /\ ~PsqlStarted /\ ~SelectAdmin
      /\ ~DropCredential /\ ~DropAdmin /\ ~Bootstrap
  BY <1>1 DEF SetSecret, RestartPod, PsqlStarted, SelectAdmin,
     DropCredential, DropAdmin, Bootstrap, At, PasswordNames
<1>3. UNCHANGED <<kc, missed>> /\ cmd' \in {cmd, "none"}
  <2>1. CASE \/ CheckOrg \/ AddOrg \/ OrgWatcher \/ OrgIdle \/ PutOrg
             \/ OrgActive \/ FindOrg \/ DelFolder \/ DelOrg \/ OrgGone
    BY <2>1 DEF CheckOrg, AddOrg, OrgWatcher, OrgIdle, PutOrg,
       OrgActive, FindOrg, DelFolder, DelOrg, OrgGone, Wait, WaitFor,
       Advance, AdvanceWith, Return, world, admin
  <2>2. CASE \/ AddFolder \/ AddProject \/ ProjectIdle \/ PutProject
             \/ ProjectActive \/ ProjectWatchers \/ FindProject
             \/ DelProject \/ ProjectGone
    BY <2>2 DEF AddFolder, AddProject, ProjectIdle, PutProject,
       ProjectActive, ProjectWatchers, FindProject, DelProject, ProjectGone,
       Wait, WaitFor, Advance, AdvanceWith, Return, world, admin
  <2>3. CASE \/ KeycloakLogin \/ ProjectId \/ JoinOrg \/ RemoveUser
             \/ GetUserID \/ ManageRole \/ ManageRoleRetried
    BY <2>3 DEF KeycloakLogin, ProjectId, JoinOrg, RemoveUser, GetUserID,
       ManageRole, ManageRoleRetried, EndPass, Within,
       Advance, AdvanceWith, Return, world, admin
  <2>4. CASE FindUser \/ CreateUser \/ SetUserPassword \/ GrantNext
    BY <2>4 DEF FindUser, CreateUser, SetUserPassword, GrantNext, Give,
       GiveUp, NextUser, Within, Advance, AdvanceWith, Return, world, admin
  <2>5. CASE CallFails
    BY <2>5 DEF CallFails, GiveUp, NextUser, EndPass, Within, Advance,
       AdvanceWith, Return, admin
  <2>6. CASE Services
    BY <2>6 DEF Services, ServeOrg, ServeProject, NoticeDeletion, RemoveOrg,
       RemoveProject, process, command
  <2>7. CASE UNCHANGED vars
    BY <2>7 DEF vars, world, admin, command
  <2> QED BY <1>2, <2>1, <2>2, <2>3, <2>4, <2>5, <2>6, <2>7 DEF Next, Step
<1> QED BY <1>3 DEF PasswordCommands

\* The steps of the password commands, as actions.
PasswordStep ==
    \/ SetSecret \/ RestartPod \/ PsqlStarted \/ SelectAdmin
    \/ DropCredential \/ DropAdmin \/ Bootstrap

\* A password command takes only these steps, and only the pod starts
\* meanwhile.
LEMMA PasswordOnly ==
    ASSUME Turn, [Next]_vars, cmd \in PasswordCommands
    PROVE  \/ PasswordStep \/ PodUp
           \/ UNCHANGED <<command, kc, missed>>
<1>1. /\ Running /\ todo # <<>> /\ Len(todo) \in 1..7
      /\ PasswordPlace(Len(todo), Head(todo))
  BY PasswordHead DEF Turn, Running, Idle, PasswordCommands
<1>2. Head(todo) \in PasswordNames
  BY <1>1 DEF PasswordPlace, PasswordNames
<1>3. ~InJob
  BY <1>2 DEF InJob, Jobs, PasswordNames
<1>4. /\ ~CheckOrg /\ ~AddOrg /\ ~OrgWatcher /\ ~OrgIdle /\ ~PutOrg
      /\ ~OrgActive /\ ~FindOrg /\ ~DelFolder /\ ~DelOrg /\ ~OrgGone
      /\ ~AddFolder /\ ~AddProject /\ ~ProjectIdle /\ ~PutProject
      /\ ~ProjectActive /\ ~ProjectWatchers /\ ~FindProject
      /\ ~DelProject /\ ~ProjectGone
  BY <1>2 DEF PasswordNames, CheckOrg, AddOrg, OrgWatcher, OrgIdle, PutOrg,
       OrgActive, FindOrg, DelFolder, DelOrg, OrgGone,
       AddFolder, AddProject, ProjectIdle, PutProject,
       ProjectActive, ProjectWatchers, FindProject, DelProject, ProjectGone,
       Wait, WaitFor, At
<1>5. /\ ~KeycloakLogin /\ ~ProjectId /\ ~JoinOrg /\ ~RemoveUser
      /\ ~GetUserID /\ ~ManageRole /\ ~ManageRoleRetried
      /\ ~FindUser /\ ~CreateUser /\ ~SetUserPassword /\ ~GrantNext
  BY <1>2, <1>3 DEF KeycloakLogin, ProjectId, JoinOrg, RemoveUser, GetUserID,
       ManageRole, ManageRoleRetried, FindUser, CreateUser, SetUserPassword,
       GrantNext, At, PasswordNames
<1>6. ~CallFails
  BY DEF CallFails
<1>7. ~\E c \in Commands : \E a \in Args(c) : Start(c, a)
  <2>1. cmd # "none"
    BY DEF PasswordCommands
  <2> QED BY <2>1 DEF Start, Begin
<1>8. CASE Services /\ ~PodUp
  BY <1>8 DEF Services, ServeOrg, ServeProject, NoticeDeletion, RemoveOrg,
       RemoveProject, process
<1>9. CASE UNCHANGED vars
  BY <1>9 DEF vars, world, admin
<1> QED BY <1>4, <1>5, <1>6, <1>7, <1>8, <1>9 DEF Next, Step, PasswordStep

\* Outside a password command custody is that the copies agree.
LEMMA OutsideCustody ==
    /\ Turn /\ cmd \notin PasswordCommands =>
         (Custody <=> missed \/ (kc.admin = kc.secret
                                 /\ (kc.up => kc.env = kc.secret)))
    /\ Turn' /\ cmd' \notin PasswordCommands =>
         (Custody' <=> missed' \/ (kc'.admin = kc'.secret
                                 /\ (kc'.up => kc'.env = kc'.secret)))
<1>1. Turn /\ cmd \notin PasswordCommands /\ todo # <<>>
        => Head(todo) \notin PasswordNames
  BY OtherHead DEF Turn, Running, Idle
<1>2. Turn' /\ cmd' \notin PasswordCommands /\ todo' # <<>>
        => Head(todo') \notin PasswordNames
  BY OtherHead DEF Turn, Running, Idle
<1> QED BY <1>1, <1>2 DEF Custody, At, PasswordNames

\* A password command advances to the step that its place tells.
LEMMA PasswordMove ==
    ASSUME Turn, cmd \in PasswordCommands, todo # <<>>,
           NEW n \in 1..Len(todo), Advance(n)
    PROVE  \/ Len(todo) = n /\ cmd' = "none" /\ todo' = <<>>
           \/ /\ todo' # <<>> /\ PasswordPlace(Len(todo) - n, Head(todo'))
              /\ cmd' = cmd /\ job'.id = job.id /\ Len(todo) # n
<1>1. Running
  BY DEF Turn, Idle
<1>2. CASE Len(todo) = n /\ Return(TRUE)
  BY <1>2 DEF Return
<1>3. CASE /\ Running' /\ Len(todo') = Len(todo) - n /\ cmd' = cmd
           /\ job' = [NewJob EXCEPT !.made = job.made, !.id = job.id]
  <2>1. PasswordPlace(Len(todo'), Head(todo')) /\ Len(todo') # 0
    BY <1>3, PasswordHead DEF Running
  <2>2. job'.id = job.id /\ todo' # <<>>
    BY <1>3 DEF Running, NewJob
  <2> QED BY <1>3, <2>1, <2>2
<1> QED BY <1>1, <1>2, <1>3, Advances

\* Each step of a password change keeps the copies of the password together,
\* or the command fails (keycloak_utils.go:37).
LEMMA PasswordCustody ==
    ASSUME Turn, Types, Types', Custody, cmd \in PasswordCommands,
           PasswordStep
    PROVE  Custody'
<1>1. /\ Running /\ todo # <<>> /\ Len(todo) \in 1..7
      /\ PasswordPlace(Len(todo), Head(todo))
  BY PasswordHead DEF Turn, Running, Idle, PasswordCommands
<1>2. CASE missed'
  BY <1>2 DEF Custody
<1>3. CASE ~missed'
  <2>1. CASE SetSecret
    <3>1. At("setSecret") /\ Len(todo) = 7
      BY <1>1, <2>1 DEF SetSecret, At, PasswordPlace
    <3>2. CASE Return(FALSE) /\ UNCHANGED admin
      BY <3>1, <3>2 DEF Return, admin, Custody, At
    <3>3. CASE Works([kc EXCEPT !.secret = arg.pw]) /\ Advance(1)
      <4>1. todo' # <<>> /\ PasswordPlace(6, Head(todo')) /\ cmd' = cmd
        BY <1>1, <3>1, <3>3, PasswordMove
      <4>2. Head(todo') = "restartPod"
        BY <4>1 DEF PasswordPlace
      <4>3. kc'.admin = kc.admin /\ missed' = missed
        BY <3>3 DEF Works, Types
      <4>4. kc.admin \in Passwords
        BY <3>1, <4>3, <1>3 DEF Custody, Types
      <4> QED BY <4>1, <4>2, <4>3, <4>4 DEF Custody, At
    <3> QED BY <1>3, <2>1, <3>2, <3>3 DEF SetSecret, Misses
  <2>2. CASE RestartPod
    <3>1. At("restartPod") /\ Len(todo) = 6
      BY <1>1, <2>2 DEF RestartPod, At, PasswordPlace
    <3>2. Works([kc EXCEPT !.up = FALSE]) /\ Advance(1)
      BY <1>3, <2>2 DEF RestartPod, Misses
    <3>3. todo' # <<>> /\ PasswordPlace(5, Head(todo')) /\ cmd' = cmd
      BY <1>1, <3>1, <3>2, PasswordMove
    <3>4. Head(todo') = "psql"
      BY <3>3 DEF PasswordPlace
    <3>5. ~kc'.up /\ kc'.admin = kc.admin /\ missed' = missed
      BY <3>2 DEF Works, Types
    <3>6. kc.admin \in Passwords
      BY <1>3, <3>1, <3>5 DEF Custody
    <3> QED BY <3>3, <3>4, <3>5, <3>6 DEF Custody, At
  <2>3. CASE PsqlStarted
    <3>1. At("psql") /\ Len(todo) = 5 /\ ~At("restartPod")
      BY <1>1, <2>3 DEF PsqlStarted, At, PasswordPlace
    <3>2. UNCHANGED <<kc, missed>> /\ Advance(1)
      BY <2>3 DEF PsqlStarted, world, admin
    <3>3. todo' # <<>> /\ PasswordPlace(4, Head(todo')) /\ cmd' = cmd
      BY <1>1, <3>1, <3>2, PasswordMove
    <3>4. Head(todo') = "selectAdmin"
      BY <3>3 DEF PasswordPlace
    <3>5. kc.admin \in Passwords /\ (kc.up => kc.env = kc.secret)
      BY <1>3, <3>1, <3>2 DEF Custody
    <3> QED BY <3>2, <3>3, <3>4, <3>5 DEF Custody, At
  <2>4. CASE SelectAdmin
    <3>1. At("selectAdmin") /\ Len(todo) = 4 /\ ~At("restartPod")
      BY <1>1, <2>4 DEF SelectAdmin, At, PasswordPlace
    <3>2. /\ UNCHANGED <<kc, missed, cmd>> /\ todo' = Tail(todo)
          /\ job' = [job EXCEPT !.id = kc.admin # "none"]
      BY <1>3, <2>4 DEF SelectAdmin, Misses, Works
    <3>3. todo[2] = "dropCredential" /\ Program[cmd] \in Seq(Steps)
      BY <1>1, <3>1, Places, Programs DEF Running, Left
    <3>4. todo' # <<>> /\ Head(todo') = "dropCredential"
      BY <1>1, <3>1, <3>2, <3>3, TailRest DEF Running
    <3>5. kc.admin \in Passwords /\ (kc.up => kc.env = kc.secret)
      BY <1>3, <3>1, <3>2 DEF Custody
    <3>6. job'.id
      BY <1>1, <3>2, <3>5, TenancyAssumption DEF Running, JobType
    <3> QED BY <3>2, <3>4, <3>5, <3>6 DEF Custody, At
  <2>5. CASE DropCredential
    <3>1. At("dropCredential") /\ Len(todo) = 3 /\ ~At("restartPod")
      BY <1>1, <2>5 DEF DropCredential, At, PasswordPlace
    <3>2. Works([kc EXCEPT !.admin = IF job.id THEN "bare" ELSE @])
          /\ Advance(1)
      BY <1>3, <2>5 DEF DropCredential, Misses
    <3>3. /\ todo' # <<>> /\ PasswordPlace(2, Head(todo')) /\ cmd' = cmd
          /\ job'.id = job.id
      BY <1>1, <3>1, <3>2, PasswordMove
    <3>4. Head(todo') = "dropAdmin"
      BY <3>3 DEF PasswordPlace
    <3>5. /\ kc'.up = kc.up /\ kc'.env = kc.env /\ kc'.secret = kc.secret
          /\ missed' = missed
      BY <3>2 DEF Works, Types
    <3>6. job.id /\ (kc.up => kc.env = kc.secret)
      BY <1>3, <3>1, <3>5 DEF Custody
    <3> QED BY <3>3, <3>4, <3>5, <3>6 DEF Custody, At
  <2>6. CASE DropAdmin
    <3>1. At("dropAdmin") /\ Len(todo) = 2 /\ ~At("restartPod")
      BY <1>1, <2>6 DEF DropAdmin, At, PasswordPlace
    <3>2. Works([kc EXCEPT !.admin = IF job.id THEN "none" ELSE @])
          /\ Advance(1)
      BY <1>3, <2>6 DEF DropAdmin, Misses
    <3>3. todo' # <<>> /\ PasswordPlace(1, Head(todo')) /\ cmd' = cmd
      BY <1>1, <3>1, <3>2, PasswordMove
    <3>4. Head(todo') = "bootstrap"
      BY <3>3 DEF PasswordPlace
    <3>5. missed' = missed
      BY <3>2 DEF Works
    <3>6. job.id /\ (kc.up => kc.env = kc.secret)
      BY <1>3, <3>1, <3>5 DEF Custody
    <3>7. /\ kc'.up = kc.up /\ kc'.env = kc.env /\ kc'.secret = kc.secret
          /\ kc'.admin = "none"
      BY <3>2, <3>6 DEF Works, Types
    <3> QED BY <3>3, <3>4, <3>5, <3>6, <3>7 DEF Custody, At
  <2>7. CASE Bootstrap
    <3>1. At("bootstrap") /\ Len(todo) = 1 /\ ~At("restartPod")
      BY <1>1, <2>7 DEF Bootstrap, At, PasswordPlace
    <3>2. kc.up /\ Works([kc EXCEPT !.admin = kc.env]) /\ Advance(1)
      BY <1>3, <2>7 DEF Bootstrap, Misses
    <3>3. cmd' = "none" /\ todo' = <<>>
      BY <1>1, <3>1, <3>2, PasswordMove
    <3>4. missed' = missed
      BY <3>2 DEF Works
    <3>5. kc.env = kc.secret
      BY <1>3, <3>1, <3>2, <3>4 DEF Custody
    <3>6. /\ kc'.env = kc.env /\ kc'.secret = kc.secret
          /\ kc'.admin = kc.env
      BY <3>2 DEF Works, Types
    <3> QED BY <3>3, <3>5, <3>6 DEF Custody, At
  <2> QED BY <1>3, <2>1, <2>2, <2>3, <2>4, <2>5, <2>6, <2>7 DEF PasswordStep
<1> QED BY <1>2, <1>3

\* Custody is inductive, with the types.
LEMMA CustodyStep ==
    ASSUME Turn, Turn', Types, Types', Custody, [Next]_vars
    PROVE  Custody'
<1>1. CASE cmd \notin PasswordCommands /\ cmd' \notin PasswordCommands
           /\ UNCHANGED <<kc, missed>>
  BY <1>1, OutsideCustody
<1>2. CASE PodUp
  BY <1>2, OutsideCustody DEF PodUp, process, command, Types, Custody, At
<1>3. CASE cmd \notin PasswordCommands
           /\ \E c \in Commands : \E a \in Args(c) : Start(c, a)
  <2>0. CASE missed
    BY <1>3, <2>0 DEF Start, world, admin, Custody
  <2>1. CASE kc.admin = kc.secret /\ (kc.up => kc.env = kc.secret)
    <3>1. UNCHANGED <<kc, missed>>
      BY <1>3 DEF Start, world, admin
    <3>2. CASE cmd' \notin PasswordCommands
      BY <2>1, <3>1, <3>2, OutsideCustody
    <3>3. CASE cmd' \in PasswordCommands
      <4>1. Head(todo') = "setSecret" \/ Head(todo') = "psql"
        BY <1>3, <3>3, PasswordSteps, ResetSteps
           DEF Start, Begin, Program, PasswordCommands
      <4> QED BY <2>1, <3>1, <3>3, <4>1 DEF Custody, At, Types
    <3> QED BY <3>2, <3>3
  <2> QED BY <1>3, <2>0, <2>1, OutsideCustody
<1>4. CASE cmd \in PasswordCommands /\ UNCHANGED <<command, kc, missed>>
  BY <1>4 DEF command, Custody, At
<1>5. CASE cmd \in PasswordCommands /\ PasswordStep
  BY <1>5, PasswordCustody
<1> QED BY <1>1, <1>2, <1>3, <1>4, <1>5, PasswordOnly, OthersKeepAdmin

-----------------------------------------------------------------------------
(* Types *)

\* What leaves the services alone keeps their types.
LEMMA KeptTypes ==
    ASSUME Types, UNCHANGED <<nodes, users, admin>>, fails' \in 0..MaxFails
    PROVE  Types'
  BY DEF Types, nodes, admin

\* The steps on organizations and projects keep the types.
LEMMA NodesTypes ==
    ASSUME Types,
           \/ CheckOrg \/ AddOrg \/ OrgWatcher \/ OrgIdle \/ PutOrg
           \/ OrgActive \/ FindOrg \/ DelFolder \/ DelOrg \/ OrgGone
           \/ AddFolder \/ AddProject \/ ProjectIdle \/ PutProject
           \/ ProjectActive \/ ProjectWatchers \/ FindProject \/ DelProject
           \/ ProjectGone
    PROVE  Types'
<1>1. CASE UNCHANGED world
  BY <1>1, KeptTypes DEF world, Types
<1>2. Added \in NodeType /\ Absent \in NodeType
  BY DEF Added, Absent, NodeType
<1>3. \A n \in NodeType : [n EXCEPT !.del = TRUE] \in NodeType
  BY DEF NodeType
<1>4. CASE \/ CheckOrg \/ OrgWatcher \/ OrgIdle \/ OrgActive \/ FindOrg
           \/ OrgGone \/ ProjectIdle \/ ProjectActive \/ ProjectWatchers
           \/ FindProject \/ ProjectGone
  BY <1>1, <1>4 DEF CheckOrg, OrgWatcher, OrgIdle, OrgActive, FindOrg,
     OrgGone, ProjectIdle, ProjectActive, ProjectWatchers, FindProject,
     ProjectGone, Wait
<1>5. CASE AddOrg \/ PutOrg \/ DelFolder \/ DelOrg
  BY <1>2, <1>3, <1>5 DEF AddOrg, PutOrg, DelFolder, DelOrg, Types, admin
<1>6. CASE AddFolder \/ AddProject \/ PutProject \/ DelProject
  BY <1>2, <1>3, <1>6 DEF AddFolder, AddProject, PutProject, DelProject,
     Types, admin
<1> QED BY <1>4, <1>5, <1>6

\* The users and grants that the steps name have their types.
LEMMA SingleUsers ==
    /\ "e2e-user" \in UserNames /\ "tenancy-user" \in UserNames
    /\ Password \in Grantable
    /\ <<"org", "Project-Manager-Group">> \in Grantable
<1> DEFINE t == User("tenancy-user", FALSE, <<>>)
           e == User("e2e-user", FALSE, <<>>)
<1>1. "tenancy" \in DOMAIN Jobs /\ Jobs["tenancy"] = <<t>>
  BY DEF Jobs
<1>2. "e2e" \in DOMAIN Jobs /\ Jobs["e2e"] = <<e>>
  BY DEF Jobs
<1>3. "admin" \in DOMAIN Jobs /\ Jobs["admin"] = <<AdminUser>>
  BY DEF Jobs
<1>4. t.name = "tenancy-user" /\ e.name = "e2e-user"
  BY DEF User
<1>5. t.grants[1] = Password /\ 1 \in DOMAIN t.grants
  <2>1. Joins(t.grants, <<Password>>, <<>>)
    BY Joining, <<Password>> \in Seq({Password}), <<>> \in Seq({Password})
       DEF User
  <2>2. Len(<<Password>>) = 1 /\ <<Password>>[1] = Password
    OBVIOUS
  <2>3. Shaped(t)
    BY UserShapes
  <2> HIDE DEF t
  <2>4. t.grants[1] = Password
    BY <2>1, <2>2 DEF Joins
  <2> QED BY <2>3, <2>4 DEF Shaped
<1>6. /\ AdminUser.grants[2] = <<"org", "Project-Manager-Group">>
      /\ 2 \in DOMAIN AdminUser.grants
  <2> DEFINE g == <<"org", "Project-Manager-Group">>
  <2> HIDE DEF g
  <2>0. AdminUser = User("admin", TRUE, <<g>>)
    BY DEF AdminUser, g
  <2>1. Joins(AdminUser.grants, <<Password>>, <<g>>)
    BY <2>0, Joining, <<Password>> \in Seq({Password, g}),
       <<g>> \in Seq({Password, g}) DEF User
  <2>2. Len(<<Password>>) = 1 /\ Len(<<g>>) = 1 /\ <<g>>[1] = g
    OBVIOUS
  <2>3. Shaped(AdminUser)
    BY <2>0, UserShapes
  <2> QED BY <2>1, <2>2, <2>3 DEF Joins, Shaped, g
<1> HIDE DEF t, e
<1>7. /\ 1 \in DOMAIN Jobs["tenancy"] /\ Jobs["tenancy"][1] = t
      /\ 1 \in DOMAIN Jobs["e2e"] /\ Jobs["e2e"][1] = e
      /\ 1 \in DOMAIN Jobs["admin"] /\ Jobs["admin"][1] = AdminUser
  BY <1>1, <1>2, <1>3
<1>8. /\ t.name \in UserNames /\ e.name \in UserNames
      /\ t.grants[1] \in Grantable /\ AdminUser.grants[2] \in Grantable
  BY <1>1, <1>2, <1>3, <1>5, <1>6, <1>7, GrantsAreGrantable
<1> QED BY <1>4, <1>5, <1>6, <1>8

\* One user's grants change within the type.
LEMMA GivenTypes ==
    ASSUME Types, NEW u \in UserNames, NEW S \in SUBSET Grantable,
           users' = [users EXCEPT ![u] = S], UNCHANGED <<nodes, admin, fails>>
    PROVE  Types'
  BY DEF Types, nodes, admin

\* The steps on users keep the types.
LEMMA UsersTypes ==
    ASSUME Types, Turn,
           \/ FindUser \/ CreateUser \/ SetUserPassword \/ GrantNext
           \/ JoinOrg \/ RemoveUser \/ ManageRole \/ ManageRoleRetried
           \/ GetUserID \/ KeycloakLogin \/ ProjectId
    PROVE  Types'
<1>1. CASE UNCHANGED <<nodes, users, admin, fails>>
  BY <1>1, KeptTypes DEF Types
<1>2. \A u \in UserNames : users[u] \in SUBSET Grantable
  BY DEF Types
<1>3. CASE FindUser \/ GetUserID \/ KeycloakLogin \/ ProjectId
  BY <1>1, <1>3 DEF FindUser, GetUserID, KeycloakLogin, ProjectId, world
<1>4. CASE CreateUser \/ SetUserPassword \/ GrantNext
  <2>1. InJob /\ Running
    BY <1>4 DEF CreateUser, SetUserPassword, GrantNext, InJob, Turn, Idle
  <2>2. job.i \in DOMAIN Jobs[Head(todo)] /\ job.k \in 0..Len(Grants)
    BY <2>1 DEF Turn, Idle, Running, Locals
  <2>3. /\ Current.name \in UserNames /\ DOMAIN Grants = 1..Len(Grants)
        /\ \A k \in DOMAIN Grants : Grants[k] \in Grantable
    BY <2>1, <2>2, GrantsAreGrantable, JobShape
       DEF InJob, Current, Grants, JobShaped, Shaped
  <2>4. Account \in Grantable
    BY DEF Grantable
  <2>5. \A g \in Grantable :
           users[Current.name] \cup {g} \in SUBSET Grantable
    BY <1>2, <2>3
  <2>6. CASE CreateUser
    <3>1. \/ UNCHANGED <<nodes, users, admin, fails>>
          \/ /\ users' = [users EXCEPT ![Current.name] = {Account}]
             /\ UNCHANGED <<nodes, admin, fails>>
      BY <2>6 DEF CreateUser
    <3>2. {Account} \in SUBSET Grantable
      BY <2>4
    <3> QED BY <1>1, <2>3, <3>1, <3>2, GivenTypes
  <2>7. CASE SetUserPassword
    <3>1. \/ UNCHANGED <<nodes, users, admin, fails>>
          \/ Give(Password) /\ UNCHANGED <<nodes, admin, fails>>
      BY <2>7 DEF SetUserPassword
    <3> QED BY <1>1, <2>3, <2>5, <3>1, SingleUsers, GivenTypes DEF Give
  <2>8. CASE GrantNext
    <3>1. \/ UNCHANGED <<nodes, users, admin, fails>>
          \/ Give(Grants[job.k]) /\ UNCHANGED <<nodes, admin, fails>>
      BY <2>8 DEF GrantNext
    <3>2. Grants[job.k] \in Grantable
      BY <2>2, <2>3, <2>8 DEF GrantNext
    <3> QED BY <1>1, <2>3, <2>5, <3>1, <3>2, GivenTypes DEF Give
  <2> QED BY <1>4, <2>6, <2>7, <2>8
<1>5. CASE JoinOrg \/ RemoveUser
  <2>1. /\ {} \in SUBSET Grantable
        /\ users["e2e-user"] \cup {<<"org", "Project-Manager-Group">>}
             \in SUBSET Grantable
    BY <1>2, SingleUsers
  <2> QED BY <1>1, <1>5, <2>1, SingleUsers, GivenTypes DEF JoinOrg, RemoveUser
<1>6. CASE ManageRole \/ ManageRoleRetried
  <2>1. Running /\ (At("roles") \/ At("rolesRetried"))
    BY <1>6 DEF ManageRole, ManageRoleRetried, At, Turn, Idle
  <2>2. Role \in Grantable
    BY <2>1, ArgLevels, RoleShape
       DEF Turn, Idle, Running, JobType, Locals, Role, Roles
  <2>3. /\ users["tenancy-user"] \cup {Role} \in SUBSET Grantable
        /\ users["tenancy-user"] \ {Role} \in SUBSET Grantable
    BY <1>2, <2>2, SingleUsers
  <2>4. \/ UNCHANGED <<nodes, users, admin, fails>>
        \/ Mapped /\ UNCHANGED <<nodes, admin, fails>>
    BY <1>6 DEF ManageRole, ManageRoleRetried
  <2>5. CASE Mapped /\ UNCHANGED <<nodes, admin, fails>>
    <3>1. \E S \in SUBSET Grantable :
            users' = [users EXCEPT !["tenancy-user"] = S]
      BY <2>3, <2>5 DEF Mapped
    <3> QED BY <2>5, <3>1, SingleUsers, GivenTypes
  <2> QED BY <1>1, <2>4, <2>5
<1> QED BY <1>3, <1>4, <1>5, <1>6

\* The steps on the admin, and calls that fail, keep the types.
LEMMA AdminTypes ==
    ASSUME Types, Turn,
           \/ SetSecret \/ RestartPod \/ PsqlStarted \/ SelectAdmin
           \/ DropCredential \/ DropAdmin \/ Bootstrap \/ PodUp \/ CallFails
    PROVE  Types'
<1> DEFINE KcType == [secret : Passwords, env : Passwords,
                      admin : Passwords \cup {"none", "bare"}, up : BOOLEAN]
<1>1. ASSUME fails' \in 0..MaxFails, kc' \in KcType, missed' \in BOOLEAN,
             UNCHANGED <<nodes, users>>
      PROVE  Types'
  BY <1>1 DEF Types, nodes
<1>2. CASE Misses /\ UNCHANGED <<nodes, users>>
  <2>1. fails' \in 0..MaxFails
    BY <1>2, TenancyAssumption DEF Misses, Fault, Types
  <2> QED BY <1>1, <1>2, <2>1 DEF Misses, Types
<1>3. ASSUME NEW k \in KcType, Works(k), UNCHANGED <<nodes, users>>
      PROVE  Types'
  BY <1>1, <1>3 DEF Works, Types
<1>4. kc \in KcType
  BY DEF Types
<1>5. CASE SetSecret
  <2>1. \/ UNCHANGED <<nodes, users, admin, fails>>
        \/ Misses /\ UNCHANGED <<nodes, users>>
        \/ /\ Encodable(arg.pw) /\ Works([kc EXCEPT !.secret = arg.pw])
           /\ UNCHANGED <<nodes, users>>
    BY <1>5 DEF SetSecret
  <2>2. Encodable(arg.pw) => [kc EXCEPT !.secret = arg.pw] \in KcType
    BY <1>4 DEF Encodable, Passwords
  <2> QED BY <1>2, <1>3, <2>1, <2>2, KeptTypes DEF Types
<1>6. CASE RestartPod \/ PsqlStarted \/ SelectAdmin
  <2>1. [kc EXCEPT !.up = FALSE] \in KcType
    BY <1>4
  <2> QED BY <1>2, <1>3, <1>4, <1>6, <2>1, KeptTypes
          DEF RestartPod, PsqlStarted, SelectAdmin, world, Types
<1>7. CASE DropCredential \/ DropAdmin
  <2>1. /\ [kc EXCEPT !.admin = IF job.id THEN "bare" ELSE @] \in KcType
        /\ [kc EXCEPT !.admin = IF job.id THEN "none" ELSE @] \in KcType
    BY <1>4
  <2> HIDE DEF KcType
  <2> QED BY <1>2, <1>3, <1>7, <2>1 DEF DropCredential, DropAdmin
<1>8. CASE Bootstrap
  <2>1. [kc EXCEPT !.admin = kc.env] \in KcType
    BY <1>4
  <2>2. \/ Misses \/ Works([kc EXCEPT !.admin = kc.env])
        \/ missed' = TRUE /\ UNCHANGED <<kc, fails>>
    BY <1>8 DEF Bootstrap
  <2>3. UNCHANGED <<nodes, users>>
    BY <1>8 DEF Bootstrap
  <2>4. CASE missed' = TRUE /\ UNCHANGED <<kc, fails>>
    BY <1>1, <1>4, <2>3, <2>4 DEF Types
  <2> HIDE DEF KcType
  <2> QED BY <1>2, <1>3, <2>1, <2>2, <2>3, <2>4
<1>9. CASE PodUp
  <2>1. [kc EXCEPT !.up = TRUE, !.env = kc.secret] \in KcType
    BY <1>4
  <2> QED BY <1>1, <1>9, <2>1 DEF PodUp, process, Types
<1>10. CASE CallFails
  <2>1. fails' \in 0..MaxFails
    BY <1>10, TenancyAssumption DEF CallFails, Fault, Types
  <2>2. UNCHANGED <<nodes, users, admin>>
    BY <1>10 DEF CallFails
  <2> QED BY <2>1, <2>2, KeptTypes
<1> QED BY <1>5, <1>6, <1>7, <1>8, <1>9, <1>10

\* The types are inductive, with the command's place.
LEMMA TypesStep ==
    ASSUME Turn, Types, [Next]_vars PROVE Types'
<1>1. CASE UNCHANGED world
  BY <1>1, KeptTypes DEF world, Types
<1>2. CASE \E c \in Commands : \E a \in Args(c) : Start(c, a)
  BY <1>1, <1>2 DEF Start
<1>3. CASE Step \/ PsqlStarted \/ CallFails
  BY <1>3, NodesTypes, UsersTypes, AdminTypes DEF Step
<1>4. CASE ServeOrg \/ ServeProject \/ NoticeDeletion
  <2>1. \A n \in NodeType : /\ Served(n) \in NodeType
                            /\ [n EXCEPT !.st = "leaving"] \in NodeType
    BY DEF Served, NodeType
  <2> QED BY <1>4, <2>1 DEF ServeOrg, ServeProject, NoticeDeletion, Types,
                            process
<1>5. CASE RemoveOrg \/ RemoveProject
  <2>1. ASSUME NEW o, Withdraw(o)
        PROVE  users' \in [UserNames -> SUBSET Grantable]
    BY <2>1 DEF Withdraw, Types
  <2>2. Absent \in NodeType
    BY DEF Absent, NodeType
  <2> QED BY <1>5, <2>1, <2>2 DEF RemoveOrg, RemoveProject, Types, process
<1>6. CASE PodUp
  BY <1>6, AdminTypes
<1>7. CASE UNCHANGED vars
  BY <1>1, <1>7 DEF vars
<1> QED BY <1>2, <1>3, <1>4, <1>5, <1>6, <1>7 DEF Next, Services

-----------------------------------------------------------------------------
(* Roles *)

\* A command is at its roles.
AtRoles == At("roles") \/ At("rolesRetried")

\* An owner that is not there, whose roles went with it.
Gone(o) ==
    (o = "org" /\ org.st = "absent") \/ (o = "project" /\ project.st = "absent")

\* The tenancy user has role r, or has it not, as the command was asked.
AsAsked(r) == r \in users["tenancy-user"] <=> arg.action = "POST"

\* The roles that this pass went over are as asked, unless one failed or went
\* with its owner.
RolesDone ==
    At("roles") \/ (At("rolesRetried") /\ ~job.bad) =>
        \A k \in 1..job.k : AsAsked(Roles[k]) \/ Gone(Roles[k][1])

\* A command that comes to its roles starts with the first one.
LEMMA RolesFresh ==
    ASSUME Turn, [Next]_vars, ~AtRoles, AtRoles' PROVE job'.k = 0
<1>0. Running'
  BY TurnStep DEF Turn, Idle, AtRoles, At
<1>1. CASE todo' = todo
  BY <1>1 DEF AtRoles, At
<1>2. ASSUME Advance(1) \/ Return(TRUE) \/ Return(FALSE) PROVE job'.k = 0
  BY <1>2 DEF Advance, AdvanceWith, Return, NewJob, AtRoles, At
<1>3. CASE \/ CheckOrg \/ AddOrg \/ OrgWatcher \/ OrgIdle \/ PutOrg
           \/ OrgActive \/ FindOrg \/ DelFolder \/ DelOrg \/ OrgGone
  BY <1>1, <1>3 DEF CheckOrg, AddOrg, OrgWatcher, OrgIdle, PutOrg,
     OrgActive, FindOrg, DelFolder, DelOrg, OrgGone, Wait, WaitFor,
     Advance, AdvanceWith, Return, NewJob, AtRoles, At
<1>4. CASE \/ AddFolder \/ AddProject \/ ProjectIdle \/ PutProject
           \/ ProjectActive \/ ProjectWatchers \/ FindProject
           \/ DelProject \/ ProjectGone
  BY <1>1, <1>4 DEF AddFolder, AddProject, ProjectIdle, PutProject,
     ProjectActive, ProjectWatchers, FindProject, DelProject, ProjectGone,
     Wait, WaitFor, Advance, AdvanceWith, Return, NewJob, AtRoles, At
<1>5. CASE KeycloakLogin \/ ProjectId \/ JoinOrg \/ RemoveUser \/ GetUserID
  BY <1>2, <1>5 DEF KeycloakLogin, ProjectId, JoinOrg, RemoveUser, GetUserID
<1>6. CASE FindUser \/ CreateUser \/ SetUserPassword \/ GrantNext
  <2>1. \/ Advance(1) \/ Return(FALSE) \/ todo' = todo
    BY <1>6 DEF FindUser, CreateUser, SetUserPassword, GrantNext, Give,
       GiveUp, NextUser, Within
  <2> QED BY <1>1, <1>2, <2>1
<1>7. CASE PasswordStep
  <2>1. CASE SelectAdmin
    <3>1. Running /\ At("selectAdmin") /\ todo' = Tail(todo)
      BY <2>1 DEF SelectAdmin, At, Turn, Idle
    <3>2. /\ Len(todo) >= 2 /\ todo[2] = "dropCredential"
          /\ Program[cmd] \in Seq(Steps)
      BY <3>1, Places, Programs DEF Running, Left
    <3>3. Head(todo') = "dropCredential"
      BY <3>1, <3>2, TailRest DEF Running
    <3> QED BY <3>3 DEF AtRoles, At
  <2>2. CASE SetSecret
    BY <2>2 DEF SetSecret, Advance, AdvanceWith, Return, NewJob, AtRoles, At
  <2>3. CASE RestartPod \/ PsqlStarted \/ DropCredential \/ DropAdmin
             \/ Bootstrap
    BY <1>2, <2>3
       DEF RestartPod, PsqlStarted, DropCredential, DropAdmin, Bootstrap
  <2> QED BY <1>7, <2>1, <2>2, <2>3 DEF PasswordStep
<1>8. CASE CallFails
  <2>1. \/ Advance(1) \/ Return(FALSE) \/ Return(TRUE) \/ todo' = todo
    BY <1>8 DEF CallFails, GiveUp, NextUser, EndPass, Within
  <2> QED BY <1>1, <1>2, <2>1
<1>9. CASE \E c \in Commands : \E a \in Args(c) : Start(c, a)
  BY <1>9 DEF Start, Begin, NewJob
<1>10. CASE Services
  BY <1>1, <1>10 DEF Services, ServeOrg, ServeProject, NoticeDeletion,
     RemoveOrg, RemoveProject, PodUp, process, command
<1>11. CASE UNCHANGED vars
  BY <1>1, <1>11 DEF vars, command
<1>12. CASE ManageRole \/ ManageRoleRetried
  BY <1>12 DEF ManageRole, ManageRoleRetried, AtRoles
<1> QED BY <1>3, <1>4, <1>5, <1>6, <1>7, <1>8, <1>9, <1>10, <1>11, <1>12
        DEF Next, Step, PasswordStep

\* At its roles a command does nothing else.
LEMMA RolesOnly ==
    ASSUME Turn, [Next]_vars, AtRoles
    PROVE  \/ ManageRole \/ ManageRoleRetried \/ CallFails \/ Services
           \/ UNCHANGED vars
<1>1. todo # <<>> /\ Head(todo) \in {"roles", "rolesRetried"}
  BY DEF AtRoles, At
<1>2. ~InJob
  BY <1>1 DEF InJob, Jobs
<1>4. /\ ~CheckOrg /\ ~AddOrg /\ ~OrgWatcher /\ ~OrgIdle /\ ~PutOrg
      /\ ~OrgActive /\ ~FindOrg /\ ~DelFolder /\ ~DelOrg /\ ~OrgGone
      /\ ~AddFolder /\ ~AddProject /\ ~ProjectIdle /\ ~PutProject
      /\ ~ProjectActive /\ ~ProjectWatchers /\ ~FindProject
      /\ ~DelProject /\ ~ProjectGone
  BY <1>1 DEF CheckOrg, AddOrg, OrgWatcher, OrgIdle, PutOrg,
       OrgActive, FindOrg, DelFolder, DelOrg, OrgGone,
       AddFolder, AddProject, ProjectIdle, PutProject,
       ProjectActive, ProjectWatchers, FindProject, DelProject, ProjectGone,
       Wait, WaitFor, At
<1>5. /\ ~KeycloakLogin /\ ~ProjectId /\ ~JoinOrg /\ ~RemoveUser
      /\ ~GetUserID /\ ~FindUser /\ ~CreateUser /\ ~SetUserPassword
      /\ ~GrantNext
  BY <1>1, <1>2 DEF KeycloakLogin, ProjectId, JoinOrg, RemoveUser, GetUserID,
       FindUser, CreateUser, SetUserPassword, GrantNext, At
<1>6. ~PasswordStep
  BY <1>1 DEF PasswordStep, SetSecret, RestartPod, PsqlStarted, SelectAdmin,
     DropCredential, DropAdmin, Bootstrap, At
<1>7. ~\E c \in Commands : \E a \in Args(c) : Start(c, a)
  <2>1. cmd # "none"
    BY <1>1, Names DEF Turn, Running, Idle
  <2> QED BY <2>1 DEF Start, Begin
<1> QED BY <1>4, <1>5, <1>6, <1>7 DEF Next, Step, PasswordStep

\* Mapping a role leaves the others as they are.
LEMMA MapsOne ==
    ASSUME Turn, Types, AtRoles, Mapped, UNCHANGED arg,
           NEW r, AsAsked(r) \/ r = Role
    PROVE  AsAsked(r)'
  BY SingleUsers DEF Mapped, AsAsked, Types

\* RolesDone is inductive, whatever becomes of the owners meanwhile.
LEMMA RolesDoneStep ==
    ASSUME Turn, Types, RolesDone, [Next]_vars PROVE RolesDone'
<1>1. CASE ~AtRoles
  <2>1. AtRoles' => 1..job'.k = {}
    BY <1>1, RolesFresh
  <2> QED BY <2>1 DEF RolesDone, AtRoles
<1>2. CASE AtRoles
  <2>1. Running /\ job.k \in 0..1 /\ Len(Roles) = 2
    BY <1>2, ArgLevels, RoleShape
       DEF Turn, Idle, AtRoles, At, Running, Locals, Roles
  <2>2. ASSUME job'.k = 0 \/ (~At("roles")' /\ job'.bad) \/ todo' = <<>>
        PROVE  RolesDone'
    BY <2>2 DEF RolesDone, AtRoles, At
  <2>3. ASSUME Advance(1) \/ Return(TRUE) \/ Return(FALSE) PROVE RolesDone'
    BY <2>2, <2>3 DEF Advance, AdvanceWith, Return, NewJob
  <2>4. ASSUME NEW b, EndPass(b) PROVE RolesDone'
    BY <2>1, <2>2, <2>3, <2>4 DEF EndPass, Within, Running, JobType
  <2>5. CASE ManageRole
    <3>1. CASE /\ Mapped /\ job.k + 1 < Len(Roles)
               /\ Within([job EXCEPT !.k = @ + 1])
      <4>1. job.k = 0 /\ job'.k = 1 /\ arg' = arg /\ Role = Roles[1]
        BY <2>1, <3>1 DEF Within, Running, JobType, Role
      <4>2. AsAsked(Roles[1])'
        BY <1>2, <3>1, <4>1, MapsOne DEF Roles
      <4> QED BY <4>1, <4>2 DEF RolesDone
    <3> QED BY <2>3, <2>5, <3>1 DEF ManageRole
  <2>6. CASE ManageRoleRetried
    <3> DEFINE bad == job.bad \/ ~Provided(Role[1])
               j == [job EXCEPT !.k = @ + 1, !.bad = bad]
    <3>1. EndPass(bad) \/ (job.k + 1 < Len(Roles) /\ Within(j))
      BY <2>6 DEF ManageRoleRetried
    <3>2. ~bad => Mapped
      BY <2>6 DEF ManageRoleRetried
    <3>3. bad \in BOOLEAN /\ job \in JobType /\ job.k + 1 \in Nat
      BY <2>1 DEF Running, JobType
    <3> HIDE DEF bad
    <3>4. j.k = job.k + 1 /\ j.bad = bad
      BY <3>3 DEF JobType
    <3> HIDE DEF j
    <3>5. CASE job.k + 1 < Len(Roles) /\ Within(j) /\ ~bad
      <4>1. job.k = 0 /\ job'.k = 1 /\ arg' = arg /\ Role = Roles[1]
        BY <2>1, <3>4, <3>5 DEF Within, Role
      <4>2. AsAsked(Roles[1])'
        BY <1>2, <3>2, <3>5, <4>1, MapsOne DEF Roles
      <4> QED BY <4>1, <4>2 DEF RolesDone
    <3>6. CASE Within(j) /\ bad
      <4>1. ~At("roles")'
        BY <2>6, <3>6 DEF ManageRoleRetried, Within, At
      <4> QED BY <2>2, <3>4, <3>6, <4>1 DEF Within
    <3> QED BY <2>4, <3>1, <3>5, <3>6
  <2>7. CASE CallFails
    <3>1. todo # <<>> /\ Head(todo) \in {"roles", "rolesRetried"} /\ ~InJob
      BY <1>2 DEF AtRoles, At, InJob, Jobs
    <3>2. \/ Return(FALSE) \/ EndPass(TRUE)
          \/ /\ At("rolesRetried")
             /\ Within([job EXCEPT !.k = @ + 1, !.bad = TRUE])
      BY <2>7, <3>1 DEF CallFails, At
    <3>3. CASE /\ At("rolesRetried")
               /\ Within([job EXCEPT !.k = @ + 1, !.bad = TRUE])
      <4>1. job'.bad /\ ~At("roles")'
        BY <2>1, <3>3 DEF Within, Running, JobType, At
      <4> QED BY <2>2, <4>1
    <3> QED BY <2>3, <2>4, <3>2, <3>3
  <2>8. CASE UNCHANGED <<command, users, org, project>>
    BY <2>8 DEF RolesDone, AtRoles, At, AsAsked, Gone, Roles, command
  <2>9. CASE Services
    <3>1. UNCHANGED command
      BY <2>9 DEF Services, ServeOrg, ServeProject, NoticeDeletion,
         RemoveOrg, RemoveProject, PodUp, process
    <3>2. ASSUME NEW r, AsAsked(r) \/ Gone(r[1])
          PROVE  (AsAsked(r) \/ Gone(r[1]))'
      <4>1. CASE ServeOrg \/ ServeProject \/ NoticeDeletion
        <5>1. /\ org.st = "absent" => org'.st = "absent"
              /\ project.st = "absent" => project'.st = "absent"
          BY <4>1 DEF ServeOrg, ServeProject, NoticeDeletion, InCreation
        <5>2. UNCHANGED <<users, arg>>
          BY <3>1, <4>1 DEF ServeOrg, ServeProject, NoticeDeletion, command
        <5> QED BY <3>2, <5>1, <5>2 DEF AsAsked, Gone
      <4>2. CASE RemoveOrg
        <5>1. /\ org'.st = "absent" /\ project' = project /\ arg' = arg
              /\ users'["tenancy-user"] =
                   {g \in users["tenancy-user"] : g[1] # "org"}
          BY <3>1, <4>2, SingleUsers DEF RemoveOrg, Absent, Withdraw, command
        <5> QED BY <3>2, <5>1 DEF AsAsked, Gone
      <4>3. CASE RemoveProject
        <5>1. /\ project'.st = "absent" /\ org' = org /\ arg' = arg
              /\ users'["tenancy-user"] =
                   {g \in users["tenancy-user"] : g[1] # "project"}
          BY <3>1, <4>3, SingleUsers DEF RemoveProject, Absent, Withdraw,
             command
        <5> QED BY <3>2, <5>1 DEF AsAsked, Gone
      <4>4. CASE PodUp
        BY <3>2, <4>4 DEF PodUp, nodes, process, command, AsAsked, Gone
      <4> QED BY <2>9, <4>1, <4>2, <4>3, <4>4 DEF Services
    <3>3. Roles' = Roles /\ job' = job /\ todo' = todo
      BY <3>1 DEF Roles, command
    <3>4. ASSUME (At("roles") \/ (At("rolesRetried") /\ ~job.bad))',
                 NEW k \in 1..job'.k
          PROVE  (AsAsked(Roles[k]) \/ Gone(Roles[k][1]))'
      <4>1. AsAsked(Roles[k]) \/ Gone(Roles[k][1])
        BY <3>3, <3>4 DEF RolesDone, At
      <4>2. (AsAsked(Roles[k]) \/ Gone(Roles[k][1]))' <=>
              \/ Roles[k] \in users'["tenancy-user"] <=> arg'.action = "POST"
              \/ (Roles[k][1] = "org" /\ org'.st = "absent")
              \/ (Roles[k][1] = "project" /\ project'.st = "absent")
        BY <3>3 DEF AsAsked, Gone
      <4> QED BY <3>2, <4>1, <4>2 DEF AsAsked, Gone
    <3> QED BY <3>4 DEF RolesDone
  <2>10. CASE UNCHANGED vars
    BY <2>8, <2>10 DEF vars, world, nodes
  <2> QED BY <1>2, <2>5, <2>6, <2>7, <2>9, <2>10, RolesOnly
<1> QED BY <1>1, <1>2

\* The steps of the role commands; the roles are the last one.
LEMMA RolesHead ==
    ASSUME Running, cmd \in RoleCommands
    PROVE  /\ Head(todo) \in {"login", "tenancy", "userId", "roles",
                              "rolesRetried"}
           /\ Len(todo) = 1 => AtRoles
<1>1. CASE cmd = "tenancyRoles"
  <2> DEFINE p == <<"login", "tenancy", "roles">>
  <2>1. Program[cmd] = p
    BY <1>1 DEF Program
  <2>2. /\ p \in Seq(Steps) /\ Len(p) = 3 /\ p[1] = "login"
        /\ p[2] = "tenancy" /\ p[3] = "roles"
    BY DEF Steps
  <2> HIDE DEF p
  <2>3. Len(todo) \in 1..3 /\ Head(todo) = p[3 - Len(todo) + 1]
    BY <2>1, <2>2, HeadOfRest DEF Running
  <2>4. \A n \in 1..3 : /\ p[3 - n + 1] \in {"login", "tenancy", "roles"}
                        /\ n = 1 => p[3 - n + 1] = "roles"
    BY <2>2
  <2> QED BY <2>3, <2>4 DEF AtRoles, At, Running
<1>2. CASE cmd = "manageRoles"
  <2> DEFINE p == <<"userId", "rolesRetried">>
  <2>1. Program[cmd] = p
    BY <1>2 DEF Program
  <2>2. /\ p \in Seq(Steps) /\ Len(p) = 2 /\ p[1] = "userId"
        /\ p[2] = "rolesRetried"
    BY DEF Steps
  <2> HIDE DEF p
  <2>3. Len(todo) \in 1..2 /\ Head(todo) = p[2 - Len(todo) + 1]
    BY <2>1, <2>2, HeadOfRest DEF Running
  <2>4. \A n \in 1..2 : /\ p[2 - n + 1] \in {"userId", "rolesRetried"}
                        /\ n = 1 => p[2 - n + 1] = "rolesRetried"
    BY <2>2
  <2> QED BY <2>3, <2>4 DEF AtRoles, At, Running
<1> QED BY <1>1, <1>2 DEF RoleCommands

\* A command that is no password command succeeds only at its last step or
\* where it finds that there is nothing to do.
LEMMA SucceedsLast ==
    ASSUME Turn, [Next]_vars, Succeeds, cmd \notin PasswordCommands
    PROVE  \/ At("findOrg") \/ At("findProject") \/ Len(todo) = 1
           \/ At("checkOrg") /\ Len(todo) = Len(CreateOrg)
<1>1. todo # <<>> => Head(todo) \notin PasswordNames
  BY OtherHead DEF Turn, Running, Idle
<1>2. ~PasswordStep
  BY <1>1 DEF PasswordStep, SetSecret, RestartPod, PsqlStarted, SelectAdmin,
     DropCredential, DropAdmin, Bootstrap, At, PasswordNames
<1>3. ~\E c \in Commands : \E a \in Args(c) : Start(c, a)
  BY DEF Start, Begin, Succeeds
<1>4. ASSUME UNCHANGED cmd \/ Return(FALSE) PROVE FALSE
  BY <1>4 DEF Succeeds, Return
<1>5. ASSUME Advance(1) PROVE Len(todo) = 1
  BY <1>4, <1>5 DEF Advance, AdvanceWith
<1>6. CASE CheckOrg
  <2>1. Advance(1) \/ Advance(Len(CreateOrg))
    BY <1>6 DEF CheckOrg
  <2>2. ASSUME Advance(Len(CreateOrg)) PROVE Len(todo) = Len(CreateOrg)
    BY <1>4, <2>2 DEF Advance, AdvanceWith
  <2> QED BY <1>5, <1>6, <2>1, <2>2 DEF CheckOrg
<1>7. CASE FindOrg \/ FindProject
  BY <1>7 DEF FindOrg, FindProject
<1>8. CASE \/ OrgWatcher \/ OrgIdle \/ OrgActive \/ OrgGone
           \/ ProjectIdle \/ ProjectActive \/ ProjectWatchers
           \/ ProjectGone
  BY <1>4, <1>5, <1>8 DEF OrgWatcher, OrgIdle, OrgActive, OrgGone,
     ProjectIdle, ProjectActive, ProjectWatchers, ProjectGone, Wait, WaitFor,
     Advance
<1>9. CASE \/ AddOrg \/ PutOrg \/ DelFolder \/ DelOrg
           \/ AddFolder \/ AddProject \/ PutProject \/ DelProject
  BY <1>4, <1>5, <1>9 DEF AddOrg, PutOrg, DelFolder, DelOrg,
     AddFolder, AddProject, PutProject, DelProject
<1>10. CASE \/ KeycloakLogin \/ ProjectId \/ JoinOrg \/ RemoveUser
            \/ GetUserID
  BY <1>4, <1>5, <1>10
     DEF KeycloakLogin, ProjectId, JoinOrg, RemoveUser, GetUserID
<1>11. ASSUME NEW b, EndPass(b) PROVE Len(todo) = 1
  BY <1>4, <1>5, <1>11 DEF EndPass, Within
<1>12. CASE ManageRole \/ ManageRoleRetried
  BY <1>4, <1>5, <1>11, <1>12 DEF ManageRole, ManageRoleRetried, Within
<1>13. CASE FindUser \/ CreateUser \/ SetUserPassword \/ GrantNext
  BY <1>4, <1>5, <1>13 DEF FindUser, CreateUser, SetUserPassword, GrantNext,
     Give, GiveUp, NextUser, Within
<1>14. CASE CallFails
  BY <1>4, <1>5, <1>11, <1>14 DEF CallFails, GiveUp, NextUser, Within
<1>15. CASE Services
  BY <1>4, <1>15 DEF Services, ServeOrg, ServeProject, NoticeDeletion,
     RemoveOrg, RemoveProject, PodUp, process, command
<1>16. CASE UNCHANGED vars
  BY <1>4, <1>16 DEF vars, command
<1> QED BY <1>2, <1>3, <1>6, <1>7, <1>8, <1>9, <1>10, <1>12, <1>13, <1>14,
           <1>15, <1>16 DEF Next, Step, PasswordStep

-----------------------------------------------------------------------------
(* Theorems *)

\* The inductive invariant: the place of the command, the types of the
\* services, the copies of the password and the roles gone over.
IInv == Turn /\ Types /\ Custody /\ RolesDone

\* It holds initially.
LEMMA Beginning == Init => IInv
<1> SUFFICES ASSUME Init PROVE IInv
  OBVIOUS
<1>1. Turn
  BY TenancyAssumption DEF Init, Turn, Idle
<1>2. Types
  <2>1. First \in Passwords /\ 0 \in 0..MaxFails
    BY TenancyAssumption DEF Passwords
  <2>2. kc \in [secret : Passwords, env : Passwords,
               admin : Passwords \cup {"none", "bare"}, up : BOOLEAN]
    BY <2>1 DEF Init
  <2>3. org \in NodeType /\ project \in NodeType
    BY DEF Init, Absent, NodeType
  <2>4. users \in [UserNames -> SUBSET Grantable]
    BY DEF Init
  <2> QED BY <2>1, <2>2, <2>3, <2>4 DEF Init, Types
<1>3. Custody
  BY DEF Init, Custody, At, PasswordCommands
<1>4. RolesDone
  BY DEF Init, RolesDone, AtRoles, At
<1> QED BY <1>1, <1>2, <1>3, <1>4 DEF IInv

\* It holds in every state, for all passwords, commands and bounds.
THEOREM Inductive == Spec => []IInv
<1>1. IInv /\ [Next]_vars => IInv'
  BY TurnStep, TypesStep, CustodyStep, RolesDoneStep DEF IInv
<1> QED BY <1>1, Beginning, PTL DEF Spec

\* Every state has the types of TypeOK: the locals of a command stay within
\* its job, its wait and its tries (tenant_utils.go, dev_utils.go).
THEOREM TypeCorrect == Spec => []TypeOK
<1>1. IInv => TypeOK
  <2> SUFFICES ASSUME IInv PROVE TypeOK
    OBVIOUS
  <2>1. /\ org \in NodeType /\ project \in NodeType /\ folder \in BOOLEAN
        /\ users \in [UserNames -> SUBSET Grantable]
        /\ missed \in BOOLEAN /\ CommandType
    BY DEF IInv, Types, Turn, CommandType
  <2>2. /\ kc.secret \in Passwords /\ kc.env \in Passwords
        /\ kc.admin \in Passwords \cup {"none", "bare"} /\ kc.up \in BOOLEAN
    BY DEF IInv, Types
  <2>3. /\ cmd \in DOMAIN Program \cup {"none"}
        /\ cmd # "none" => arg \in Args(cmd) /\ todo # <<>>
        /\ cmd # "none" => job.tries \in 1..Tries
    BY DEF IInv, Turn, Running, Idle, JobType
  <2>4. InJob => job.i \in DOMAIN Jobs[Head(todo)]
                   /\ job.k \in 0..Len(Grants)
    BY DEF IInv, Turn, Idle, Locals, InJob
  <2> QED BY <2>1, <2>2, <2>3, <2>4 DEF TypeOK
<1> QED BY <1>1, Inductive, PTL

\* For all passwords and any number of commands: while no password command
\* runs and none has failed, the password in the secret is the one of
\* Keycloak's admin in the database (keycloak_utils.go:37-150).
THEOREM SecretIsKept == Spec => []SecretLogsIn
<1>1. IInv => SecretLogsIn
  BY DEF IInv, Custody, SecretLogsIn
<1> QED BY <1>1, Inductive, PTL

\* For any number of tries and failing calls: a role command that reports
\* success has given, or taken, every role whose owner is provided
\* (dev_utils.go:627, 692).
THEOREM RolesAreAsAsked == Spec => RolesAsAsked
<1>1. ASSUME IInv, Next, Succeeds, cmd \in RoleCommands,
             NEW k \in DOMAIN Roles, Provided(Roles[k][1])
      PROVE  Roles[k] \in users'["tenancy-user"] <=> arg.action = "POST"
  <2>1. Turn /\ Types /\ RolesDone
    BY <1>1 DEF IInv
  <2>2. Running /\ cmd \notin PasswordCommands
    BY <1>1, <2>1 DEF Succeeds, Turn, Idle, RoleCommands, PasswordCommands
  <2>3. AtRoles /\ Len(todo) = 1
    BY <1>1, <2>1, <2>2, SucceedsLast, RolesHead DEF At
  <2>4. Len(Roles) = 2 /\ DOMAIN Roles = 1..2 /\ job.k \in 0..1
    BY <2>1, <2>2, <2>3, ArgLevels, RoleShape
       DEF Running, Roles, Turn, Idle, Locals, AtRoles
  <2>5. /\ At("roles") \/ (At("rolesRetried") /\ ~job.bad)
        /\ job.k = 1 /\ Mapped
    <3>1. ASSUME UNCHANGED cmd \/ Return(FALSE) PROVE FALSE
      BY <1>1, <3>1 DEF Succeeds, Return
    <3>2. CASE ManageRole
      <4>1. At("roles") /\ Mapped /\ ~(job.k + 1 < Len(Roles))
        BY <3>1, <3>2 DEF ManageRole, Within
      <4> QED BY <2>4, <4>1
    <3>3. CASE ManageRoleRetried
      <4> DEFINE bad == job.bad \/ ~Provided(Role[1])
      <4>1. \/ EndPass(bad) /\ ~(job.k + 1 < Len(Roles))
            \/ UNCHANGED cmd
        BY <3>3 DEF ManageRoleRetried, Within
      <4>2. ~bad
        BY <3>1, <4>1 DEF EndPass, Within
      <4>3. At("rolesRetried") /\ Mapped
        BY <3>3, <4>2 DEF ManageRoleRetried
      <4>4. ~(job.k + 1 < Len(Roles))
        BY <3>1, <4>1
      <4> QED BY <2>4, <4>2, <4>3, <4>4
    <3>4. ~CallFails
      <4>1. todo # <<>> /\ Head(todo) \in {"roles", "rolesRetried"} /\ ~InJob
        BY <2>3 DEF AtRoles, At, InJob, Jobs
      <4> QED BY <3>1, <4>1 DEF CallFails, EndPass, Within, At
    <3>5. ~Services /\ ~UNCHANGED vars
      BY <3>1 DEF Services, ServeOrg, ServeProject, NoticeDeletion,
         RemoveOrg, RemoveProject, PodUp, process, command, vars
    <3> QED BY <1>1, <2>1, <2>3, <3>2, <3>3, <3>4, <3>5, RolesOnly
  <2>6. CASE k = 2
    <3>1. Role = Roles[2]
      BY <2>5 DEF Role
    <3> QED BY <2>1, <2>5, <2>6, <3>1, SingleUsers DEF Mapped, Types
  <2>7. CASE k = 1
    <3>1. AsAsked(Roles[1]) \/ Gone(Roles[1][1])
      BY <2>1, <2>3, <2>5 DEF RolesDone
    <3>2. ~Gone(Roles[1][1])
      BY <1>1, <2>7 DEF Gone, Provided, Made
    <3> QED BY <2>1, <2>5, <2>7, <3>1, <3>2, SingleUsers
            DEF AsAsked, Mapped, Types
  <2> QED BY <2>4, <2>6, <2>7
<1>2. IInv /\ [Next]_vars
        => [Succeeds /\ cmd \in RoleCommands =>
              \A k \in DOMAIN Roles :
                 \/ ~Provided(Roles[k][1])
                 \/ (Roles[k] \in users'["tenancy-user"])
                      = (arg.action = "POST")]_vars
  BY <1>1
<1> QED BY <1>2, Inductive, PTL DEF Spec, RolesAsAsked
=============================================================================
