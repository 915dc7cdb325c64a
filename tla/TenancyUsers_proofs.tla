------------------------- MODULE TenancyUsers_proofs -------------------------
(***************************************************************************)
(* The users that the commands of Tenancy make are complete when a command *)
(* reports success, for all commands, passwords and failing calls and      *)
(* whatever the tenancy manager does to their owners.                      *)
(***************************************************************************)
EXTENDS Tenancy_proofs

-----------------------------------------------------------------------------
(* Programs *)

\* The steps of the user commands that create users.
Working == {"admin", "infra", "cluster"}

\* All steps of the user commands.
UserSteps ==
    Working \cup {"checkOrg", "addOrg", "orgWatcher", "orgIdle", "login",
                 "addFolder", "addProject", "projectIdle", "projectId"}

\* A program of a user command: it ends by creating users; an organization is
\* added before any user is created, a project before any of its users.
Ordered(p) ==
    /\ p \in Seq(UserSteps) /\ Len(p) > 0 /\ p[Len(p)] \in Working
    /\ \A i \in 1..Len(p) : p[i] = "checkOrg" => Len(p) - i # 3
    /\ \A i, k \in 1..Len(p) : i < k =>
         /\ p[k] = "addOrg" => p[i] \notin Working
         /\ p[k] = "addProject" => p[i] \notin {"infra", "cluster"}

\* The steps of the setup, by their numbers.
LEMMA SetupSteps ==
    /\ Program["setup"] \in Seq(UserSteps) /\ Len(Program["setup"]) = 15
    /\ Program["setup"][1] = "checkOrg" /\ Program["setup"][2] = "addOrg"
    /\ Program["setup"][3] = "orgWatcher" /\ Program["setup"][4] = "orgIdle"
    /\ Program["setup"][5] = "login" /\ Program["setup"][6] = "admin"
    /\ Program["setup"][7] = "addFolder" /\ Program["setup"][8] = "addProject"
    /\ Program["setup"][9] = "projectIdle" /\ Program["setup"][10] = "login"
    /\ Program["setup"][11] = "projectId" /\ Program["setup"][12] = "infra"
    /\ Program["setup"][13] = "login" /\ Program["setup"][14] = "projectId"
    /\ Program["setup"][15] = "cluster"
<1> DEFINE b == CreateOrg \o CreateProjectAdminInOrg
           c == b \o CreateProjectInOrg
           d == c \o CreateEdgeInfraUsers
           e == d \o CreateClusterOrchUsers
<1>1. Program["setup"] = e
  BY DEF Program
<1>2. UserSteps = {"admin", "infra", "cluster", "checkOrg", "addOrg",
                   "orgWatcher", "orgIdle", "login", "addFolder",
                   "addProject", "projectIdle", "projectId"}
  BY DEF UserSteps, Working
<1>3. /\ CreateOrg \in Seq(UserSteps)
      /\ CreateProjectAdminInOrg \in Seq(UserSteps)
      /\ CreateProjectInOrg \in Seq(UserSteps)
      /\ CreateEdgeInfraUsers \in Seq(UserSteps)
      /\ CreateClusterOrchUsers \in Seq(UserSteps)
  BY <1>2 DEF CreateOrg, CreateProjectAdminInOrg, CreateProjectInOrg,
              CreateEdgeInfraUsers, CreateClusterOrchUsers
<1>4. b \in Seq(UserSteps) /\ Joins(b, CreateOrg, CreateProjectAdminInOrg)
  BY <1>3, Joining
<1> HIDE DEF b
<1>5. c \in Seq(UserSteps) /\ Joins(c, b, CreateProjectInOrg)
  BY <1>3, <1>4, Joining
<1> HIDE DEF c
<1>6. d \in Seq(UserSteps) /\ Joins(d, c, CreateEdgeInfraUsers)
  BY <1>3, <1>5, Joining
<1> HIDE DEF d
<1>7. e \in Seq(UserSteps) /\ Joins(e, d, CreateClusterOrchUsers)
  BY <1>3, <1>6, Joining
<1> HIDE DEF e
<1>8. /\ Len(b) = 6 /\ b[1] = "checkOrg" /\ b[2] = "addOrg"
      /\ b[3] = "orgWatcher" /\ b[4] = "orgIdle" /\ b[5] = "login"
      /\ b[6] = "admin"
  BY <1>4 DEF Joins, CreateOrg, CreateProjectAdminInOrg
<1>9. /\ Len(c) = 9 /\ (\A i \in 1..6 : c[i] = b[i]) /\ c[7] = "addFolder"
      /\ c[8] = "addProject" /\ c[9] = "projectIdle"
  BY <1>5, <1>8 DEF Joins, CreateProjectInOrg
<1>10. /\ Len(d) = 12 /\ (\A i \in 1..9 : d[i] = c[i]) /\ d[10] = "login"
       /\ d[11] = "projectId" /\ d[12] = "infra"
  BY <1>6, <1>9 DEF Joins, CreateEdgeInfraUsers
<1>11. /\ Len(e) = 15 /\ (\A i \in 1..12 : e[i] = d[i]) /\ e[13] = "login"
       /\ e[14] = "projectId" /\ e[15] = "cluster"
  BY <1>7, <1>10 DEF Joins, CreateClusterOrchUsers
<1>12. /\ e[1] = "checkOrg" /\ e[2] = "addOrg" /\ e[3] = "orgWatcher"
       /\ e[4] = "orgIdle" /\ e[5] = "login" /\ e[6] = "admin"
  BY <1>8, <1>9, <1>10, <1>11
<1>13. /\ e[7] = "addFolder" /\ e[8] = "addProject" /\ e[9] = "projectIdle"
       /\ e[10] = "login" /\ e[11] = "projectId" /\ e[12] = "infra"
  BY <1>9, <1>10, <1>11
<1> QED BY <1>1, <1>7, <1>11, <1>12, <1>13

\* The programs of all user commands are ordered.
LEMMA UserPrograms == \A c \in UserCommands : Ordered(Program[c])
<1>1. ASSUME NEW p \in Seq(UserSteps), Len(p) = 15,
             p[1] = "checkOrg", p[2] = "addOrg", p[3] = "orgWatcher",
             p[4] = "orgIdle", p[5] = "login", p[6] = "admin",
             p[7] = "addFolder", p[8] = "addProject", p[9] = "projectIdle",
             p[10] = "login", p[11] = "projectId", p[12] = "infra",
             p[13] = "login", p[14] = "projectId", p[15] = "cluster"
      PROVE  Ordered(p)
  <2>1. \A i \in 1..15 :
           /\ p[i] = "checkOrg" => i = 1
           /\ p[i] = "addOrg" => i = 2
           /\ p[i] = "addProject" => i = 8
           /\ p[i] \in Working => i \in {6, 12, 15}
           /\ p[i] \in {"infra", "cluster"} => i \in {12, 15}
    <3> TAKE i \in 1..15
    <3>1. i \in {1, 2, 3, 4, 5} \/ i \in {6, 7, 8, 9, 10}
            \/ i \in {11, 12, 13, 14, 15}
      OBVIOUS
    <3>2. CASE i \in {1, 2, 3, 4, 5}
      BY <1>1, <3>2 DEF Working
    <3>3. CASE i \in {6, 7, 8, 9, 10}
      BY <1>1, <3>3 DEF Working
    <3>4. CASE i \in {11, 12, 13, 14, 15}
      BY <1>1, <3>4 DEF Working
    <3> QED BY <3>1, <3>2, <3>3, <3>4
  <2>2. p[Len(p)] \in Working
    BY <1>1 DEF Working
  <2>3. \A i \in 1..15 : p[i] = "checkOrg" => 15 - i # 3
    BY <2>1
  <2>4. \A i, k \in 1..15 : i < k =>
          /\ p[k] = "addOrg" => p[i] \notin Working
          /\ p[k] = "addProject" => p[i] \notin {"infra", "cluster"}
    <3> SUFFICES ASSUME NEW i \in 1..15, NEW k \in 1..15, i < k
                 PROVE  /\ p[k] = "addOrg" => p[i] \notin Working
                        /\ p[k] = "addProject" =>
                             p[i] \notin {"infra", "cluster"}
      OBVIOUS
    <3>1. p[k] = "addOrg" => k = 2
      BY <2>1
    <3>2. p[k] = "addProject" => k = 8
      BY <2>1
    <3>3. p[i] \in Working => i \in {6, 12, 15}
      BY <2>1
    <3>4. p[i] \in {"infra", "cluster"} => i \in {12, 15}
      BY <2>1
    <3>5. k = 2 => i \notin {6, 12, 15}
      OBVIOUS
    <3>6. k = 8 => i \notin {12, 15}
      OBVIOUS
    <3> QED BY <3>1, <3>2, <3>3, <3>4, <3>5, <3>6
  <2> QED BY <1>1, <2>2, <2>3, <2>4 DEF Ordered
<1>2. /\ Ordered(CreateProjectAdminInOrg) /\ Ordered(CreateEdgeInfraUsers)
      /\ Ordered(CreateClusterOrchUsers)
  BY DEF Ordered, UserSteps, Working, CreateProjectAdminInOrg,
         CreateEdgeInfraUsers, CreateClusterOrchUsers
<1>3. /\ Ordered(Program["createAdmin"]) /\ Ordered(Program["infraUsers"])
      /\ Ordered(Program["clusterUsers"])
  BY <1>2 DEF Program
<1>4. Ordered(Program["setup"])
  BY <1>1, SetupSteps
<1> QED BY <1>3, <1>4 DEF UserCommands

\* ... and so are their rests.
LEMMA UserOrder ==
    ASSUME NEW c \in UserCommands, NEW t \in Seq(Steps), t # <<>>,
           Rest(t, Program[c])
    PROVE  /\ Head(t) \in UserSteps
           /\ Len(t) = 1 => Head(t) \in Working
           /\ Head(t) = "checkOrg" => Len(t) # 4
           /\ \A i \in 2..Len(t) :
                /\ t[i] = "addOrg" => Head(t) \notin Working
                /\ t[i] = "addProject" => Head(t) \notin {"infra", "cluster"}
<1> DEFINE p == Program[c]
           n == Len(p) - Len(t)
<1> HIDE DEF p
<1>1. Ordered(p) /\ p \in Seq(UserSteps) /\ Len(p) \in Nat
  BY UserPrograms DEF Ordered, p
<1>2. /\ Len(t) \in Nat \ {0} /\ Head(t) = t[1] /\ n \in Nat
      /\ \A i \in 1..Len(t) : t[i] = p[n + i] /\ n + i \in 1..Len(p)
  BY <1>1 DEF Rest, p
<1>3. Head(t) = p[n + 1] /\ n + 1 \in 1..Len(p)
  BY <1>2
<1>4. Head(t) \in UserSteps
  BY <1>1, <1>3
<1>5. Len(t) = 1 => n + 1 = Len(p)
  BY <1>1, <1>2
<1>6. Len(p) - (n + 1) = Len(t) - 1
  BY <1>1, <1>2
<1> HIDE DEF n
<1>7. ASSUME NEW i \in 2..Len(t)
      PROVE  /\ t[i] = "addOrg" => Head(t) \notin Working
             /\ t[i] = "addProject" => Head(t) \notin {"infra", "cluster"}
  <2>1. t[i] = p[n + i] /\ n + i \in 1..Len(p) /\ n + 1 < n + i
    BY <1>2
  <2> QED BY <1>1, <1>3, <2>1 DEF Ordered
<1>8. Len(t) = 1 => Head(t) \in Working
  BY <1>1, <1>3, <1>5 DEF Ordered
<1>9. Head(t) = "checkOrg" => Len(t) - 1 # 3
  BY <1>1, <1>3, <1>6 DEF Ordered
<1> QED BY <1>2, <1>4, <1>7, <1>8, <1>9

-----------------------------------------------------------------------------
(* Users *)

\* User u has grant g, or it went with its owner.
Has(g, u) == g \in users[u] \/ Gone(g[1])

\* u has all that its list gives, but for what went.
Full(u) ==
    \A j \in DOMAIN Jobs : \A i \in DOMAIN Jobs[j] :
        Jobs[j][i].name = u =>
            \A k \in DOMAIN Jobs[j][i].grants : Has(Jobs[j][i].grants[k], u)

\* A user is being completed.
Midway == InJob /\ job.k > 0

\* Step s is still to come.
Pending(s) == \E i \in 1..Len(todo) : todo[i] = s

\* Of the users that a command made, all but the current one are full, and
\* this one has the grants gone over; an owner added later in the program has
\* none of their grants, so that what counts as gone never comes back.
AllMade ==
    cmd \in UserCommands =>
        /\ \A u \in job.made : Full(u) \/ (Midway /\ u = Current.name)
        /\ Midway =>
             \A m \in 1..(job.k - 1) : Has(Grants[m], Current.name)
        /\ Pending("addOrg") => job.made = {}
        /\ Pending("addProject") => job.made \subseteq {"admin"}

-----------------------------------------------------------------------------
(* The lists of users *)

\* The lists of users, by their names.
LEMMA JobNames ==
    /\ DOMAIN Jobs = {"admin", "infra", "cluster", "example", "e2e", "tenancy"}
    /\ DOMAIN Jobs["admin"] = {1} /\ DOMAIN Jobs["infra"] = {1, 2, 3, 4}
    /\ DOMAIN Jobs["cluster"] = {1, 2} /\ DOMAIN Jobs["example"] = {1, 2, 3}
    /\ DOMAIN Jobs["e2e"] = {1} /\ DOMAIN Jobs["tenancy"] = {1}
    /\ Jobs["admin"][1].name = "admin" /\ Jobs["admin"][1] = AdminUser
    /\ Jobs["infra"][1].name = "api-user"
    /\ Jobs["infra"][2].name = "en-svc-account"
    /\ Jobs["infra"][3].name = "onboarding-user"
    /\ Jobs["infra"][4].name = "service-admin-api-user"
    /\ Jobs["cluster"][1].name = "edge-op"
    /\ Jobs["cluster"][2].name = "edge-mgr"
    /\ Jobs["example"][1].name = "service-admin-example-user"
    /\ Jobs["example"][2].name = "no-groups-example-user"
    /\ Jobs["example"][3].name = "all-groups-example-user"
    /\ Jobs["e2e"][1].name = "e2e-user"
    /\ Jobs["tenancy"][1].name = "tenancy-user"
<1>1. \A n, k, g : User(n, k, g).name = n
  BY DEF User
<1>2. /\ DOMAIN InfraUsers = {1, 2, 3, 4} /\ DOMAIN ClusterUsers = {1, 2}
      /\ DOMAIN ExampleUsers = {1, 2, 3}
  BY DEF InfraUsers, ClusterUsers, ExampleUsers
<1>3. /\ InfraUsers[1].name = "api-user"
      /\ InfraUsers[2].name = "en-svc-account"
      /\ InfraUsers[3].name = "onboarding-user"
      /\ InfraUsers[4].name = "service-admin-api-user"
  BY <1>1 DEF InfraUsers
<1>4. /\ ClusterUsers[1].name = "edge-op"
      /\ ClusterUsers[2].name = "edge-mgr"
  BY <1>1 DEF ClusterUsers
<1>5. /\ ExampleUsers[1].name = "service-admin-example-user"
      /\ ExampleUsers[2].name = "no-groups-example-user"
      /\ ExampleUsers[3].name = "all-groups-example-user"
  BY <1>1 DEF ExampleUsers
<1>6. /\ Jobs["infra"] = InfraUsers /\ Jobs["cluster"] = ClusterUsers
      /\ Jobs["example"] = ExampleUsers /\ Jobs["admin"] = <<AdminUser>>
      /\ Jobs["e2e"] = <<User("e2e-user", FALSE, <<>>)>>
      /\ Jobs["tenancy"] = <<User("tenancy-user", FALSE, <<>>)>>
      /\ DOMAIN Jobs =
           {"admin", "infra", "cluster", "example", "e2e", "tenancy"}
  BY DEF Jobs
<1>7. AdminUser.name = "admin"
  BY <1>1 DEF AdminUser
<1> HIDE DEF User, InfraUsers, ClusterUsers, ExampleUsers, AdminUser
<1>8. /\ Jobs["admin"][1] = AdminUser
      /\ Jobs["e2e"][1].name = "e2e-user"
      /\ Jobs["tenancy"][1].name = "tenancy-user"
  <2>1. Jobs["admin"][1] = AdminUser
    BY <1>6
  <2>2. Jobs["e2e"][1].name = "e2e-user"
    BY <1>6 DEF User
  <2>3. Jobs["tenancy"][1].name = "tenancy-user"
    BY <1>6 DEF User
  <2> QED BY <2>1, <2>2, <2>3
<1>9. /\ DOMAIN Jobs["admin"] = {1} /\ DOMAIN Jobs["e2e"] = {1}
      /\ DOMAIN Jobs["tenancy"] = {1}
  BY <1>6
<1> QED BY <1>2, <1>3, <1>4, <1>5, <1>6, <1>7, <1>8, <1>9

\* No user is listed twice.
LEMMA NamesDiffer ==
    ASSUME NEW j \in DOMAIN Jobs, NEW i \in DOMAIN Jobs[j],
           NEW l \in DOMAIN Jobs, NEW m \in DOMAIN Jobs[l],
           Jobs[j][i].name = Jobs[l][m].name
    PROVE  j = l /\ i = m
<1>1. CASE j = "infra"
  BY <1>1, JobNames
<1>2. CASE j = "example"
  BY <1>2, JobNames
<1>3. CASE j \in {"admin", "cluster", "e2e", "tenancy"}
  BY <1>3, JobNames
<1> QED BY <1>1, <1>2, <1>3, JobNames

\* The project admin has no grant of a project.
LEMMA AdminGrants ==
    \A k \in DOMAIN AdminUser.grants : AdminUser.grants[k][1] # "project"
<1> DEFINE g == <<"org", "Project-Manager-Group">>
<1>0. g[1] = "org" /\ Password[1] = "realm"
  BY DEF Password
<1> HIDE DEF g
<1>1. AdminUser.grants = <<Password>> \o <<g>>
  BY DEF AdminUser, User, g
<1>2. Joins(AdminUser.grants, <<Password>>, <<g>>)
  BY <1>1, Joining, <<Password>> \in Seq({Password, g}),
     <<g>> \in Seq({Password, g})
<1>3. Len(<<Password>>) = 1 /\ Len(<<g>>) = 1 /\ <<g>>[1] = g
  OBVIOUS
<1>4. AdminUser.grants[1] = Password /\ AdminUser.grants[2] = g
      /\ Len(AdminUser.grants) = 2
  BY <1>2, <1>3 DEF Joins
<1>5. DOMAIN AdminUser.grants = 1..2
  BY <1>4, JobNames, JobShape DEF JobShaped, Shaped
<1> QED BY <1>0, <1>4, <1>5

-----------------------------------------------------------------------------
(* Steps *)

\* Where a user command is.
LEMMA UserHead ==
    ASSUME Running, cmd \in UserCommands
    PROVE  /\ Head(todo) \in UserSteps
           /\ InJob <=> Head(todo) \in Working
           /\ Len(todo) = 1 => Head(todo) \in Working
           /\ At("checkOrg") => Len(todo) # 4
           /\ Head(todo) \in Working => ~Pending("addOrg")
           /\ Head(todo) \in {"infra", "cluster"} => ~Pending("addProject")
<1>1. /\ Head(todo) \in UserSteps
      /\ Len(todo) = 1 => Head(todo) \in Working
      /\ Head(todo) = "checkOrg" => Len(todo) # 4
      /\ \A i \in 2..Len(todo) :
           /\ todo[i] = "addOrg" => Head(todo) \notin Working
           /\ todo[i] = "addProject" =>
                Head(todo) \notin {"infra", "cluster"}
  BY UserOrder DEF Running
<1>2. todo # <<>> /\ Head(todo) = todo[1] /\ Len(todo) \in Nat
  BY DEF Running
<1>3. InJob <=> Head(todo) \in Working
  BY <1>1, <1>2, JobNames DEF InJob, UserSteps, Working
<1>4. Head(todo) \in Working => ~Pending("addOrg")
  <2> SUFFICES ASSUME Head(todo) \in Working, NEW i \in 1..Len(todo),
                      todo[i] = "addOrg"
               PROVE  FALSE
    BY DEF Pending
  <2>1. i = 1 \/ i \in 2..Len(todo)
    BY <1>2
  <2> QED BY <1>1, <1>2, <2>1 DEF Working
<1>5. Head(todo) \in {"infra", "cluster"} => ~Pending("addProject")
  <2> SUFFICES ASSUME Head(todo) \in {"infra", "cluster"},
                      NEW i \in 1..Len(todo), todo[i] = "addProject"
               PROVE  FALSE
    BY DEF Pending
  <2>1. i = 1 \/ i \in 2..Len(todo)
    BY <1>2
  <2> QED BY <1>1, <1>2, <2>1
<1> QED BY <1>1, <1>3, <1>4, <1>5 DEF At

\* What is still to come was to come before.
LEMMA PendingRest ==
    ASSUME Running, NEW n \in 1..Len(todo), Advance(n), NEW s, Pending(s)'
    PROVE  Pending(s)
<1>1. CASE Len(todo) = n
  BY <1>1 DEF Advance, AdvanceWith, Return, Pending
<1>2. CASE Len(todo) # n
  <2>0. todo \in Seq(Steps) /\ Len(todo) \in Nat
    BY DEF Running
  <2>1. todo' = SubSeq(todo, n + 1, Len(todo))
    BY <1>2 DEF Advance, AdvanceWith
  <2>2. n + 1 \in 1..Len(todo) /\ n \in Nat
    BY <1>2, <2>0
  <2>3. /\ Len(todo') = Len(todo) - n
        /\ \A i \in 1..Len(todo') : todo'[i] = todo[n + i]
    BY <2>1, <2>0, <2>2, SubSeqProperties
  <2>4. PICK i \in 1..Len(todo') : todo'[i] = s
    BY DEF Pending
  <2>5. todo[n + i] = s /\ n + i \in 1..Len(todo)
    BY <2>3, <2>4 DEF Running
  <2> QED BY <2>5 DEF Pending
<1> QED BY <1>1, <1>2

\* Advancing keeps AllMade if every user made is full.
LEMMA Onward ==
    ASSUME Turn, Running, cmd \in UserCommands, AllMade,
           NEW n \in 1..Len(todo), Advance(n),
           \A u \in job.made : Full(u)'
    PROVE  AllMade'
<1>1. CASE Return(TRUE)
  BY <1>1 DEF Return, AllMade, UserCommands
<1>2. CASE /\ Running' /\ cmd' = cmd
           /\ job' = [NewJob EXCEPT !.made = job.made, !.id = job.id]
  <2>1. job'.made = job.made /\ job'.k = 0
    BY <1>2 DEF NewJob
  <2>2. ~Midway'
    BY <2>1 DEF Midway
  <2>3. \A s : Pending(s)' => Pending(s)
    BY PendingRest
  <2> QED BY <2>1, <2>2, <2>3 DEF AllMade
<1> QED BY <1>1, <1>2, Advances

\* ... and so does going on with the next user.
LEMMA NextMade ==
    ASSUME Turn, InJob, cmd \in UserCommands, AllMade, NEW j, NextUser(j),
           j \in JobType, j.made = job.made, \A u \in job.made : Full(u)'
    PROVE  AllMade'
<1>1. Running /\ todo # <<>> /\ 1 \in 1..Len(todo)
  BY Places DEF Turn, Idle, InJob
<1>2. CASE Within([j EXCEPT !.i = @ + 1, !.k = 0])
  <2>1. job'.made = job.made /\ job'.k = 0 /\ todo' = todo /\ cmd' = cmd
    BY <1>2 DEF Within, JobType
  <2>2. ~Midway'
    BY <2>1 DEF Midway
  <2> QED BY <2>1, <2>2 DEF AllMade, Pending
<1> QED BY <1>1, <1>2, Onward DEF NextUser

\* A user stays full while it keeps its grants and the owners stay.
LEMMA FullStays ==
    ASSUME NEW u, Full(u), users[u] \subseteq users'[u],
           UNCHANGED <<org, project>>
    PROVE  Full(u)'
  BY DEF Full, Has, Gone

\* A user with all the grants of its list is full.
LEMMA FullOfAll ==
    ASSUME NEW j \in DOMAIN Jobs, NEW i \in DOMAIN Jobs[j],
           \A k \in DOMAIN Jobs[j][i].grants :
               Has(Jobs[j][i].grants[k], Jobs[j][i].name)'
    PROVE  Full(Jobs[j][i].name)'
  BY NamesDiffer DEF Full

\* After a grant is given the user has all grants up to it, and with the last
\* one it is full.
LEMMA GiveFull ==
    ASSUME Turn, Types, InJob, cmd \in UserCommands, AllMade,
           job.k \in 1..Len(Grants), Give(Grants[job.k]),
           UNCHANGED <<org, project>>
    PROVE  /\ \A m \in 1..job.k : \A c, gs :
                 c = Current.name /\ gs = Grants => Has(gs[m], c)'
           /\ \A u \in job.made : u = Current.name \/ Full(u)'
           /\ job.k = Len(Grants) => \A u \in job.made : Full(u)'
<1>1. Running /\ job \in JobType
  BY DEF InJob, Turn, Idle, Running
<1>2. PICK j, i, c, gs : /\ j = Head(todo) /\ i = job.i
                         /\ c = Current.name /\ gs = Grants
  OBVIOUS
<1>3. /\ j \in DOMAIN Jobs /\ i \in DOMAIN Jobs[j] /\ Len(gs) \in Nat
      /\ DOMAIN gs = 1..Len(gs) /\ c \in UserNames
      /\ c = Jobs[j][i].name /\ gs = Jobs[j][i].grants
  BY <1>1, <1>2, JobShape, GrantsAreGrantable
     DEF InJob, Turn, Idle, Locals, Grants, Current, JobShaped, Shaped
<1>4. /\ users'[c] = users[c] \cup {gs[job.k]}
      /\ \A u \in UserNames \ {c} : users'[u] = users[u]
  BY <1>2, <1>3 DEF Give, Types
<1>5. \A m \in 1..job.k : Has(gs[m], c)'
  <2>1. \A m \in 1..(job.k - 1) : Has(gs[m], c)
    BY <1>2 DEF AllMade, Midway
  <2>2. \A m \in 1..job.k : m = job.k \/ m \in 1..(job.k - 1)
    BY <1>2
  <2>3. \A m \in 1..job.k : gs[m] \in users'[c] \/ Gone(gs[m][1])
    BY <1>4, <2>1, <2>2 DEF Has
  <2> QED BY <2>3 DEF Has, Gone
<1>6. \A u \in job.made : u = c \/ Full(u)'
  <2>1. \A u \in job.made : u \in UserNames /\ (Full(u) \/ u = c)
    BY <1>1, <1>2 DEF AllMade, JobType
  <2> QED BY <1>4, <2>1, FullStays
<1>7. job.k = Len(Grants) => Full(c)'
  BY <1>2, <1>3, <1>5, FullOfAll
<1> QED BY <1>2, <1>5, <1>6, <1>7

\* Giving a grant keeps AllMade.
LEMMA GiveMade ==
    ASSUME Turn, Types, InJob, cmd \in UserCommands, AllMade,
           job.k \in 1..Len(Grants), Give(Grants[job.k]),
           UNCHANGED <<org, project>>
    PROVE  AllMade'
<1>1. job \in JobType
  BY DEF InJob, Turn, Idle, Running
<1>2. PICK c, gs : c = Current.name /\ gs = Grants
  OBVIOUS
<1>3. CASE job.k < Len(Grants) /\ Within([job EXCEPT !.k = @ + 1])
  <2>1. /\ job'.k = job.k + 1 /\ job'.made = job.made /\ job'.i = job.i
        /\ todo' = todo /\ cmd' = cmd
    BY <1>1, <1>3 DEF Within, JobType
  <2>2. /\ InJob' /\ Current'.name = c /\ Grants' = gs
    BY <1>2, <2>1 DEF InJob, Current, Grants
  <2>3. Midway'
    BY <1>1, <2>1, <2>2 DEF Midway, JobType
  <2>4. \A m \in 1..(job'.k - 1) : Has(gs[m], c)'
    BY <1>1, <1>2, <2>1, GiveFull DEF JobType
  <2>5. \A u \in job'.made : Full(u)' \/ (Midway' /\ u = Current'.name)
    BY <1>2, <2>1, <2>2, <2>3, GiveFull
  <2>6. \A s : Pending(s)' <=> Pending(s)
    BY <2>1 DEF Pending
  <2> QED BY <2>1, <2>2, <2>4, <2>5, <2>6 DEF AllMade
<1>4. CASE job.k = Len(Grants) /\ NextUser(job)
  BY <1>1, <1>4, GiveFull, NextMade
<1>5. Len(Grants) \in Nat
  BY <1>1, JobShape DEF InJob, Turn, Idle, Running, Locals, Grants, Current,
                        JobShaped, Shaped
<1> QED BY <1>3, <1>4, <1>5 DEF Give

\* A step keeps the command, ends it or starts one.
LEMMA CommandStays ==
    ASSUME [Next]_vars
    PROVE  \/ UNCHANGED cmd \/ cmd' = "none"
           \/ \E c \in Commands : \E a \in Args(c) : Start(c, a)
<1> DEFINE Stays == UNCHANGED cmd \/ cmd' = "none"
<1>1. ASSUME NEW n, Advance(n) PROVE Stays
  BY <1>1 DEF Advance, AdvanceWith, Return
<1>2. ASSUME NEW b, Return(b) PROVE Stays
  BY <1>2 DEF Return
<1>3. ASSUME NEW j, Within(j) PROVE Stays
  BY <1>3 DEF Within
<1>4. ASSUME NEW j, NextUser(j) PROVE Stays
  BY <1>1, <1>3, <1>4 DEF NextUser
<1>5. ASSUME NEW b, EndPass(b) PROVE Stays
  BY <1>1, <1>2, <1>3, <1>5 DEF EndPass
<1>6. ASSUME NEW s, NEW f, NEW b, Wait(s, f, b) PROVE Stays
  BY <1>6 DEF Wait, WaitFor, AdvanceWith, Return
<1>7. ASSUME GiveUp \/ \E g : Give(g) PROVE Stays
  BY <1>2, <1>3, <1>4, <1>7 DEF GiveUp, Give
<1>8. ASSUME UNCHANGED command PROVE Stays
  BY <1>8 DEF command
<1> SUFFICES ASSUME ~\E c \in Commands : \E a \in Args(c) : Start(c, a)
             PROVE  Stays
  OBVIOUS
<1> HIDE DEF Stays
<1>9. CASE \/ OrgWatcher \/ OrgIdle \/ OrgActive \/ OrgGone
           \/ ProjectIdle \/ ProjectActive \/ ProjectWatchers
           \/ ProjectGone
  BY <1>6, <1>9 DEF OrgWatcher, OrgIdle, OrgActive, OrgGone,
     ProjectIdle, ProjectActive, ProjectWatchers, ProjectGone
<1>10. CASE \/ CheckOrg \/ AddOrg \/ PutOrg \/ FindOrg \/ DelFolder
            \/ DelOrg \/ AddFolder \/ AddProject \/ PutProject
            \/ FindProject \/ DelProject
  BY <1>1, <1>2, <1>10 DEF CheckOrg, AddOrg, PutOrg, FindOrg, DelFolder,
     DelOrg, AddFolder, AddProject, PutProject, FindProject, DelProject
<1>11. CASE \/ KeycloakLogin \/ ProjectId \/ JoinOrg \/ RemoveUser
            \/ GetUserID \/ ManageRole \/ ManageRoleRetried
  BY <1>1, <1>2, <1>3, <1>5, <1>11 DEF KeycloakLogin, ProjectId, JoinOrg,
     RemoveUser, GetUserID, ManageRole, ManageRoleRetried
<1>12. CASE FindUser \/ CreateUser \/ SetUserPassword \/ GrantNext
  BY <1>2, <1>3, <1>4, <1>7, <1>12
     DEF FindUser, CreateUser, SetUserPassword, GrantNext
<1>13. CASE PasswordStep
  BY <1>1, <1>2, <1>13 DEF PasswordStep, SetSecret, RestartPod, PsqlStarted,
     SelectAdmin, DropCredential, DropAdmin, Bootstrap, Stays
<1>14. CASE CallFails
  BY <1>1, <1>2, <1>3, <1>5, <1>7, <1>14 DEF CallFails
<1>15. CASE Services
  BY <1>8, <1>15 DEF Services, ServeOrg, ServeProject, NoticeDeletion,
     RemoveOrg, RemoveProject, PodUp, process
<1>16. CASE UNCHANGED vars
  BY <1>8, <1>16 DEF vars
<1> QED BY <1>9, <1>10, <1>11, <1>12, <1>13, <1>14, <1>15, <1>16
        DEF Next, Step, PasswordStep, Stays

\* The actions of a user command.
LEMMA UserActions ==
    ASSUME Turn, Running, cmd \in UserCommands, [Next]_vars
    PROVE  \/ CheckOrg \/ AddOrg \/ OrgWatcher \/ OrgIdle \/ AddFolder
           \/ AddProject \/ ProjectIdle \/ KeycloakLogin \/ ProjectId
           \/ FindUser \/ CreateUser \/ SetUserPassword \/ GrantNext
           \/ CallFails \/ Services \/ UNCHANGED vars
<1>1. /\ todo # <<>> /\ Head(todo) \in UserSteps
  BY UserHead DEF Running
<1>2. UserSteps = {"admin", "infra", "cluster", "checkOrg", "addOrg",
                   "orgWatcher", "orgIdle", "login", "addFolder",
                   "addProject", "projectIdle", "projectId"}
  BY DEF UserSteps, Working
<1>3. /\ ~PutOrg /\ ~OrgActive /\ ~FindOrg /\ ~DelFolder /\ ~DelOrg
      /\ ~OrgGone /\ ~PutProject /\ ~ProjectActive /\ ~ProjectWatchers
      /\ ~FindProject /\ ~DelProject /\ ~ProjectGone
  BY <1>1, <1>2 DEF PutOrg, OrgActive, FindOrg, DelFolder, DelOrg, OrgGone,
     PutProject, ProjectActive, ProjectWatchers, FindProject, DelProject,
     ProjectGone, Wait, WaitFor, At
<1>4. /\ ~JoinOrg /\ ~RemoveUser /\ ~GetUserID /\ ~ManageRole
      /\ ~ManageRoleRetried /\ ~PasswordStep
  BY <1>1, <1>2 DEF JoinOrg, RemoveUser, GetUserID, ManageRole,
     ManageRoleRetried, PasswordStep, SetSecret, RestartPod, PsqlStarted,
     SelectAdmin, DropCredential, DropAdmin, Bootstrap, At
<1>5. ~\E c \in Commands : \E a \in Args(c) : Start(c, a)
  <2>1. cmd # "none"
    BY Names DEF Running
  <2> QED BY <2>1 DEF Start, Begin
<1> QED BY <1>3, <1>4, <1>5 DEF Next, Step, PasswordStep

\* Steps that leave users and owners alone keep AllMade.
LEMMA QuietMade ==
    ASSUME Turn, Running, cmd \in UserCommands, AllMade, ~InJob,
           UNCHANGED <<users, org, project>>,
           \/ \E n \in 1..Len(todo) : Advance(n)
           \/ UNCHANGED <<cmd, todo, job>>
    PROVE  AllMade'
<1>1. \A u \in job.made : Full(u)
  BY DEF AllMade, Midway
<1>2. \A u \in job.made : Full(u)'
  BY <1>1, FullStays
<1>3. CASE UNCHANGED <<cmd, todo, job>>
  BY <1>2, <1>3 DEF AllMade, Midway, InJob, Pending
<1> QED BY <1>2, <1>3, Onward

\* Creating a user keeps AllMade: the user is the current one.
LEMMA CreatedMade ==
    ASSUME Turn, Types, Running, cmd \in UserCommands, AllMade, CreateUser,
           cmd' = cmd
    PROVE  AllMade'
<1>1. PICK c : c = Current.name
  OBVIOUS
<1>2. InJob /\ Head(todo) \in Working /\ job.k = 0 /\ job \in JobType
  BY UserHead DEF CreateUser, Running
<1>3. c \in UserNames
  BY <1>1, <1>2, GrantsAreGrantable DEF Turn, Idle, Running, Locals, InJob,
     Current
<1>4. cmd # "none"
  BY Names DEF Running
<1>5. /\ users' = [users EXCEPT ![c] = {Account}]
      /\ Within([job EXCEPT !.k = 1, !.org = Kept(TRUE), !.made = @ \cup {c}])
      /\ UNCHANGED <<org, project>>
  BY <1>1, <1>4 DEF CreateUser, Return, nodes
<1>6. /\ todo' = todo /\ job'.k = 1 /\ job'.i = job.i
      /\ job'.made = job.made \cup {c}
  BY <1>2, <1>5 DEF Within, JobType
<1>7. InJob' /\ Current'.name = c /\ Midway'
  BY <1>1, <1>2, <1>6 DEF InJob, Current, Midway
<1>8. \A u \in job.made : Full(u)' \/ u = c
  <2>1. \A u \in job.made : Full(u) /\ u \in UserNames
    BY <1>2 DEF AllMade, Midway, JobType
  <2>2. \A u \in UserNames \ {c} : users'[u] = users[u]
    BY <1>3, <1>5 DEF Types
  <2> QED BY <1>5, <2>1, <2>2, FullStays
<1>9. Pending("addOrg")' => FALSE
  BY <1>2, <1>6, UserHead DEF Pending
<1>10. Pending("addProject")' => job'.made \subseteq {"admin"}
  <2>1. Pending("addProject")' => Pending("addProject")
    BY <1>6 DEF Pending
  <2>2. Pending("addProject") =>
          Head(todo) = "admin" /\ job.made \subseteq {"admin"}
    BY <1>2, UserHead DEF AllMade, Working
  <2>3. Head(todo) = "admin" => c = "admin"
    BY <1>1, <1>2, JobNames DEF Turn, Idle, Running, Locals, Current
  <2> QED BY <1>6, <2>1, <2>2, <2>3
<1> QED BY <1>6, <1>7, <1>8, <1>9, <1>10 DEF AllMade

\* So does whatever the services do: grants go only with their owner.
LEMMA ServedMade ==
    ASSUME Turn, Types, Running, cmd \in UserCommands, AllMade, Services
    PROVE  AllMade'
<1>1. UNCHANGED <<cmd, todo, job>>
  BY DEF Services, ServeOrg, ServeProject, NoticeDeletion, RemoveOrg,
         RemoveProject, PodUp, process, command
<1>2. ASSUME NEW u, NEW g, Has(g, u), u \in UserNames PROVE Has(g, u)'
  <2>1. CASE ServeOrg \/ ServeProject \/ NoticeDeletion \/ PodUp
    BY <1>2, <2>1 DEF ServeOrg, ServeProject, NoticeDeletion, PodUp, process,
       nodes, InCreation, Has, Gone, Types, NodeType
  <2>2. CASE RemoveOrg \/ RemoveProject
    BY <1>2, <2>2 DEF RemoveOrg, RemoveProject, Withdraw, Absent, Has, Gone
  <2> QED BY <2>1, <2>2 DEF Services
<1>3. \A u \in UserNames : Full(u) => Full(u)'
  BY <1>2 DEF Full
<1>4. PICK c, gs : c = Current.name /\ gs = Grants
  OBVIOUS
<1>5. job.made \subseteq UserNames /\ (InJob => c \in UserNames)
  BY <1>4, GrantsAreGrantable
     DEF Turn, Idle, Running, Locals, JobType, InJob, Current
<1>6. /\ Current'.name = c /\ Grants' = gs /\ (Midway' <=> Midway)
      /\ \A s : Pending(s)' <=> Pending(s)
  BY <1>1, <1>4 DEF Current, Grants, Midway, InJob, Pending
<1>7. \A u \in job'.made : Full(u)' \/ (Midway' /\ u = Current'.name)
  BY <1>1, <1>3, <1>4, <1>5, <1>6 DEF AllMade
<1>8. Midway' => \A m \in 1..(job'.k - 1) : Has(gs[m], c)'
  BY <1>1, <1>2, <1>4, <1>5, <1>6 DEF AllMade, Midway
<1> QED BY <1>1, <1>6, <1>7, <1>8 DEF AllMade

\* AllMade is inductive, with the types and the command's place.
LEMMA AllMadeStep ==
    ASSUME Turn, Types, AllMade, [Next]_vars PROVE AllMade'
<1> SUFFICES ASSUME cmd' \in UserCommands PROVE AllMade'
  BY DEF AllMade
<1>1. CASE \E c \in Commands : \E a \in Args(c) : Start(c, a)
  <2>1. job' = NewJob
    BY <1>1 DEF Start, Begin
  <2>2. job'.made = {} /\ ~Midway'
    BY <2>1 DEF NewJob, Midway
  <2> QED BY <2>2 DEF AllMade
<1>2. CASE UNCHANGED cmd
  <2>1. cmd \in UserCommands /\ cmd # "none"
    BY <1>2 DEF UserCommands
  <2>2. Running /\ todo # <<>> /\ Len(todo) \in Nat \ {0}
    BY <2>1 DEF Turn, Idle, Running
  <2>3. \A b : ~Return(b)
    BY <1>2, <2>1 DEF Return
  <2>4. 1 \in 1..Len(todo) /\ (InJob => ~At("checkOrg"))
    BY <2>2, JobNames DEF InJob, At
  <2>5. CASE /\ ~InJob /\ UNCHANGED <<users, org, project>>
             /\ \/ \E n \in 1..Len(todo) : Advance(n)
                \/ UNCHANGED <<cmd, todo, job>>
    BY <2>1, <2>2, <2>5, QuietMade
  <2>6. CASE CheckOrg
    <3>1. Len(CreateOrg) = 4 /\ Len(todo) >= 4
      BY <2>2, <2>6, Places DEF CreateOrg, CheckOrg
    <3>2. \E n \in 1..Len(todo) : Advance(n)
      BY <2>2, <2>6, <3>1 DEF CheckOrg
    <3> QED BY <2>4, <2>5, <2>6, <3>2 DEF CheckOrg, world, nodes
  <2>7. CASE OrgWatcher \/ OrgIdle \/ ProjectIdle
    <3>1. ASSUME NEW s, NEW f, NEW b, Wait(s, f, b)
          PROVE  /\ UNCHANGED world /\ At(s)
                 /\ Advance(1) \/ UNCHANGED <<cmd, todo, job>>
      BY <2>3, <3>1 DEF Wait, WaitFor, Advance
    <3>2. /\ UNCHANGED world
          /\ At("orgWatcher") \/ At("orgIdle") \/ At("projectIdle")
          /\ Advance(1) \/ UNCHANGED <<cmd, todo, job>>
      BY <2>7, <3>1 DEF OrgWatcher, OrgIdle, ProjectIdle
    <3> QED BY <2>4, <2>5, <3>2, JobNames DEF world, nodes, InJob, At
  <2>8. CASE AddFolder \/ KeycloakLogin \/ ProjectId
    <3>1. /\ Advance(1) /\ UNCHANGED <<users, org, project>>
          /\ At("addFolder") \/ At("login") \/ At("projectId")
      BY <2>3, <2>8 DEF AddFolder, KeycloakLogin, ProjectId, world, nodes
    <3> QED BY <2>4, <2>5, <3>1, JobNames DEF InJob, At
  <2>9. CASE CallFails
    <3>1. CASE InJob
      <4>1. Head(todo) \in Working
        BY <2>1, <2>2, <3>1, UserHead
      <4> QED BY <2>3, <2>9, <3>1, <4>1 DEF CallFails, GiveUp, At, Working
    <3>2. CASE ~InJob
      <4>1. Advance(1) /\ UNCHANGED <<users, org, project>>
        <5>1. ~At("rolesRetried")
          BY <2>1, <2>2, UserHead DEF At, UserSteps, Working
        <5> QED BY <2>3, <2>9, <3>2, <5>1 DEF CallFails, nodes
      <4> QED BY <2>4, <2>5, <3>2, <4>1
    <3> QED BY <3>1, <3>2
  <2>10. CASE AddOrg
    <3>1. Advance(1) /\ At("addOrg")
      BY <2>3, <2>10 DEF AddOrg
    <3>2. Pending("addOrg")
      BY <2>2, <2>4, <3>1 DEF Pending, At, Running
    <3>3. job.made = {}
      BY <2>1, <3>2 DEF AllMade
    <3> QED BY <2>1, <2>2, <2>4, <3>1, <3>3, Onward
  <2>11. CASE AddProject
    <3>1. Advance(1) /\ At("addProject") /\ UNCHANGED <<users, org>>
      BY <2>3, <2>11 DEF AddProject
    <3>2. Pending("addProject") /\ ~Midway
      BY <2>2, <2>4, <3>1, JobNames DEF Pending, At, Running, Midway, InJob
    <3>3. \A u \in job.made : u = "admin" /\ Full(u)
      BY <2>1, <3>2 DEF AllMade
    <3>4. ASSUME Full("admin") PROVE Full("admin")'
      <4>1. ASSUME NEW j \in DOMAIN Jobs, NEW i \in DOMAIN Jobs[j],
                   Jobs[j][i].name = "admin",
                   NEW k \in DOMAIN Jobs[j][i].grants
            PROVE  Has(Jobs[j][i].grants[k], "admin")'
        <5>1. Jobs[j][i] = AdminUser
          BY <4>1, NamesDiffer, JobNames
        <5>2. Jobs[j][i].grants[k][1] # "project"
          BY <4>1, <5>1, AdminGrants
        <5>3. Has(Jobs[j][i].grants[k], "admin")
          BY <3>4, <4>1 DEF Full
        <5> QED BY <3>1, <5>2, <5>3 DEF Has, Gone
      <4> QED BY <4>1 DEF Full
    <3>5. \A u \in job.made : Full(u)'
      BY <3>3, <3>4
    <3> QED BY <2>1, <2>2, <2>4, <3>1, <3>5, Onward
  <2>12. CASE FindUser
    <3> DEFINE j == [job EXCEPT !.org = Kept(FALSE)]
    <3>0. InJob /\ NextUser(j)
      BY <2>3, <2>12 DEF FindUser
    <3>1. ~Midway /\ UNCHANGED <<users, org, project>>
      BY <2>12 DEF FindUser, Midway, world, nodes
    <3>2. j \in JobType /\ j.made = job.made
      BY <2>2 DEF Running, JobType, Kept
    <3>3. \A u \in job.made : Full(u)'
      BY <2>1, <3>1, FullStays DEF AllMade
    <3> HIDE DEF j
    <3> QED BY <2>1, <3>0, <3>2, <3>3, NextMade
  <2>13. CASE CreateUser
    BY <1>2, <2>1, <2>2, <2>13, CreatedMade
  <2>14. CASE SetUserPassword \/ GrantNext
    <3>1. InJob /\ Head(todo) # "example" /\ UNCHANGED <<org, project>>
      BY <2>1, <2>2, <2>14, UserHead
         DEF SetUserPassword, GrantNext, nodes, Working
    <3>2. ~GiveUp
      BY <2>3, <3>1 DEF GiveUp
    <3>3. Len(Grants) \in Nat \ {0} /\ Grants[1] = Password
          /\ job.k \in 0..Len(Grants)
      BY <2>2, <3>1, JobShape DEF Turn, Idle, Running, Locals, InJob, Grants,
         Current, JobShaped, Shaped
    <3>4. job.k \in 1..Len(Grants) /\ Give(Grants[job.k])
      BY <2>14, <3>2, <3>3 DEF SetUserPassword, GrantNext
    <3> QED BY <2>1, <3>1, <3>4, GiveMade
  <2>15. CASE Services
    BY <2>1, <2>2, <2>15, ServedMade
  <2>16. CASE UNCHANGED vars
    <3>1. UNCHANGED <<cmd, todo, job, users, org, project>>
      BY <2>16 DEF vars, world, nodes, command
    <3>2. /\ \A u : Full(u)' <=> Full(u)
          /\ Midway' <=> Midway
          /\ InJob' <=> InJob
      BY <3>1 DEF Full, Has, Gone, Midway, InJob, Current, Grants, Pending
    <3>3. /\ Current' = Current /\ Grants' = Grants
          /\ \A m, u : Has(Grants[m], u)' <=> Has(Grants[m], u)
          /\ Pending("addOrg")' <=> Pending("addOrg")
          /\ Pending("addProject")' <=> Pending("addProject")
      BY <3>1 DEF Has, Gone, Current, Grants, Pending
    <3>4. AllMade
      BY <2>1
    <3> HIDE DEF Full, Has, Midway, Current, Grants, Pending
    <3> QED BY <3>1, <3>2, <3>3, <3>4 DEF AllMade
  <2> QED BY <2>1, <2>2, <2>6, <2>7, <2>8, <2>9, <2>10, <2>11, <2>12, <2>13,
             <2>14, <2>15, <2>16, UserActions
<1> QED BY <1>1, <1>2, CommandStays DEF UserCommands

-----------------------------------------------------------------------------
(* Theorems *)

\* AllMade holds in every state.
THEOREM UsersStayMade == Spec => []AllMade
<1>1. Init => AllMade
  BY DEF Init, AllMade, UserCommands
<1>2. IInv /\ AllMade /\ [Next]_vars => AllMade'
  BY AllMadeStep DEF IInv
<1> QED BY <1>1, <1>2, Inductive, PTL DEF Spec

\* For any number of commands and failing calls, and whatever happens to the
\* organization and the project meanwhile: every user made by a command that
\* reports success has its password, groups and member role
\* (tenant_utils.go:330, 750, 842).
THEOREM MadeUsersAreDone == Spec => MadeUsersAreComplete
<1>1. ASSUME IInv, AllMade, Next, Succeeds, cmd \in UserCommands,
             NEW u \in job.made
      PROVE  Complete(u)'
  <2>1. Turn /\ Types /\ AllMade
    BY <1>1 DEF IInv
  <2>2. Running /\ cmd \notin PasswordCommands /\ job \in JobType
    BY <1>1, <2>1 DEF Succeeds, Turn, Idle, Running, UserCommands,
       PasswordCommands
  <2>3. Len(todo) = 1 \/ (At("checkOrg") /\ Len(todo) = 4)
    <3>1. Head(todo) \in UserSteps
      BY <1>1, <2>2, UserHead
    <3>2. ~At("findOrg") /\ ~At("findProject")
      BY <3>1 DEF At, UserSteps, Working
    <3>3. Len(CreateOrg) = 4
      BY DEF CreateOrg
    <3> QED BY <1>1, <2>1, <2>2, <3>2, <3>3, SucceedsLast
  <2>4. Head(todo) \in Working /\ InJob
    BY <1>1, <2>2, <2>3, UserHead
  <2>5. ~Return(FALSE) /\ ~UNCHANGED cmd
    BY <1>1 DEF Succeeds, Return
  <2>6. ASSUME Full(u)' PROVE Complete(u)'
    <3>1. \A g : Has(g, u)' => g \in users'[u] \/ ~Provided(g[1])'
      BY DEF Has, Gone, Provided, Made
    <3> QED BY <2>6, <3>1 DEF Full, Complete
  <2>7. CASE FindUser
    <3>1. Full(u) /\ UNCHANGED <<users, org, project>>
      BY <1>1, <2>1, <2>7 DEF FindUser, AllMade, Midway, world, nodes
    <3> QED BY <2>6, <3>1, FullStays
  <2>8. CASE SetUserPassword \/ GrantNext
    <3>1. UNCHANGED <<org, project>>
      BY <2>8 DEF SetUserPassword, GrantNext, nodes
    <3>2. ~GiveUp
      BY <2>4, <2>5 DEF GiveUp, Working
    <3>3. /\ Len(Grants) \in Nat \ {0} /\ Grants[1] = Password
          /\ job.k \in 0..Len(Grants)
      BY <2>1, <2>2, <2>4, JobShape DEF Turn, Idle, Running, Locals, InJob,
         Grants, Current, JobShaped, Shaped
    <3>4. job.k \in 1..Len(Grants) /\ Give(Grants[job.k])
      BY <2>8, <3>2, <3>3 DEF SetUserPassword, GrantNext
    <3>5. job.k = Len(Grants)
      BY <2>5, <3>3, <3>4 DEF Give, Within
    <3> QED BY <1>1, <2>1, <2>4, <2>6, <3>1, <3>4, <3>5, GiveFull
  <2>9. ~CreateUser
    BY <2>5 DEF CreateUser, Within
  <2>10. ~CallFails
    <3>1. ~At("checkOrg") /\ ~At("rolesRetried") /\ ~At("findOrg")
          /\ ~At("findProject") /\ ~GiveUp
      BY <2>4, <2>5 DEF At, Working, GiveUp
    <3> QED BY <2>4, <2>5, <3>1 DEF CallFails
  <2>11. ~Services
    BY <2>5 DEF Services, ServeOrg, ServeProject, NoticeDeletion, RemoveOrg,
       RemoveProject, PodUp, process, command
  <2>12. /\ ~CheckOrg /\ ~AddOrg /\ ~OrgWatcher /\ ~OrgIdle /\ ~AddFolder
         /\ ~AddProject /\ ~ProjectIdle /\ ~KeycloakLogin /\ ~ProjectId
    BY <2>4 DEF CheckOrg, AddOrg, OrgWatcher, OrgIdle, AddFolder,
       AddProject, ProjectIdle, KeycloakLogin, ProjectId, Wait, WaitFor, At,
       Working
  <2>13. ~UNCHANGED vars
    BY <2>5 DEF vars, command
  <2> QED BY <1>1, <2>1, <2>2, <2>7, <2>8, <2>9, <2>10, <2>11, <2>12, <2>13,
             UserActions
<1>2. IInv /\ AllMade /\ [Next]_vars
        => [Succeeds /\ cmd \in UserCommands =>
              \A u \in job.made : Complete(u)']_vars
  BY <1>1
<1> QED BY <1>2, Inductive, UsersStayMade, PTL DEF Spec, MadeUsersAreComplete
==============================================================================
