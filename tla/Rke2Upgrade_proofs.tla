------------------------- MODULE Rke2Upgrade_proofs -------------------------
(***************************************************************************)
(* Rke2Upgrade for every list of versions, budget and number of runs: its  *)
(* types, the time a run waits, the versions a node goes through, and that *)
(* the plans of the first run do not overlap.                              *)
(***************************************************************************)
EXTENDS Rke2Upgrade, TLAPS

Loop == {"setup", "plan"} \cup Waits

\* A plan or job that is going to change the version.
Ahead(x) == x \notin {None, ver}

\* The version after the one the node has.
Follows(i) == i = Start(ver) /\ i <= Last

\* Jobs do not meet on the node: the controller sees to it, or there are none
\* of an earlier run.
Orderly == Apart \/ runs <= 1

\* The program does not go beyond the target.
InPath == pc \in Loop => next <= Last

\* There is one job at most, and no stray one in the first run.
OneJob ==
    /\ runs <= 1 => strays = {}
    /\ job # None => strays = {}
    /\ \A x, y \in strays : x = y

\* What is ahead is the next version, and then the program installs it too.
InStep ==
    /\ \A x \in {plan, job} \cup strays :
         Ahead(x) => Follows(Start(ver)) /\ x = Listed[Start(ver)]
    /\ \A x \in {job} \cup strays : Ahead(x) => plan \in {None, x}
    /\ pc \in Loop => Listed[next] = ver \/ Follows(next)
    /\ \A x \in {plan, job} \cup strays :
         pc \in Loop /\ Ahead(x) => Follows(next)
    /\ pc \in {"ready", "taints"} => Listed[next] = ver

Stepwise == Orderly => OneJob /\ InStep

\* Time is spent from the budget, but for the last answer.
Spending ==
    /\ left > 0 => spent + left <= Budget
    /\ spent <= Budget + 1

\* The first run finds no plan and no job; the node is cordoned for its jobs.
FirstRun ==
    /\ runs = 0 => pc = "idle"
    /\ runs <= 1 =>
         /\ cordoned <=> job # None
         /\ pc \in {"idle", "setup"} => plan = None /\ job = None
         /\ pc \in {"setup", "plan"} => Follows(next)
         /\ pc \in {"plan", "cleanup"} => job = None /\ plan \in {None, ver}
         /\ pc \in Waits => plan = Listed[next]
         /\ plan = ver => applied \/ job = plan

IInv == TypeOK /\ InPath /\ Stepwise /\ Spending /\ FirstRun

-----------------------------------------------------------------------------
(* The list of versions *)

\* The positions of the list are 1..Len, each with a version.
LEMMA ListedType ==
    /\ DOMAIN Listed = 1..Len(Listed) /\ Len(Listed) \in Nat
    /\ \A i \in DOMAIN Listed : Listed[i] \in Nat \X Nat
BY Rke2Assumption

\* The least of one.
LEMMA MinOfOne == ASSUME NEW k \in Int PROVE Min({k}) = k
BY DEF Min

\* The greater of two.
LEMMA MaxOfTwo ==
    ASSUME NEW i \in Int, NEW j \in Int
    PROVE  Max({i, j}) = IF i >= j THEN i ELSE j
<1>1. CASE i >= j
  BY <1>1 DEF Max
<1>2. CASE ~(i >= j)
  BY <1>2 DEF Max
<1> QED BY <1>1, <1>2

\* A version is in the list once.
LEMMA ListedOnce ==
    ASSUME NEW k \in DOMAIN Listed PROVE At(Listed[k]) = {k}
<1>1. SUFFICES ASSUME NEW i \in DOMAIN Listed, Listed[i] = Listed[k]
      PROVE  i = k
  BY DEF At
<1>2. \A v \in Nat \X Nat : ~Newer(v, v)
  BY DEF Newer
<1>3. ~(i < k) /\ ~(k < i)
  BY <1>1, <1>2, ListedType, Rke2Assumption
<1> QED BY <1>3, ListedType

\* The path from a listed version begins right behind it.
LEMMA StartOfListed ==
    ASSUME NEW k \in DOMAIN Listed PROVE Start(Listed[k]) = k + 1
BY ListedOnce, MinOfOne, ListedType DEF Start

\* The path ends with the target.
LEMMA LastIsListed == Last \in DOMAIN Listed /\ Listed[Last] = Target
<1>1. PICK k \in DOMAIN Listed : Target = Listed[k]
  BY Rke2Assumption
<1>2. At(Target) = {k}
  BY <1>1, ListedOnce
<1>3. Last = k
  BY <1>2, MinOfOne, ListedType DEF Last
<1> QED BY <1>1, <1>3

\* The first of a minor version in the list is its only one, or the target
\* comes right behind it.
LEMMA FirstOfMinor ==
    ASSUME NEW v \in Nat \X Nat, SameMinor(v) # {}
    PROVE  Min(SameMinor(v)) \in SameMinor(v)
<1>1. PICK i \in SameMinor(v) : TRUE
  OBVIOUS
<1>2. ASSUME NEW m \in SameMinor(v), m - 1 \notin SameMinor(v)
      PROVE  \A k \in SameMinor(v) : m <= k
  <2>1. SUFFICES ASSUME NEW k \in SameMinor(v), k < m PROVE FALSE
    BY ListedType DEF SameMinor
  <2>2. k <= m - 1 /\ m - 1 \in DOMAIN Listed
    BY <2>1, ListedType DEF SameMinor
  <2>3. Listed[k][1] <= Listed[m - 1][1]
    <3>1. k = m - 1 \/ Newer(Listed[m - 1], Listed[k])
      BY <2>2, ListedType, Rke2Assumption DEF SameMinor
    <3> QED BY <3>1, <2>2, ListedType DEF Newer, SameMinor
  <2>4. Listed[m - 1][1] <= Listed[m][1]
    <3>1. Newer(Listed[m], Listed[m - 1])
      BY <2>2, ListedType, Rke2Assumption DEF SameMinor
    <3> QED BY <3>1, <2>2, ListedType DEF Newer, SameMinor
  <2>5. Listed[m - 1][1] = v[1]
    BY <2>2, <2>3, <2>4, ListedType DEF SameMinor
  <2> QED BY <1>2, <2>2, <2>5 DEF SameMinor
<1>3. \E m \in SameMinor(v) : m - 1 \notin SameMinor(v)
  <2>0. i \in Int /\ (i - 1) - 1 = i - 2
    BY <1>1, ListedType DEF SameMinor
  <2>1. SUFFICES ASSUME i - 1 \in SameMinor(v), i - 2 \in SameMinor(v)
        PROVE  FALSE
    BY <1>1, <2>0
  <2>2. Listed[i] = Target /\ Listed[i - 1] = Target
    <3>1. i - 1 \in 1..(Len(Listed) - 1) /\ i - 2 \in 1..(Len(Listed) - 1)
      BY <1>1, <2>1, ListedType DEF SameMinor
    <3>2. (i - 1) + 1 = i /\ (i - 2) + 1 = i - 1
      BY <1>1, ListedType DEF SameMinor
    <3>3. /\ Listed[i - 1][1] = Listed[i][1]
          /\ Listed[i - 2][1] = Listed[i - 1][1]
      BY <1>1, <2>1 DEF SameMinor
    <3> QED BY <3>1, <3>2, <3>3, Rke2Assumption
  <2>3. At(Listed[i]) = {i} /\ At(Listed[i - 1]) = {i - 1}
    BY <1>1, <2>1, ListedOnce DEF SameMinor
  <2>4. {i} = {i - 1}
    BY <2>2, <2>3
  <2>5. i = i - 1
    BY <2>4
  <2> QED BY <2>0, <2>5
<1>4. PICK m \in SameMinor(v) : \A k \in SameMinor(v) : m <= k
  BY <1>2, <1>3
<1> QED BY <1>4 DEF Min

\* The step behind the first of one's own minor version is a supported one,
\* unless one is beyond the target.
LEMMA StepWithinMinor ==
    ASSUME NEW v \in Nat \X Nat, SameMinor(v) # {}, At(v) = {},
           Start(v) <= Last
    PROVE  /\ Start(v) \in DOMAIN Listed
           /\ Supports(v, Listed[Start(v)]) \/ OutOfRange(v)
<1> DEFINE m == Min(SameMinor(v))
<1>1. m \in DOMAIN Listed /\ Listed[m][1] = v[1]
  BY FirstOfMinor DEF SameMinor
<1>2. Start(v) = m + 1
  BY DEF Start
<1>3. m \in 1..(Len(Listed) - 1) /\ m + 1 \in DOMAIN Listed
  BY <1>1, <1>2, LastIsListed, ListedType
<1>4. Supports(Listed[m], Listed[m + 1])
  BY <1>3, Rke2Assumption
<1>5. Listed[m + 1][1] \in {v[1], v[1] + 1}
  BY <1>1, <1>3, <1>4, ListedType DEF Supports, Newer
<1>6. CASE Listed[m + 1][1] = v[1] + 1
  BY <1>2, <1>3, <1>6, ListedType DEF Supports, Newer
<1>7. CASE Listed[m + 1][1] = v[1]
  <2>1. Listed[m + 1] = Target
    BY <1>1, <1>3, <1>7, Rke2Assumption
  <2>2. v # Target
    BY <1>3, <2>1 DEF At
  <2>3. v = <<v[1], v[2]>> /\ Target = <<Target[1], Target[2]>>
    BY <1>3, <2>1, ListedType
  <2>4. Newer(v, Target) \/ Newer(Target, v)
    BY <1>3, <1>7, <2>1, <2>2, <2>3, ListedType DEF Newer
  <2> QED BY <1>2, <1>3, <1>7, <2>1, <2>4, ListedType
          DEF Supports, OutOfRange
<1> QED BY <1>5, <1>6, <1>7

\* From a version of which the list has none the path begins with the first
\* one, a supported step unless one is far before the list or beyond the target.
LEMMA StepIntoList ==
    ASSUME NEW v \in Nat \X Nat, SameMinor(v) = {}, At(v) = {}
    PROVE  /\ Start(v) = 1 /\ 1 \in DOMAIN Listed
           /\ Supports(v, Listed[1]) \/ OutOfRange(v)
<1>1. Start(v) = 1 /\ 1 \in DOMAIN Listed
  BY LastIsListed, ListedType DEF Start
<1>2. Listed[1] \in Nat \X Nat /\ Target \in Nat \X Nat
  BY <1>1, LastIsListed, ListedType
<1>3. SUFFICES ASSUME ~OutOfRange(v) PROVE Supports(v, Listed[1])
  BY <1>1
<1>4. v[1] + 1 >= Listed[1][1] /\ v[1] <= Target[1]
  BY <1>2, <1>3 DEF OutOfRange, Newer
<1>5. SameMinor(<<v[1], 0>>) = {}
  BY DEF SameMinor
<1>6. v[1] \notin Listed[1][1]..Target[1]
  BY <1>5, Rke2Assumption
<1>7. v[1] < Listed[1][1]
  BY <1>2, <1>4, <1>6
<1> QED BY <1>2, <1>4, <1>7 DEF Supports, Newer

\* From every version in the list's range the path begins with a supported
\* step; it never begins with the version one has.
LEMMA FirstStep ==
    ASSUME NEW v \in Versions
    PROVE  /\ Start(v) \in Int
           /\ Start(v) <= Last =>
                /\ Start(v) \in DOMAIN Listed
                /\ Supports(v, Listed[Start(v)]) \/ OutOfRange(v)
                /\ Listed[Start(v)] # v
<1>1. CASE \E k \in DOMAIN Listed : v = Listed[k]
  <2>1. PICK k \in DOMAIN Listed : v = Listed[k]
    BY <1>1
  <2>2. Start(v) = k + 1
    BY <2>1, StartOfListed
  <2>3. ASSUME k + 1 <= Last
        PROVE  k + 1 \in DOMAIN Listed /\ Supports(v, Listed[k + 1])
    <3>1. k \in 1..(Len(Listed) - 1)
      BY <2>3, LastIsListed, ListedType
    <3>2. Supports(Listed[k], Listed[k + 1])
      BY <3>1, Rke2Assumption
    <3> QED BY <3>1, <3>2, <2>1, ListedType
  <2>4. \A w \in Nat \X Nat : ~Supports(w, w)
    BY DEF Supports, Newer
  <2> QED BY <2>1, <2>2, <2>3, <2>4, ListedType
<1>2. CASE ~\E k \in DOMAIN Listed : v = Listed[k]
  <2>1. v \in Nat \X Nat /\ At(v) = {}
    BY <1>2, Rke2Assumption DEF Versions, At
  <2>2. Start(v) \in Int
    BY <2>1, FirstOfMinor, StepIntoList, ListedType DEF Start, SameMinor
  <2>3. ASSUME Start(v) <= Last
        PROVE  /\ Start(v) \in DOMAIN Listed
               /\ Supports(v, Listed[Start(v)]) \/ OutOfRange(v)
    BY <2>1, <2>3, StepWithinMinor, StepIntoList
  <2> QED BY <1>2, <2>2, <2>3
<1> QED BY <1>1, <1>2

\* What is installed is one of the versions.
LEMMA VersionsType == \A k \in DOMAIN Listed : Listed[k] \in Versions
BY DEF Versions

\* None marks that there is no plan or job.
LEMMA NoneIsNoVersion == None \notin Versions
BY Rke2Assumption

-----------------------------------------------------------------------------
(* Types *)

\* The initial states are typed.
LEMMA TypeInit == Init => TypeOK
<1> SUFFICES ASSUME Init PROVE TypeOK
  OBVIOUS
<1>1. Len(Listed) \in Nat /\ 1 \in 1..Len(Listed)
  BY LastIsListed, ListedType
<1>2. Budget \in Nat /\ MaxRuns \in Nat
  BY Rke2Assumption
<1>3. next \in 1..Len(Listed) /\ left \in -1..Budget /\ runs \in 0..MaxRuns
  BY <1>1, <1>2 DEF Init
<1>4. ver \in Versions
  BY DEF Init, Versions
<1> QED BY <1>3, <1>4 DEF Init, TypeOK

\* Each step keeps the types; next stays in the list because of InPath.
LEMMA TypeStep == TypeOK /\ InPath /\ [Next]_vars => TypeOK'
<1> SUFFICES ASSUME TypeOK, InPath, [Next]_vars PROVE TypeOK'
  OBVIOUS
<1>0. Budget \in Nat /\ MaxRuns \in Nat
  BY Rke2Assumption
<1>1. CASE Begin
  BY <1>1, <1>0, FirstStep DEF Begin, TypeOK, Active, program, node, suc
<1>2. CASE CommandFails
  BY <1>2, <1>0 DEF CommandFails, TypeOK, Goto, vars, program, node, suc
<1>3. CASE Setup
  BY <1>3, <1>0 DEF Setup, ReplacePlan, TypeOK, Goto, Active, vars, program,
     node, suc
<1>4. CASE ApplyPlan
  BY <1>4, <1>0, VersionsType, ListedType DEF ApplyPlan, ReplacePlan, TypeOK,
     Goto, Active,
     Waits,
     vars, program, node, suc
<1>5. CASE SeesVersion
  BY <1>5, <1>0 DEF SeesVersion, Elapse, TypeOK, Active, Waits, vars, program,
     node, suc
<1>6. CASE NotYet
  BY <1>6, <1>0 DEF NotYet, Elapse, TypeOK, Active, Waits, vars, program,
     node, suc
<1>7. CASE SeesReady
  BY <1>7, <1>0 DEF SeesReady, TypeOK, Goto, Active, Waits, vars, program,
     node, suc
<1>8. CASE SeesSchedulable
  BY <1>8, <1>0, MaxOfTwo, LastIsListed, ListedType
  DEF SeesSchedulable, NextVersion, Elapse, TypeOK, InPath, Loop, Active,
     Waits, node, suc
<1>9. CASE TimesOut
  BY <1>9, <1>0 DEF TimesOut, TypeOK, Goto, vars, program, node, suc
<1>10. CASE Cleanup
  BY <1>10, <1>0 DEF Cleanup, TypeOK, Goto, vars, program, node, suc
<1>11. CASE StartJob
  BY <1>11, <1>0 DEF StartJob, TypeOK, Goto, vars, program, node, suc
<1>12. CASE Replace
  BY <1>12, <1>0 DEF Replace, TypeOK, Goto, vars, program, node, suc
<1>13. CASE EndJob
  BY <1>13, <1>0 DEF EndJob, TypeOK, Goto, vars, program, node, suc
<1>14. CASE Reports
  BY <1>14, <1>0 DEF Reports, TypeOK, Goto, vars, program, node, suc
<1>15. CASE UNCHANGED vars
  BY <1>15, <1>0 DEF TypeOK, Goto, vars, program, node, suc
<1>16. CASE EndStray
  BY <1>16, <1>0 DEF EndStray, TypeOK, Goto, vars, program, node, suc
<1> QED BY <1>1, <1>2, <1>3, <1>4, <1>5, <1>6, <1>7, <1>8, <1>9, <1>10,
         <1>11, <1>12, <1>13, <1>14, <1>15, <1>16 DEF Next, Program, Cluster

-----------------------------------------------------------------------------
(* The time of a run *)

\* Each step keeps the time left and the time spent within the budget.
LEMMA SpendingStep == TypeOK /\ Spending /\ [Next]_vars => Spending'
<1> SUFFICES ASSUME TypeOK, Spending, [Next]_vars PROVE Spending'
  OBVIOUS
<1>0. Budget \in Nat
  BY Rke2Assumption
<1>1. CASE Begin
  BY <1>1, <1>0 DEF Begin, TypeOK, Spending, Goto, vars, program, node, suc
<1>2. CASE CommandFails
  BY <1>2, <1>0 DEF CommandFails, TypeOK, Spending, Goto, vars, program, node,
     suc
<1>3. CASE Setup
  BY <1>3, <1>0 DEF Setup, ReplacePlan, TypeOK, Spending, Goto, vars, program,
     node, suc
<1>4. CASE ApplyPlan
  BY <1>4, <1>0 DEF ApplyPlan, ReplacePlan, TypeOK, Spending, Goto, vars,
     program, node, suc
<1>5. CASE SeesVersion
  BY <1>5, <1>0 DEF SeesVersion, Elapse, TypeOK, Spending
<1>6. CASE NotYet
  BY <1>6, <1>0 DEF NotYet, Elapse, TypeOK, Spending
<1>7. CASE SeesReady
  BY <1>7, <1>0 DEF SeesReady, TypeOK, Spending, Goto, vars, program, node, suc
<1>8. CASE SeesSchedulable
  BY <1>8, <1>0, MaxOfTwo DEF SeesSchedulable, NextVersion, Elapse, TypeOK,
     Spending
<1>9. CASE TimesOut
  BY <1>9, <1>0 DEF TimesOut, TypeOK, Spending, Goto, vars, program, node, suc
<1>10. CASE Cleanup
  BY <1>10, <1>0 DEF Cleanup, TypeOK, Spending, Goto, vars, program, node, suc
<1>11. CASE StartJob
  BY <1>11, <1>0 DEF StartJob, TypeOK, Spending, Goto, vars, program, node, suc
<1>12. CASE Replace
  BY <1>12, <1>0 DEF Replace, TypeOK, Spending, Goto, vars, program, node, suc
<1>13. CASE EndJob
  BY <1>13, <1>0 DEF EndJob, TypeOK, Spending, Goto, vars, program, node, suc
<1>14. CASE Reports
  BY <1>14, <1>0 DEF Reports, TypeOK, Spending, Goto, vars, program, node, suc
<1>15. CASE UNCHANGED vars
  BY <1>15, <1>0 DEF TypeOK, Spending, Goto, vars, program, node, suc
<1>16. CASE EndStray
  BY <1>16, <1>0 DEF EndStray, TypeOK, Spending, Goto, vars, program, node, suc
<1> QED BY <1>1, <1>2, <1>3, <1>4, <1>5, <1>6, <1>7, <1>8, <1>9, <1>10,
         <1>11, <1>12, <1>13, <1>14, <1>15, <1>16 DEF Next, Program, Cluster

-----------------------------------------------------------------------------
(* The versions of the node *)

\* At the beginning nothing is ahead.
LEMMA StepwiseInit == Init => InPath /\ Stepwise
BY DEF Init, InPath, Stepwise, OneJob, InStep, Ahead, Loop, Waits

\* Each step keeps the program within its path.
LEMMA InPathStep == TypeOK /\ InPath /\ [Next]_vars => InPath'
<1> SUFFICES ASSUME TypeOK, InPath, [Next]_vars PROVE InPath'
  OBVIOUS
<1>1. CASE Begin
  BY <1>1 DEF Begin, program, node, suc, Goto, TypeOK, InPath, Loop, Waits
<1>2. CASE CommandFails
  BY <1>2 DEF CommandFails, program, node, suc, Goto, TypeOK, InPath, Loop,
     Waits
<1>3. CASE Setup
  BY <1>3 DEF Setup, ReplacePlan, program, node, suc, Goto, TypeOK, InPath,
     Loop, Waits
<1>4. CASE ApplyPlan
  BY <1>4 DEF ApplyPlan, ReplacePlan, program, node, suc, Goto, TypeOK,
     InPath, Loop, Waits
<1>5. CASE SeesVersion
  BY <1>5 DEF SeesVersion, program, node, suc, Goto, TypeOK, InPath, Loop, Waits
<1>6. CASE NotYet
  BY <1>6 DEF NotYet, program, node, suc, Goto, TypeOK, InPath, Loop, Waits
<1>7. CASE SeesReady
  BY <1>7 DEF SeesReady, program, node, suc, Goto, TypeOK, InPath, Loop, Waits
<1>8. CASE SeesSchedulable
  <2>1. next <= Last /\ next \in Int
    BY <1>8 DEF SeesSchedulable, InPath, Loop, Waits, TypeOK
  <2>2. next # Last => next + 1 <= Last
    BY <2>1, LastIsListed, ListedType
  <2> QED BY <1>8, <2>1, <2>2 DEF SeesSchedulable, NextVersion, InPath, Loop,
             Waits
<1>9. CASE TimesOut
  BY <1>9 DEF TimesOut, program, node, suc, Goto, TypeOK, InPath, Loop, Waits
<1>10. CASE Cleanup
  BY <1>10 DEF Cleanup, program, node, suc, Goto, TypeOK, InPath, Loop, Waits
<1>11. CASE StartJob
  BY <1>11 DEF StartJob, program, node, suc, Goto, TypeOK, InPath, Loop, Waits
<1>12. CASE Replace
  BY <1>12 DEF Replace, program, node, suc, Goto, TypeOK, InPath, Loop, Waits
<1>13. CASE EndJob
  BY <1>13 DEF EndJob, program, node, suc, Goto, TypeOK, InPath, Loop, Waits
<1>14. CASE EndStray
  BY <1>14 DEF EndStray, program, node, suc, Goto, TypeOK, InPath, Loop, Waits
<1>15. CASE Reports
  BY <1>15 DEF Reports, program, node, suc, Goto, TypeOK, InPath, Loop, Waits
<1>16. CASE UNCHANGED vars
  BY <1>16 DEF vars, program, node, suc, Goto, TypeOK, InPath, Loop, Waits
<1> QED BY <1>1, <1>2, <1>3, <1>4, <1>5, <1>6, <1>7, <1>8, <1>9, <1>10, <1>11,
           <1>12, <1>13, <1>14, <1>15, <1>16
     DEF Next, Program, Cluster

\* Runs only become more, so what is orderly was so before.
LEMMA OrderlyStep == TypeOK /\ [Next]_vars /\ Orderly' => Orderly
<1> SUFFICES ASSUME TypeOK, [Next]_vars PROVE runs' \in {runs, runs + 1}
  BY Rke2Assumption DEF Orderly, TypeOK
<1>0. MaxRuns \in Nat
  BY Rke2Assumption
<1>1. CASE Begin
  BY <1>1, <1>0 DEF Begin, program, node, suc, Goto, TypeOK
<1>2. CASE CommandFails
  BY <1>2, <1>0 DEF CommandFails, program, node, suc, Goto, TypeOK
<1>3. CASE Setup
  BY <1>3, <1>0 DEF Setup, ReplacePlan, program, node, suc, Goto, TypeOK
<1>4. CASE ApplyPlan
  BY <1>4, <1>0 DEF ApplyPlan, ReplacePlan, program, node, suc, Goto, TypeOK
<1>5. CASE SeesVersion
  BY <1>5, <1>0 DEF SeesVersion, program, node, suc, Goto, TypeOK
<1>6. CASE NotYet
  BY <1>6, <1>0 DEF NotYet, program, node, suc, Goto, TypeOK
<1>7. CASE SeesReady
  BY <1>7, <1>0 DEF SeesReady, program, node, suc, Goto, TypeOK
<1>8. CASE SeesSchedulable
  BY <1>8, <1>0 DEF SeesSchedulable, NextVersion, program, node, suc, Goto,
     TypeOK
<1>9. CASE TimesOut
  BY <1>9, <1>0 DEF TimesOut, program, node, suc, Goto, TypeOK
<1>10. CASE Cleanup
  BY <1>10, <1>0 DEF Cleanup, program, node, suc, Goto, TypeOK
<1>11. CASE StartJob
  BY <1>11, <1>0 DEF StartJob, program, node, suc, Goto, TypeOK
<1>12. CASE Replace
  BY <1>12, <1>0 DEF Replace, program, node, suc, Goto, TypeOK
<1>13. CASE EndJob
  BY <1>13, <1>0 DEF EndJob, program, node, suc, Goto, TypeOK
<1>14. CASE EndStray
  BY <1>14, <1>0 DEF EndStray, program, node, suc, Goto, TypeOK
<1>15. CASE Reports
  BY <1>15, <1>0 DEF Reports, program, node, suc, Goto, TypeOK
<1>16. CASE UNCHANGED vars
  BY <1>16, <1>0 DEF vars, program, node, suc, Goto, TypeOK
<1> QED BY <1>1, <1>2, <1>3, <1>4, <1>5, <1>6, <1>7, <1>8, <1>9, <1>10, <1>11,
           <1>12, <1>13, <1>14, <1>15, <1>16
     DEF Next, Program, Cluster

\* Each step leaves at most one job.
LEMMA OneJobStep ==
    TypeOK /\ Orderly /\ OneJob /\ FirstRun /\ [Next]_vars => OneJob'
<1> SUFFICES ASSUME TypeOK, Orderly, OneJob, FirstRun, [Next]_vars
             PROVE  OneJob'
  OBVIOUS
<1>0. MaxRuns \in Nat
  BY Rke2Assumption
<1>1. CASE Begin
  BY <1>1, <1>0 DEF Begin, program, node, suc, Goto, TypeOK,
     Orderly, OneJob, FirstRun
<1>2. CASE CommandFails
  BY <1>2, <1>0 DEF CommandFails, program, node, suc, Goto, TypeOK,
     Orderly, OneJob, FirstRun
<1>3. CASE Setup
  BY <1>3, <1>0 DEF Setup, ReplacePlan, program, node, suc, Goto, TypeOK,
     Orderly, OneJob, FirstRun
<1>4. CASE ApplyPlan
  BY <1>4, <1>0 DEF ApplyPlan, ReplacePlan, program, node, suc, Goto, TypeOK,
     Orderly, OneJob, FirstRun
<1>5. CASE SeesVersion
  BY <1>5, <1>0 DEF SeesVersion, program, node, suc, Goto, TypeOK,
     Orderly, OneJob, FirstRun
<1>6. CASE NotYet
  BY <1>6, <1>0 DEF NotYet, program, node, suc, Goto, TypeOK,
     Orderly, OneJob, FirstRun
<1>7. CASE SeesReady
  BY <1>7, <1>0 DEF SeesReady, program, node, suc, Goto, TypeOK,
     Orderly, OneJob, FirstRun
<1>8. CASE SeesSchedulable
  BY <1>8, <1>0 DEF SeesSchedulable, NextVersion, program, node, suc, Goto,
     TypeOK,
     Orderly, OneJob, FirstRun
<1>9. CASE TimesOut
  BY <1>9, <1>0 DEF TimesOut, program, node, suc, Goto, TypeOK,
     Orderly, OneJob, FirstRun
<1>10. CASE Cleanup
  BY <1>10, <1>0 DEF Cleanup, program, node, suc, Goto, TypeOK,
     Orderly, OneJob, FirstRun
<1>11. CASE StartJob
  BY <1>11, <1>0 DEF StartJob, program, node, suc, Goto, TypeOK,
     Orderly, OneJob, FirstRun
<1>12. CASE Replace
  BY <1>12, <1>0 DEF Replace, program, node, suc, Goto, TypeOK,
     Orderly, OneJob, FirstRun
<1>13. CASE EndJob
  BY <1>13, <1>0 DEF EndJob, program, node, suc, Goto, TypeOK,
     Orderly, OneJob, FirstRun
<1>14. CASE EndStray
  BY <1>14, <1>0 DEF EndStray, program, node, suc, Goto, TypeOK,
     Orderly, OneJob, FirstRun
<1>15. CASE Reports
  BY <1>15, <1>0 DEF Reports, program, node, suc, Goto, TypeOK,
     Orderly, OneJob, FirstRun
<1>16. CASE UNCHANGED vars
  BY <1>16, <1>0 DEF vars, program, node, suc, Goto, TypeOK,
     Orderly, OneJob, FirstRun
<1> QED BY <1>1, <1>2, <1>3, <1>4, <1>5, <1>6, <1>7, <1>8, <1>9, <1>10, <1>11,
           <1>12, <1>13, <1>14, <1>15, <1>16
     DEF Next, Program, Cluster

\* Each step keeps plan, jobs and position together.
LEMMA InStepStep ==
    TypeOK /\ InPath /\ OneJob /\ InStep /\ [Next]_vars => InStep'
<1> SUFFICES ASSUME TypeOK, InPath, OneJob, InStep, [Next]_vars PROVE InStep'
  OBVIOUS
<1>0. /\ None # ver
      /\ Start(ver) \in Int
      /\ Start(ver) <= Last => Listed[Start(ver)] # ver
  BY FirstStep, NoneIsNoVersion DEF TypeOK
<1>1. CASE Begin
  BY <1>1, <1>0 DEF Begin, program, node, suc, Goto, TypeOK,
     InStep, Ahead, Follows, Loop, Waits
<1>2. CASE CommandFails
  BY <1>2, <1>0 DEF CommandFails, program, node, suc, Goto, TypeOK,
     InStep, Ahead, Follows, Loop, Waits
<1>3. CASE Setup
  BY <1>3, <1>0 DEF Setup, ReplacePlan, program, node, suc, Goto, TypeOK,
     InStep, Ahead, Follows, Loop, Waits
<1>4. CASE ApplyPlan
  BY <1>4, <1>0 DEF ApplyPlan, ReplacePlan, program, node, suc, Goto, TypeOK,
     InStep, Ahead, Follows, Loop, Waits
<1>5. CASE SeesVersion
  BY <1>5, <1>0 DEF SeesVersion, program, node, suc, Goto, TypeOK,
     InStep, Ahead, Follows, Loop, Waits
<1>6. CASE NotYet
  BY <1>6, <1>0 DEF NotYet, program, node, suc, Goto, TypeOK,
     InStep, Ahead, Follows, Loop, Waits
<1>7. CASE SeesReady
  BY <1>7, <1>0 DEF SeesReady, program, node, suc, Goto, TypeOK,
     InStep, Ahead, Follows, Loop, Waits
<1>8. CASE SeesSchedulable
  <2>1. next \in DOMAIN Listed /\ ver = Listed[next] /\ Start(ver) = next + 1
    BY <1>8, ListedType, StartOfListed DEF SeesSchedulable, TypeOK, InStep
  <2>2. \A x \in {plan, job} \cup strays : ~Ahead(x)
    BY <1>8, <2>1, ListedType DEF SeesSchedulable, TypeOK, InStep, Follows,
       Loop, Waits
  <2>3. next # Last => next + 1 <= Last
    BY <1>8, <2>1, LastIsListed, ListedType DEF SeesSchedulable, InPath, Loop,
       Waits
  <2> QED BY <1>8, <1>0, <2>1, <2>2, <2>3
          DEF SeesSchedulable, NextVersion, node, suc, InStep, Ahead, Follows,
             Loop, Waits
<1>9. CASE TimesOut
  BY <1>9, <1>0 DEF TimesOut, program, node, suc, Goto, TypeOK,
     InStep, Ahead, Follows, Loop, Waits
<1>10. CASE Cleanup
  BY <1>10, <1>0 DEF Cleanup, program, node, suc, Goto, TypeOK,
     InStep, Ahead, Follows, Loop, Waits
<1>11. CASE StartJob
  BY <1>11, <1>0 DEF StartJob, program, node, suc, Goto, TypeOK,
     InStep, Ahead, Follows, Loop, Waits
<1>12. CASE Replace
  <2>1. PICK x \in ({job} \cup strays) \ {None, ver} : ver' = x
    BY <1>12 DEF Replace
  <2>2. /\ Ahead(x) /\ x = Listed[Start(ver)] /\ Start(ver) <= Last
        /\ plan \in {None, x}
    BY <2>1 DEF InStep, Ahead, Follows
  <2>3. \A y \in {job} \cup strays : y \in {None, x}
    BY <2>1 DEF OneJob
  <2>4. pc \in Loop => next = Start(ver)
    BY <2>1, <2>2 DEF InStep, Follows
  <2>5. pc \notin {"ready", "taints"}
    BY <2>2, <2>4, <1>0 DEF InStep, Loop, Waits
  <2>6. /\ pc' = pc /\ next' = next /\ plan' = plan /\ job' = job
        /\ strays' = strays
    BY <1>12 DEF Replace, program, suc
  <2>7. \A y \in {plan, job} \cup strays : y \in {None, ver'}
    BY <2>1, <2>2, <2>3
  <2> QED BY <2>1, <2>2, <2>4, <2>5, <2>6, <2>7 DEF InStep, Ahead
<1>13. CASE EndJob
  BY <1>13, <1>0 DEF EndJob, program, node, suc, Goto, TypeOK,
     InStep, Ahead, Follows, Loop, Waits
<1>14. CASE EndStray
  BY <1>14, <1>0 DEF EndStray, program, node, suc, Goto, TypeOK,
     InStep, Ahead, Follows, Loop, Waits
<1>15. CASE Reports
  BY <1>15, <1>0 DEF Reports, program, node, suc, Goto, TypeOK,
     InStep, Ahead, Follows, Loop, Waits
<1>16. CASE UNCHANGED vars
  BY <1>16, <1>0 DEF vars, program, node, suc, Goto, TypeOK,
     InStep, Ahead, Follows, Loop, Waits
<1> QED BY <1>1, <1>2, <1>3, <1>4, <1>5, <1>6, <1>7, <1>8, <1>9, <1>10, <1>11,
           <1>12, <1>13, <1>14, <1>15, <1>16
     DEF Next, Program, Cluster

\* In orderly runs each step keeps to the path.
LEMMA StepwiseStep ==
    TypeOK /\ InPath /\ FirstRun /\ Stepwise /\ [Next]_vars => Stepwise'
BY OrderlyStep, OneJobStep, InStepStep DEF Stepwise

-----------------------------------------------------------------------------
(* The plans of the first run *)

\* At the beginning there is no plan and no job.
LEMMA FirstRunInit == Init => FirstRun
BY NoneIsNoVersion DEF Init, FirstRun, Waits

\* Each step of the first run keeps plan, job and taint together.
LEMMA FirstRunStep ==
    TypeOK /\ InPath /\ Stepwise /\ FirstRun /\ [Next]_vars => FirstRun'
<1> SUFFICES ASSUME TypeOK, InPath, Stepwise, FirstRun, [Next]_vars
             PROVE  FirstRun'
  OBVIOUS
<1>0. /\ None # ver
      /\ runs <= 1 => strays = {} /\ InStep
      /\ Start(ver) \in Int
      /\ Start(ver) <= Last => Listed[Start(ver)] # ver
  BY FirstStep, NoneIsNoVersion DEF TypeOK, Stepwise, Orderly, OneJob
<1>1. CASE Begin
  BY <1>1, <1>0 DEF Begin, vars, program, node, suc, Goto, TypeOK,
     FirstRun, Follows, Waits
<1>2. CASE CommandFails
  BY <1>2, <1>0 DEF CommandFails, vars, program, node, suc, Goto, TypeOK,
     FirstRun, Follows, Waits
<1>3. CASE Setup
  BY <1>3, <1>0 DEF Setup, ReplacePlan, vars, program, node, suc, Goto, TypeOK,
     FirstRun, Follows, Waits
<1>4. CASE ApplyPlan
  BY <1>4, <1>0 DEF ApplyPlan, ReplacePlan, vars, program, node, suc, Goto,
     TypeOK,
     FirstRun, Follows, Waits
<1>5. CASE SeesVersion
  BY <1>5, <1>0 DEF SeesVersion, vars, program, node, suc, Goto, TypeOK,
     FirstRun, Follows, Waits
<1>6. CASE NotYet
  BY <1>6, <1>0 DEF NotYet, vars, program, node, suc, Goto, TypeOK,
     FirstRun, Follows, Waits
<1>7. CASE SeesReady
  BY <1>7, <1>0 DEF SeesReady, vars, program, node, suc, Goto, TypeOK,
     FirstRun, Follows, Waits
<1>8. CASE SeesSchedulable
  <2>1. runs <= 1 => Start(ver) = next + 1 /\ Listed[next] = ver
    BY <1>8, <1>0, ListedType, StartOfListed DEF SeesSchedulable, TypeOK,
       InStep
  <2>2. next <= Last
    BY <1>8 DEF SeesSchedulable, InPath, Loop, Waits
  <2> QED BY <1>8, <1>0, <2>1, <2>2, LastIsListed, ListedType
          DEF SeesSchedulable, NextVersion, node, suc, TypeOK, FirstRun,
             Follows, Waits
<1>9. CASE TimesOut
  BY <1>9, <1>0 DEF TimesOut, vars, program, node, suc, Goto, TypeOK,
     FirstRun, Follows, Waits
<1>10. CASE Cleanup
  BY <1>10, <1>0 DEF Cleanup, vars, program, node, suc, Goto, TypeOK,
     FirstRun, Follows, Waits
<1>11. CASE StartJob
  BY <1>11, <1>0 DEF StartJob, vars, program, node, suc, Goto, TypeOK,
     FirstRun, Follows, Waits
<1>12. CASE Replace
  BY <1>12, <1>0 DEF Replace, vars, program, node, suc, Goto, TypeOK,
     FirstRun, Follows, Waits
<1>13. CASE EndJob
  BY <1>13, <1>0 DEF EndJob, vars, program, node, suc, Goto, TypeOK,
     FirstRun, Follows, Waits
<1>14. CASE Reports
  BY <1>14, <1>0 DEF Reports, vars, program, node, suc, Goto, TypeOK,
     FirstRun, Follows, Waits
<1>15. CASE UNCHANGED vars
  BY <1>15, <1>0 DEF vars, program, node, suc, Goto, TypeOK,
     FirstRun, Follows, Waits
<1>16. CASE EndStray
  BY <1>16, <1>0 DEF EndStray, vars, program, node, suc, Goto, TypeOK,
     FirstRun, Follows, Waits
<1> QED BY <1>1, <1>2, <1>3, <1>4, <1>5, <1>6, <1>7, <1>8, <1>9, <1>10,
         <1>11, <1>12, <1>13, <1>14, <1>15, <1>16 DEF Next, Program, Cluster

-----------------------------------------------------------------------------
(* The theorems *)

\* The invariant holds in every reachable state.
THEOREM Inductive == Spec => []IInv
<1>1. Init => IInv
  <2>1. Init => Spending
    BY Rke2Assumption DEF Init, Spending
  <2> QED BY <2>1, TypeInit, StepwiseInit, FirstRunInit DEF IInv
<1>2. IInv /\ [Next]_vars => IInv'
  BY TypeStep, InPathStep, StepwiseStep, SpendingStep, FirstRunStep DEF IInv
<1> QED BY <1>1, <1>2, PTL DEF Spec

\* The positions, the times and what the cluster shows keep their types, for
\* every list of versions, budget and number of runs.
THEOREM TypeCorrect == Spec => []TypeOK
<1>1. IInv => TypeOK
  BY DEF IInv
<1> QED BY <1>1, Inductive, PTL

\* A run of any length of path waits no longer than the budget: the time left
\* and the time spent add up to it (UntilItSucceeds, setDeploymentTimeout).
THEOREM BudgetIsKept == Spec => []WaitsWithinBudget
<1>1. IInv => WaitsWithinBudget
  BY DEF IInv, Spending, WaitsWithinBudget
<1> QED BY <1>1, Inductive, PTL

\* Only Replace changes the version, to the one the invariant says is next; a
\* job that outlives its run is for the version the next run starts with, or
\* has done its work.  The node may have had any version before.
THEOREM NodeIsUpgradedStepwise == Spec => UpgradesStepwise
<1>1. IInv /\ [Next]_vars
        => [ver' # ver /\ (Apart \/ runs = 1)
              => Supports(ver, ver') \/ OutOfRange(ver)]_vars
  <2> SUFFICES ASSUME IInv, Next, ver' # ver, Apart \/ runs = 1
               PROVE  Supports(ver, ver') \/ OutOfRange(ver)
    BY DEF vars, node
  <2>1. Replace
    BY DEF Next, Program, Cluster, Begin, CommandFails, Setup, ApplyPlan,
       SeesVersion, NotYet, SeesReady, SeesSchedulable, NextVersion, TimesOut,
       Cleanup, StartJob, EndJob, EndStray, Reports, Goto, node
  <2>2. Orderly
    BY Rke2Assumption DEF Orderly
  <2>3. Start(ver) <= Last /\ ver' = Listed[Start(ver)]
    BY <2>1, <2>2 DEF Replace, IInv, Stepwise, InStep, Ahead, Follows
  <2> QED BY <2>3, FirstStep DEF IInv, TypeOK
<1> QED BY <1>1, Inductive, PTL DEF Spec, UpgradesStepwise

\* In the first run the program waits for the version, the condition and the
\* taint before it applies the next Plan, so no job runs then.
THEOREM PlansDoNotOverlap == Spec => OneUpgradeAtATime
<1>1. IInv /\ [Next]_vars
        => [plan' \notin {plan, None} /\ runs = 1
              => job = None /\ ~cordoned]_vars
  <2> SUFFICES ASSUME IInv, Next, plan' \notin {plan, None}, runs = 1
               PROVE  job = None /\ ~cordoned
    BY DEF vars, suc
  <2>1. ApplyPlan
    BY DEF Next, Program, Cluster, Begin, CommandFails, Setup, ReplacePlan,
       SeesVersion, NotYet, SeesReady, SeesSchedulable, NextVersion, TimesOut,
       Cleanup, StartJob, Replace, EndJob, EndStray, Reports, Goto, suc
  <2> QED BY <2>1 DEF ApplyPlan, ReplacePlan, IInv, FirstRun
<1> QED BY <1>1, Inductive, PTL DEF Spec, OneUpgradeAtATime

=============================================================================
