------------------------ MODULE OnpremUpgrade_proofs ------------------------
(***************************************************************************)
(* Proofs about OnpremUpgrade, for every set of databases and of held      *)
(* secrets and any number of failures and reruns.                          *)
(***************************************************************************)
EXTENDS OnpremUpgrade, TLAPS

\* What a failure does to the script's own variables.
LEMMA FaultEffect ==
    ASSUME Fault
    PROVE  /\ pc' = "idle" /\ todo' = {} /\ want' = 0
           /\ faults < MaxFaults /\ faults' = faults + 1
BY DEF Fault

\* Every step of a loop either visits one item or moves to the next step.
LEMMA VisitedEffect ==
    ASSUME NEW x, NEW next, NEW items, Visited(x, next, items)
    PROVE  /\ want' = want /\ faults' = faults
           /\ \/ todo = {x} /\ pc' = next /\ todo' = items
              \/ todo # {x} /\ pc' = pc /\ todo' = todo \ {x}
BY DEF Visited, Loop

-----------------------------------------------------------------------------
\* Type correctness: the script's steps, its files and the cluster's secrets
\* stay within their types in every run.
THEOREM TypeCorrect == Spec => []TypeOK
<1>1. Init => TypeOK
  BY UpgradeAssumption DEF Init, TypeOK, AllOf, Pw, Absent, Original, Steps,
     DumpStates
<1>2. TypeOK /\ [Next]_vars => TypeOK'
  <2> SUFFICES ASSUME TypeOK, [Next]_vars PROVE TypeOK'
    OBVIOUS
  <2> USE UpgradeAssumption DEF TypeOK, Steps, Absent, Original
  <2>1. CASE Progress
    <3>1. CASE Start \/ SaveSuperuserSecret \/ BackupPostgres \/ FilterDump
               \/ UpgradePackages
      BY <3>1 DEF Start, SaveSuperuserSecret, BackupPostgres, FilterDump,
         UpgradePackages, Goto, At, DumpStates, files, passwords, others
    <3>2. CASE CapturePasswords
      BY <3>2 DEF CapturePasswords, Loop, passwords, others
    <3>3. ASSUME NEW s \in Held, HoldSecret(s) PROVE TypeOK'
      <4>1. /\ pc' \in Steps /\ todo' \subseteq Dbs
            /\ UNCHANGED <<want, faults>>
        BY <3>3, VisitedEffect DEF HoldSecret, At
      <4>2. heldFile' \in [Held -> {"absent", "empty", "saved"}]
        BY <3>3 DEF HoldSecret
      <4>3. held' \in [Held -> BOOLEAN]
        BY <3>3 DEF HoldSecret
      <4> QED
        BY <3>3, <4>1, <4>2, <4>3 DEF HoldSecret, passwords
    <3>4. ASSUME NEW s \in Held, ReapplySecret(s) PROVE TypeOK'
      <4>1. pc' \in Steps /\ todo' \subseteq Dbs
        BY <3>4, VisitedEffect DEF ReapplySecret, At
      <4>2. held' \in [Held -> BOOLEAN]
        BY <3>4 DEF ReapplySecret
      <4>3. conn' \in [Held -> Pw]
        BY <3>4 DEF ReapplySecret, Pw
      <4> QED
        BY <3>4, <4>1, <4>2, <4>3, VisitedEffect DEF ReapplySecret, files,
           passwords
    <3>12. ASSUME NEW s \in Held, PatchConnection(s) PROVE TypeOK'
      <4>1. conn' \in [Held -> Pw]
        BY <3>12 DEF PatchConnection
      <4> QED
        BY <3>12, <4>1, VisitedEffect DEF PatchConnection, At, Goto, files,
           passwords
    <3>5. CASE UpgradeOrchInstaller \/ WaitReaderSecret \/ WaitSecretsApp
               \/ EndSleep \/ SkipPatchDb \/ ApplySuperuserSecret
      BY <3>5 DEF UpgradeOrchInstaller, WaitReaderSecret, WaitSecretsApp,
         EndSleep, SkipPatchDb, ApplySuperuserSecret, Goto, Loop, files,
         passwords, others
    <3>6. CASE DeletePostgres
      <4>1. (gen % Gens) + 1 \in 0..Gens
        BY DEF Pw
      <4> QED
        BY <3>6, <4>1 DEF DeletePostgres, Goto, files, passwords, others
    <3>7. ASSUME NEW k \in Dbs, AwaitSecret(k) PROVE TypeOK'
      BY <3>7, VisitedEffect DEF AwaitSecret, files, passwords, others
    <3>8. ASSUME NEW k \in Dbs, PatchApp(k) PROVE TypeOK'
      <4>1. FromFile(k) \in Pw
        BY DEF FromFile, Blank, Pw
      <4> QED
        BY <3>8, <4>1, VisitedEffect DEF PatchApp, Goto, files, others
    <3>9. ASSUME NEW k \in Dbs, PatchDb(k) PROVE TypeOK'
      <4>1. FromFile(k) \in Pw
        BY DEF FromFile, Blank, Pw
      <4> QED
        BY <3>9, <4>1, VisitedEffect DEF PatchDb, Goto, files, others
    <3>10. CASE RestorePostgres
      BY <3>10 DEF RestorePostgres, Goto, Loop, files, passwords
    <3>11. CASE ScaleDown \/ ScaleUp
      BY <3>11 DEF ScaleDown, ScaleUp, Goto, files, passwords
    <3> QED
      BY <2>1, <3>1, <3>2, <3>3, <3>4, <3>5, <3>6, <3>7, <3>8, <3>9, <3>10,
         <3>11, <3>12 DEF Progress
  <2>2. CASE Failure
    <3>1. CASE Stop \/ SaveSuperuserSecretFails \/ BackupPostgresFails
               \/ CopyDumpFails
      BY <3>1, FaultEffect DEF Stop, SaveSuperuserSecretFails, CopyDumpFails,
         BackupPostgresFails, FaultOf, DumpStates, files, passwords, others
    <3>2. CASE TornCapture
      <4>1. pwFile' \in [Dbs -> Pw]
        BY <3>2 DEF TornCapture, Pw
      <4> QED
        BY <3>2, <4>1, FaultEffect DEF TornCapture, FaultOf, passwords, others
    <3>3. ASSUME NEW s \in Held, HoldSecretStopped(s) PROVE TypeOK'
      BY <3>3, FaultEffect DEF HoldSecretStopped, passwords, others
    <3> QED
      BY <2>2, <3>1, <3>2, <3>3 DEF Failure
  <2>3. CASE Controllers
    <3>1. CASE CascadeDone \/ RootAppSync
      BY <3>1 DEF CascadeDone, RootAppSync, script, files, others
    <3>2. ASSUME NEW k \in Dbs, CascadeDelete(k) PROVE TypeOK'
      <4>1. -1 \in Pw
        BY DEF Pw
      <4> QED
        BY <3>2, <4>1 DEF CascadeDelete, script, files, others
    <3>3. ASSUME NEW k \in Dbs, SyncSecret(k) PROVE TypeOK'
      <4>1. gen \in Pw
        BY DEF Pw
      <4> QED
        BY <3>3, <4>1 DEF SyncSecret, script, files, others
    <3> QED
      BY <2>3, <3>1, <3>2, <3>3 DEF Controllers
  <2>4. CASE SelfHealReplicas
    BY <2>4 DEF SelfHealReplicas, script, files, passwords
  <2>5. CASE UNCHANGED vars
    BY <2>5 DEF vars, script, files, passwords, others
  <2> QED
    BY <2>1, <2>2, <2>3, <2>4, <2>5 DEF Next
<1> QED
  BY <1>1, <1>2, PTL DEF Spec

-----------------------------------------------------------------------------
(* The saved passwords.  The password file is written once, as a whole, and *)
(* until it is written nothing has touched the passwords in the cluster:    *)
(* deleting the secrets comes after the capture in every run.               *)

BeforeCapture == {"idle", "super", "backup", "filter", "install", "capture"}

OriginalsSaved == \A k \in Dbs : pwFile[k] \in {Absent, Original}

UntouchedUntilCaptured ==
    PwFileEmpty => /\ \A k \in Dbs : app[k] = Original
                   /\ secretsApp = "present"
                   /\ pc \in BeforeCapture

RecoverInv == TypeOK /\ OriginalsSaved /\ UntouchedUntilCaptured

\* A step that leaves the file alone, and what is in the cluster too, keeps
\* the invariant if it moves within the steps before the capture.
LEMMA RecoverFrame ==
    ASSUME RecoverInv, TypeOK', UNCHANGED <<pwFile, app, secretsApp>>,
           pc \in BeforeCapture => pc' \in BeforeCapture
    PROVE  RecoverInv'
BY DEF RecoverInv, OriginalsSaved, UntouchedUntilCaptured, PwFileEmpty, AllOf

\* Once the file is written it does not change, whatever happens to the rest.
LEMMA RecoverOnceWritten ==
    ASSUME RecoverInv, TypeOK', UNCHANGED pwFile, ~PwFileEmpty
    PROVE  RecoverInv'
BY DEF RecoverInv, OriginalsSaved, UntouchedUntilCaptured, PwFileEmpty, AllOf

\* Each step keeps the saved passwords recoverable.
LEMMA RecoverStep ==
    ASSUME RecoverInv, TypeOK', [Next]_vars
    PROVE  RecoverInv'
<1> USE DEF BeforeCapture, passwords, files, others
<1>1. CASE CapturePasswords
  <2>1. CASE PwFileEmpty
    <3>1. \A k \in Dbs : pwFile'[k] = Original
      BY <1>1, <2>1 DEF CapturePasswords, RecoverInv, UntouchedUntilCaptured
    <3>2. ~PwFileEmpty'
      BY <3>1, UpgradeAssumption DEF PwFileEmpty, AllOf, Original, Absent
    <3> QED
      BY <3>1, <3>2 DEF RecoverInv, OriginalsSaved, UntouchedUntilCaptured
  <2>2. CASE ~PwFileEmpty
    BY <1>1, <2>2, RecoverOnceWritten DEF CapturePasswords
  <2> QED
    BY <2>1, <2>2
<1>2. CASE Start \/ SaveSuperuserSecret \/ BackupPostgres \/ FilterDump
           \/ UpgradePackages
  BY <1>2, RecoverFrame DEF Start, SaveSuperuserSecret, BackupPostgres,
     FilterDump, UpgradePackages, Goto, At
<1>3. ASSUME pc \notin BeforeCapture, UNCHANGED pwFile
      PROVE  RecoverInv'
  BY <1>3, RecoverOnceWritten DEF RecoverInv, UntouchedUntilCaptured
<1>4. CASE UpgradeOrchInstaller \/ WaitReaderSecret \/ WaitSecretsApp
           \/ DeletePostgres \/ EndSleep \/ SkipPatchDb
           \/ ApplySuperuserSecret \/ RestorePostgres \/ ScaleDown \/ ScaleUp
  BY <1>4, <1>3 DEF UpgradeOrchInstaller, WaitReaderSecret, WaitSecretsApp,
     DeletePostgres, EndSleep, SkipPatchDb, ApplySuperuserSecret,
     RestorePostgres, ScaleDown, ScaleUp, At
<1>5. ASSUME NEW s \in Held,
             HoldSecret(s) \/ ReapplySecret(s) \/ PatchConnection(s)
      PROVE  RecoverInv'
  BY <1>5, <1>3 DEF HoldSecret, ReapplySecret, PatchConnection, At
<1>6. ASSUME NEW k \in Dbs, AwaitSecret(k) \/ PatchApp(k) \/ PatchDb(k)
      PROVE  RecoverInv'
  BY <1>6, <1>3 DEF AwaitSecret, PatchApp, PatchDb, At
<1>7. CASE Failure
  <2>1. CASE Stop \/ SaveSuperuserSecretFails \/ CopyDumpFails
    BY <2>1, FaultEffect, RecoverFrame DEF Stop, SaveSuperuserSecretFails,
       CopyDumpFails, FaultOf
  <2>2. CASE BackupPostgresFails
    BY <2>2, RecoverFrame DEF BackupPostgresFails
  <2>3. ASSUME NEW s \in Held, HoldSecretStopped(s) PROVE RecoverInv'
    BY <2>3, FaultEffect, RecoverFrame DEF HoldSecretStopped
  <2>4. CASE TornCapture
    <3>1. \A k \in Dbs : app[k] = Original
      BY <2>4 DEF TornCapture, RecoverInv, UntouchedUntilCaptured
    <3>2. OriginalsSaved'
      BY <2>4, <3>1 DEF TornCapture, OriginalsSaved
    <3> QED
      BY <2>4, <3>1, <3>2, FaultEffect DEF TornCapture, FaultOf, RecoverInv,
         UntouchedUntilCaptured
  <2> QED
    BY <1>7, <2>1, <2>2, <2>3, <2>4 DEF Failure
<1>8. CASE Controllers
  \* The controllers act on the secrets only after the application was deleted.
  <2>1. CASE PwFileEmpty
    BY <1>8, <2>1 DEF Controllers, CascadeDone, RootAppSync, CascadeDelete,
       SyncSecret, RecoverInv, UntouchedUntilCaptured, Original, Absent
  <2>2. CASE ~PwFileEmpty
    BY <1>8, <2>2, RecoverOnceWritten DEF Controllers, CascadeDone,
       RootAppSync, CascadeDelete, SyncSecret
  <2> QED
    BY <2>1, <2>2
<1>9. CASE SelfHealReplicas
  BY <1>9, RecoverFrame DEF SelfHealReplicas, script
<1>10. CASE UNCHANGED vars
  BY <1>10, RecoverFrame DEF vars, script
<1> QED
  BY <1>1, <1>2, <1>4, <1>5, <1>6, <1>7, <1>8, <1>9, <1>10
     DEF Next, Progress

\* So they are in every reachable state.
LEMMA RecoverInvariant == Spec => []RecoverInv
<1>1. Init => RecoverInv
  BY UpgradeAssumption DEF Init, RecoverInv, OriginalsSaved,
     UntouchedUntilCaptured, PwFileEmpty, AllOf, BeforeCapture, TypeOK, Pw,
     Absent, Original, Steps, DumpStates
<1>2. RecoverInv /\ TypeOK' /\ [Next]_vars => RecoverInv'
  BY RecoverStep
<1> QED
  BY <1>1, <1>2, TypeCorrect, PTL DEF Spec

\* However often the script is stopped and run again, each password in use
\* before the upgrade is in its secret or in the password file, unless the
\* write of that file itself is torn.
THEOREM PasswordsAreRecoverable == Spec => []PasswordsRecoverable
<1>1. RecoverInv => PasswordsRecoverable
  BY DEF RecoverInv, OriginalsSaved, UntouchedUntilCaptured,
     PasswordsRecoverable, FileTorn
<1> QED
  BY <1>1, RecoverInvariant, PTL

-----------------------------------------------------------------------------
(* The passwords after the upgrade.  Patching starts when the cascade that  *)
(* deletes the secrets is over, so a patched secret is not deleted again,   *)
(* and ArgoCD only fills in secrets that are missing.                       *)

AfterPatchDb == {"superapply", "restore", "reapply", "connect", "restart",
                 "scaleup", "done"}
AfterPatchApp == AfterPatchDb \cup {"patchdb"}
AfterSleep == AfterPatchApp \cup {"await", "patchapp"}

Twins == \A k \in Dbs : app[k] = Absent <=> db[k] = Absent

Settled == pc \in AfterSleep => secretsApp # "deleting" /\ ~PwFileEmpty

AppPatched ==
    /\ pc = "patchapp" => \A k \in Dbs \ todo : app[k] = Original
    /\ pc \in AfterPatchApp => \A k \in Dbs : app[k] = Original

DbPatched ==
    /\ pc = "patchdb" => \A k \in Dbs \ todo : db[k] = Original
    /\ pc \in AfterPatchDb => \A k \in Dbs : db[k] = Original

ConnPatched ==
    /\ pc = "connect" => \A s \in Held \ todo : conn[s] = Original
    /\ pc \in {"restart", "scaleup", "done"} =>
         \A s \in Held : conn[s] = Original

WholeInv == RecoverInv /\ ~FileTorn

KeepInv ==
    WholeInv /\ Twins /\ Settled /\ AppPatched /\ DbPatched /\ ConnPatched

\* Without torn writes a capture saves every password: none is Absent then.
LEMMA WholeInvariant ==
    ASSUME "torn_write" \notin Faults
    PROVE  Spec => []WholeInv
<1>1. Init => ~FileTorn
  BY DEF Init, FileTorn, PwFileEmpty
<1>2. RecoverInv /\ ~FileTorn /\ [Next]_vars => ~FileTorn'
  <2> SUFFICES ASSUME RecoverInv, ~FileTorn, [Next]_vars PROVE ~FileTorn'
    OBVIOUS
  <2>1. UNCHANGED pwFile => ~FileTorn'
    BY DEF FileTorn, PwFileEmpty
  <2>2. CASE CapturePasswords
    BY <2>1, <2>2 DEF CapturePasswords, FileTorn
  <2>3. ~TornCapture
    BY DEF TornCapture, FaultOf
  <2>4. CASE Progress
    BY <2>1, <2>2, <2>4 DEF Progress, files, Start, SaveSuperuserSecret,
       BackupPostgres, FilterDump, UpgradePackages, HoldSecret,
       UpgradeOrchInstaller, WaitReaderSecret, WaitSecretsApp, DeletePostgres,
       EndSleep, AwaitSecret, PatchApp, PatchDb, SkipPatchDb,
       ApplySuperuserSecret, RestorePostgres, ReapplySecret, PatchConnection,
       ScaleDown, ScaleUp
  <2>5. CASE Failure
    BY <2>1, <2>3, <2>5 DEF Failure, files, Stop, SaveSuperuserSecretFails,
       BackupPostgresFails, CopyDumpFails, HoldSecretStopped
  <2>6. CASE Controllers \/ SelfHealReplicas
    BY <2>1, <2>6 DEF Controllers, files, CascadeDone, RootAppSync,
       CascadeDelete, SyncSecret, SelfHealReplicas
  <2> QED
    BY <2>1, <2>4, <2>5, <2>6 DEF Next, vars, files
<1> QED
  BY <1>1, <1>2, RecoverInvariant, PTL DEF Spec, WholeInv

\* A step that touches neither passwords nor loop keeps what was patched.
LEMMA KeepFrame ==
    ASSUME KeepInv, WholeInv', UNCHANGED <<app, db, todo, conn>>,
           secretsApp' = "deleting" => secretsApp = "deleting",
           PwFileEmpty' => PwFileEmpty,
           pc' = pc \/ pc' \notin AfterSleep
    PROVE  KeepInv'
BY DEF KeepInv, Twins, Settled, AppPatched, DbPatched, ConnPatched,
   AfterSleep, AfterPatchApp, AfterPatchDb

\* Outside the patching steps only the secrets have to stay in pairs.
LEMMA KeepOutside ==
    ASSUME KeepInv, WholeInv', UNCHANGED <<app, db>>, pc' \notin AfterSleep
    PROVE  KeepInv'
BY DEF KeepInv, Twins, Settled, AppPatched, DbPatched, ConnPatched,
   AfterSleep, AfterPatchApp, AfterPatchDb

\* After the database side was patched the script leaves the passwords alone.
LEMMA KeepAfterPatchDb ==
    ASSUME KeepInv, WholeInv', UNCHANGED <<passwords, pwFile>>,
           pc \in AfterPatchDb, ConnPatched'
    PROVE  KeepInv'
BY DEF KeepInv, Twins, Settled, AppPatched, DbPatched, ConnPatched,
   AfterSleep, AfterPatchApp, AfterPatchDb, passwords, PwFileEmpty

\* Each step keeps what was patched, when the cascade is over in time.
LEMMA KeepStep ==
    ASSUME "torn_write" \notin Faults, "slow_cascade" \notin Faults,
           KeepInv, WholeInv', [Next]_vars
    PROVE  KeepInv'
<1> USE DEF files, passwords, others, AfterSleep, AfterPatchApp, AfterPatchDb
<1>1. CASE Start \/ SaveSuperuserSecret \/ BackupPostgres \/ FilterDump
           \/ UpgradePackages \/ CapturePasswords \/ UpgradeOrchInstaller
           \/ WaitReaderSecret \/ WaitSecretsApp \/ DeletePostgres
  BY <1>1, KeepOutside DEF Start, SaveSuperuserSecret, BackupPostgres,
     FilterDump, UpgradePackages, CapturePasswords, UpgradeOrchInstaller,
     WaitReaderSecret, WaitSecretsApp, DeletePostgres, Goto, Loop
<1>2. ASSUME NEW s \in Held, HoldSecret(s) PROVE KeepInv'
  BY <1>2, VisitedEffect, KeepOutside DEF HoldSecret, At
<1>3. CASE EndSleep
  <2>1. ~PwFileEmpty /\ secretsApp # "deleting"
    BY <1>3 DEF EndSleep, At, KeepInv, WholeInv, RecoverInv,
       UntouchedUntilCaptured,
       BeforeCapture
  <2> QED
    BY <1>3, <2>1 DEF EndSleep, Loop, KeepInv, Twins, Settled, AppPatched,
       DbPatched, ConnPatched, PwFileEmpty
<1>4. ASSUME NEW k \in Dbs, AwaitSecret(k) PROVE KeepInv'
  BY <1>4, VisitedEffect DEF AwaitSecret, At, KeepInv, Twins, Settled,
     AppPatched, DbPatched, ConnPatched, PwFileEmpty
<1>5. ASSUME NEW k \in Dbs, PatchApp(k) PROVE KeepInv'
  <2>1. CASE app[k] = Absent
    BY <1>5, <2>1, KeepOutside DEF PatchApp, Goto
  <2>2. CASE app[k] # Absent
    <3>1. pwFile[k] = Original
      BY <1>5 DEF PatchApp, At, KeepInv, Settled, WholeInv, RecoverInv,
         OriginalsSaved, FileTorn
    <3>2. app'[k] = Original /\ \A j \in Dbs \ {k} : app'[j] = app[j]
      BY <1>5, <2>2, <3>1 DEF PatchApp, FromFile, KeepInv, WholeInv,
         RecoverInv, TypeOK, Original, Absent
    <3>3. /\ pc = "patchapp" /\ UNCHANGED <<db, pwFile, secretsApp>>
          /\ \/ todo = {k} /\ pc' = "patchdb" /\ todo' = Dbs
             \/ pc' = pc /\ todo' = todo \ {k}
      BY <1>5, <2>2, VisitedEffect DEF PatchApp, At
    <3>4. Twins'
      BY <2>2, <3>2, <3>3 DEF KeepInv, Twins, Original, Absent
    <3>5. Settled' /\ DbPatched'
      BY <3>3 DEF KeepInv, Settled, DbPatched, PwFileEmpty
    <3>6. AppPatched' /\ ConnPatched'
      BY <3>2, <3>3 DEF KeepInv, AppPatched, ConnPatched
    <3> QED
      BY <3>4, <3>5, <3>6 DEF KeepInv
  <2> QED
    BY <2>1, <2>2
<1>6. ASSUME NEW k \in Dbs, PatchDb(k) PROVE KeepInv'
  <2>1. CASE db[k] = Absent
    BY <1>6, <2>1, KeepOutside DEF PatchDb, Goto
  <2>2. CASE db[k] # Absent
    <3>1. pwFile[k] = Original
      BY <1>6 DEF PatchDb, At, KeepInv, Settled, WholeInv, RecoverInv,
         OriginalsSaved, FileTorn
    <3>2. db'[k] = Original /\ \A j \in Dbs \ {k} : db'[j] = db[j]
      BY <1>6, <2>2, <3>1 DEF PatchDb, FromFile, KeepInv, WholeInv,
         RecoverInv, TypeOK, Original, Absent
    <3>3. /\ pc = "patchdb" /\ UNCHANGED <<app, pwFile, secretsApp>>
          /\ \/ todo = {k} /\ pc' = "superapply" /\ todo' = {}
             \/ pc' = pc /\ todo' = todo \ {k}
      BY <1>6, <2>2, VisitedEffect DEF PatchDb, At
    <3>4. Twins'
      BY <2>2, <3>2, <3>3 DEF KeepInv, Twins, Original, Absent
    <3>5. Settled' /\ AppPatched'
      BY <3>3 DEF KeepInv, Settled, AppPatched, PwFileEmpty
    <3>6. DbPatched' /\ ConnPatched'
      BY <3>2, <3>3 DEF KeepInv, DbPatched, ConnPatched
    <3> QED
      BY <3>4, <3>5, <3>6 DEF KeepInv
  <2> QED
    BY <2>1, <2>2
<1>7. ~SkipPatchDb
  \* The catalog's secrets are a pair, and its application side was patched.
  BY UpgradeAssumption DEF SkipPatchDb, At, KeepInv, Twins, AppPatched,
     Original, Absent
<1>8. CASE ApplySuperuserSecret \/ RestorePostgres \/ ScaleDown \/ ScaleUp
  <2>1. ConnPatched'
    BY <1>8 DEF ApplySuperuserSecret, RestorePostgres, ScaleDown, ScaleUp, At,
       Goto, Loop, KeepInv, ConnPatched
  <2> QED
    BY <1>8, <2>1, KeepAfterPatchDb DEF ApplySuperuserSecret, RestorePostgres,
       ScaleDown, ScaleUp, At
<1>9. ASSUME NEW s \in Held, ReapplySecret(s) PROVE KeepInv'
  <2>1. /\ pc = "reapply"
        /\ \/ pc' = "connect" /\ todo' = Held
           \/ pc' = "reapply"
    BY <1>9, VisitedEffect DEF ReapplySecret, At
  <2>2. ConnPatched'
    BY <2>1 DEF ConnPatched
  <2> QED
    BY <1>9, <2>1, <2>2, KeepAfterPatchDb DEF ReapplySecret
<1>16. ASSUME NEW s \in Held, PatchConnection(s) PROVE KeepInv'
  <2>1. CASE held[s] /\ app[s] # Absent
    <3>1. app[s] = Original
      BY <1>16, UpgradeAssumption DEF PatchConnection, At, KeepInv, AppPatched
    <3>2. conn'[s] = Original /\ \A x \in Held \ {s} : conn'[x] = conn[x]
      BY <1>16, <2>1, <3>1 DEF PatchConnection, KeepInv, WholeInv, RecoverInv,
         TypeOK
    <3>3. /\ pc = "connect"
          /\ \/ todo = {s} /\ pc' = "restart"
             \/ pc' = pc /\ todo' = todo \ {s}
      BY <1>16, <2>1, VisitedEffect DEF PatchConnection, At
    <3>4. ConnPatched'
      BY <3>2, <3>3 DEF KeepInv, ConnPatched
    <3> QED
      BY <1>16, <3>3, <3>4, KeepAfterPatchDb DEF PatchConnection
  <2>2. CASE ~(held[s] /\ app[s] # Absent)
    BY <1>16, <2>2, KeepOutside DEF PatchConnection, Goto
  <2> QED
    BY <2>1, <2>2
<1>10. CASE Failure
  <2>1. CASE Stop \/ SaveSuperuserSecretFails \/ CopyDumpFails
    BY <2>1, FaultEffect, KeepOutside DEF Stop, SaveSuperuserSecretFails,
       CopyDumpFails, FaultOf
  <2>2. CASE BackupPostgresFails
    BY <2>2, KeepOutside DEF BackupPostgresFails
  <2>3. ASSUME NEW s \in Held, HoldSecretStopped(s) PROVE KeepInv'
    BY <2>3, FaultEffect, KeepOutside DEF HoldSecretStopped
  <2>4. ~TornCapture
    BY DEF TornCapture, FaultOf
  <2> QED
    BY <1>10, <2>1, <2>2, <2>3, <2>4 DEF Failure
<1>11. CASE CascadeDone \/ RootAppSync
  BY <1>11, KeepFrame DEF CascadeDone, RootAppSync, script, PwFileEmpty
<1>12. ASSUME NEW k \in Dbs, CascadeDelete(k) PROVE KeepInv'
  <2>1. pc \notin AfterSleep
    BY <1>12 DEF CascadeDelete, KeepInv, Settled
  <2>2. Twins'
    BY <1>12 DEF CascadeDelete, KeepInv, Twins, WholeInv, RecoverInv, TypeOK
  <2> QED
    BY <1>12, <2>1, <2>2 DEF CascadeDelete, script, KeepInv, Settled,
       AppPatched, DbPatched, ConnPatched
<1>13. ASSUME NEW k \in Dbs, SyncSecret(k) PROVE KeepInv'
  <2>1. /\ gen # Absent /\ app[k] = Absent /\ db[k] = Absent
        /\ app'[k] = gen /\ db'[k] = gen
        /\ \A j \in Dbs \ {k} : app'[j] = app[j] /\ db'[j] = db[j]
        /\ UNCHANGED <<pc, todo, pwFile, secretsApp, conn>>
    BY <1>13 DEF SyncSecret, script, KeepInv, Twins, WholeInv, RecoverInv,
       TypeOK, Absent
  <2> QED
    BY <2>1 DEF KeepInv, Twins, Settled, AppPatched, DbPatched, ConnPatched,
       PwFileEmpty, Original, Absent
<1>14. CASE SelfHealReplicas
  BY <1>14, KeepFrame DEF SelfHealReplicas, script, PwFileEmpty
<1>15. CASE UNCHANGED vars
  BY <1>15, KeepFrame DEF vars, script, PwFileEmpty
<1> QED
  BY <1>1, <1>2, <1>3, <1>4, <1>5, <1>6, <1>7, <1>8, <1>9, <1>10, <1>11,
     <1>12, <1>13, <1>14, <1>15, <1>16 DEF Next, Progress, Controllers

\* A finished upgrade has put the passwords in use before it back on both
\* sides, provided the cascade is over when patching starts and the password
\* file was not torn.
THEOREM UpgradeKeepsAllPasswords ==
    ASSUME "torn_write" \notin Faults, "slow_cascade" \notin Faults
    PROVE  Spec => []UpgradeKeepsPasswords
<1>1. Init => KeepInv
  <2>1. Init => WholeInv
    BY UpgradeAssumption DEF Init, WholeInv, FileTorn, RecoverInv,
       OriginalsSaved,
       UntouchedUntilCaptured, PwFileEmpty, AllOf, BeforeCapture, TypeOK, Pw,
       Absent, Original, Steps, DumpStates
  <2> QED
    BY <2>1 DEF Init, KeepInv, Twins, Settled, AppPatched, DbPatched,
       ConnPatched, AfterSleep, AfterPatchApp, AfterPatchDb, AllOf, Absent,
       Original
<1>2. KeepInv /\ WholeInv' /\ [Next]_vars => KeepInv'
  BY KeepStep
<1>3. KeepInv => UpgradeKeepsPasswords
  BY DEF KeepInv, WholeInv, RecoverInv, TypeOK, AppPatched, DbPatched,
     ConnPatched, AllOf,
     AfterPatchApp, AfterPatchDb, UpgradeKeepsPasswords
<1> QED
  BY <1>1, <1>2, <1>3, WholeInvariant, PTL DEF Spec

-----------------------------------------------------------------------------
(* The mps and rps secrets, whatever fails. *)

\* A secret is deleted only by the step that has just written its yaml file,
\* and a file is overwritten only while the secret is still there.
LEMMA HeldStep ==
    ASSUME TypeOK, [Next]_vars, NEW s \in Held
    PROVE  (held'[s] \/ heldFile'[s] = "saved")
             <=> (held[s] \/ heldFile[s] = "saved")
<1> USE DEF TypeOK, files, passwords, others
<1>1. CASE UNCHANGED <<held, heldFile>>
  BY <1>1
<1>2. ASSUME NEW x \in Held, HoldSecret(x)
      PROVE (held'[s] \/ heldFile'[s] = "saved")
              <=> (held[s] \/ heldFile[s] = "saved")
  <2>1. CASE held[x]
    <3>1. CASE x = s
      BY <1>2, <2>1, <3>1 DEF HoldSecret
    <3>2. CASE x # s
      BY <1>2, <2>1, <3>2 DEF HoldSecret
    <3> QED
      BY <3>1, <3>2
  <2>2. CASE ~held[x]
    BY <1>1, <1>2, <2>2 DEF HoldSecret
  <2> QED
    BY <2>1, <2>2
<1>3. ASSUME NEW x \in Held, ReapplySecret(x)
      PROVE (held'[s] \/ heldFile'[s] = "saved")
              <=> (held[s] \/ heldFile[s] = "saved")
  BY <1>3 DEF ReapplySecret
<1>4. ASSUME NEW x \in Held, HoldSecretStopped(x)
      PROVE (held'[s] \/ heldFile'[s] = "saved")
              <=> (held[s] \/ heldFile[s] = "saved")
  BY <1>4 DEF HoldSecretStopped
<1>5. CASE Progress
  BY <1>1, <1>2, <1>3, <1>5 DEF Progress, Start, SaveSuperuserSecret,
     BackupPostgres, FilterDump, UpgradePackages, CapturePasswords,
     UpgradeOrchInstaller, WaitReaderSecret, WaitSecretsApp, DeletePostgres,
     EndSleep, AwaitSecret, PatchApp, PatchDb, SkipPatchDb,
     ApplySuperuserSecret, RestorePostgres, PatchConnection, ScaleDown,
     ScaleUp
<1>6. CASE Failure
  BY <1>1, <1>4, <1>6 DEF Failure, Stop, SaveSuperuserSecretFails,
     BackupPostgresFails, CopyDumpFails, TornCapture
<1>7. CASE Controllers \/ SelfHealReplicas
  BY <1>1, <1>7 DEF Controllers, CascadeDone, RootAppSync, CascadeDelete,
     SyncSecret, SelfHealReplicas
<1> QED
  BY <1>1, <1>5, <1>6, <1>7 DEF Next, vars

\* The script's runs implement the custody of the mps and rps secrets: each
\* step of the script is a step of Custody, under every failure modelled.
THEOREM HeldRefinesCustody == Spec => HeldInCustody
<1> USE DEF HeldCustody!Places, HeldCustody!Init, HeldCustody!Next,
            HeldCustody!Keeps
<1>1. Init => HeldCustody!Init
  <2> SUFFICES ASSUME Init PROVE HeldCustody!Init
    OBVIOUS
  <2>1. \A s \in Held : HeldCopies[s] = IF held[s] THEN {"cluster"} ELSE {}
    BY DEF Init, HeldCopies
  <2> QED
    BY <2>1 DEF HeldCopies
<1>2. TypeOK /\ [Next]_vars => [HeldCustody!Next]_HeldCopies
  <2> SUFFICES ASSUME TypeOK, [Next]_vars PROVE HeldCustody!Next
    OBVIOUS
  <2>1. HeldCopies' \in [Held -> SUBSET {"cluster", "file"}]
    BY DEF HeldCopies
  <2>2. ASSUME NEW s \in Held
        PROVE (HeldCopies[s] = {}) <=> ~(held[s] \/ heldFile[s] = "saved")
    BY DEF HeldCopies
  <2>3. ASSUME NEW s \in Held
        PROVE (HeldCopies'[s] = {}) <=> ~(held'[s] \/ heldFile'[s] = "saved")
    BY DEF HeldCopies
  <2> QED
    BY <2>1, <2>2, <2>3, HeldStep
<1> QED
  BY <1>1, <1>2, TypeCorrect, PTL DEF Spec, HeldInCustody, HeldCustody!Spec
=============================================================================
