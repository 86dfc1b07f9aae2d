------------------------ MODULE DiscoveryJobsProofs ------------------------
(***************************************************************************)
(* Theorems about DiscoveryJobs, for every set of jobs, processes and       *)
(* launchers and every value of the bounds.                                 *)
(***************************************************************************)
EXTENDS DiscoveryJobs, TLAPS

LEMMA Bounds ==
  /\ MaxAuto \in Nat /\ MaxProgress \in Nat /\ MaxHelp \in Nat
  /\ 0 \in 0..MaxAuto /\ 0 \in 0..MaxProgress /\ 0 \in 0..MaxHelp
  /\ Null \in Position /\ 0..MaxProgress \subseteq Position /\ Position \subseteq Int
  /\ None \notin Pid /\ None \notin Job
  BY JobsAssumption DEF Null, Position

(* The UPDATE statements keep a row a row. *)

LEMMA ReleaseType ==
  ASSUME NEW r \in Row, NEW s \in Status
  PROVE  Release(r, s) \in Row
<1> DEFINE unranked == s \in {"admission_blocked_storage", "maintenance_blocked",
                              "export_resource_paused"}
           top == s \in {"export_pending", "completed"}
           phase == CASE unranked -> Null [] top -> MaxProgress [] OTHER -> r.phase
<1>1. r.phase \in Position /\ MaxProgress \in Position
  BY Bounds DEF Row
<1>2. unranked => ~top
  OBVIOUS
<1>3. phase \in Position
  <2>1. CASE unranked
    BY <1>2, <2>1, Bounds
  <2>2. CASE top
    BY <1>1, <1>2, <2>2
  <2>3. CASE ~unranked /\ ~top
    BY <1>1, <2>3
  <2> QED
    BY <2>1, <2>2, <2>3
<1>4. Release(r, s) = [r EXCEPT !.status = s, !.owner = None, !.lease = FALSE,
                                !.resumable = TRUE, !.phase = phase]
  BY DEF Release
<1> HIDE DEF phase
<1> QED
  BY <1>3, <1>4 DEF Row

LEMMA RegisterType ==
  ASSUME NEW r \in Row, NEW phase \in Position
  PROVE  Register(r, phase) \in Row
  BY Bounds DEF Register, Row, NoRow, Status, Category, Fingerprint, NoFingerprint

LEMMA LaunchedType ==
  ASSUME NEW r \in Row, NEW mode \in {"manual", "auto", "storage"},
         mode = "auto" => r.consecutive < MaxAuto
  PROVE  Launched(r, mode) \in Row
<1>1. Launching(r) \in Row /\ Launching(r).consecutive = r.consecutive
  BY DEF Launching, Row, Status, Active
<1>2. CASE mode = "auto"
  <2>1. Launching(r).consecutive + 1 \in 0..MaxAuto
    BY <1>1, <1>2, Bounds DEF Row
  <2>2. Launched(r, mode) = [Launching(r) EXCEPT !.consecutive = @ + 1, !.auto = TRUE]
    BY <1>2 DEF Launched
  <2> QED
    BY <1>1, <2>1, <2>2 DEF Row
<1>3. CASE mode = "storage"
  BY <1>1, <1>3 DEF Launched
<1>4. CASE mode = "manual"
  BY <1>1, <1>4, Bounds DEF Launched, Row
<1> QED
  BY <1>2, <1>3, <1>4

LEMMA ClaimedType ==
  ASSUME NEW r \in Row, NEW p \in Pid, NEW s \in Status
  PROVE  /\ Claimed(r, p, s) \in Row
         /\ [Claimed(r, p, s) EXCEPT !.resumable = TRUE] \in Row
  BY DEF Claimed, Row

LEMMA ReportedType ==
  ASSUME NEW r \in Row, NEW position \in Position
  PROVE  Reported(r, position) \in Row
<1> DEFINE print == [phase |-> position, count |-> 0]
<1>1. print \in Fingerprint /\ position \in Position
  BY Bounds DEF Fingerprint
<1>2. Reported(r, position) =
        IF r.auto /\ Advanced(r.fp, print)
        THEN [r EXCEPT !.phase = position, !.consecutive = 0, !.fp = print]
        ELSE [r EXCEPT !.phase = position]
  BY DEF Reported
<1> HIDE DEF print
<1> QED
  BY <1>1, <1>2, Bounds DEF Row

LEMMA FailedType ==
  ASSUME NEW r \in Row, NEW count \in 0..MaxProgress, NEW retryable \in BOOLEAN
  PROVE  Failed(r, count, retryable) \in Row
<1> DEFINE print == [phase |-> r.phase, count |-> count]
           n == IF Advanced(r.fp, print) THEN 0 ELSE r.consecutive
           stop == retryable /\ n >= MaxAuto /\ r.auto
           base == Release(r, IF stop THEN "manual_intervention_required" ELSE "resumable")
<1>1. n \in 0..MaxAuto /\ print \in Fingerprint
  BY Bounds DEF Row, Fingerprint
<1>2. stop \in BOOLEAN
  BY DEF Row
<1>3. base \in Row
  BY ReleaseType DEF Status
<1>4. Failed(r, count, retryable) =
        [base EXCEPT !.category = IF retryable THEN "retryable" ELSE "unclassified",
                     !.manual = stop, !.cooling = retryable /\ ~stop,
                     !.consecutive = n, !.fp = print]
  BY DEF Failed
<1> HIDE DEF n, stop, base, print
<1> QED
  BY <1>1, <1>2, <1>3, <1>4 DEF Row, Category

LEMMA FinishedType ==
  ASSUME NEW r \in Row
  PROVE  Finished(r) \in Row
  BY ReleaseType DEF Finished, Row, Status

-----------------------------------------------------------------------------
(* What the shared pieces of the actions do to each part of TypeOK. *)

LEMMA WriteType ==
  ASSUME TypeOK, NEW j \in Job, NEW r \in Row, Write(j, r)
  PROVE  row' \in [Job -> Row]
  BY DEF TypeOK, Write

LEMMA ReconciledType ==
  ASSUME TypeOK, NEW seen
  PROVE  Reconciled(seen) \in [Job -> Row]
<1>1. \A j \in Job : row[j] \in Row /\ Release(row[j], "resumable") \in Row
  BY ReleaseType DEF TypeOK, Status
<1> QED
  BY <1>1 DEF Reconciled

LEMMA ExitType ==
  ASSUME TypeOK, NEW p \in Pid, Exit(p)
  PROVE  ProcessesOK'
  BY DEF TypeOK, ProcessesOK, Exit, ProcessSteps

LEMMA GoToType ==
  ASSUME TypeOK, NEW p \in Pid, NEW step \in ProcessSteps, pc[p] # "dead",
         GoTo(p, step)
  PROVE  ProcessesOK'
  BY DEF TypeOK, ProcessesOK, GoTo

LEMMA StartType ==
  ASSUME TypeOK, NEW p \in Pid, NEW j \in Job, NEW step \in ProcessSteps,
         StartProcess(p, j, step)
  PROVE  ProcessesOK'
  BY DEF TypeOK, ProcessesOK, StartProcess

LEMMA ReturnType ==
  ASSUME TypeOK, NEW l \in Launcher, Return(l) \/ Leave(l, "dead")
  PROVE  LaunchersOK'
  BY DEF TypeOK, LaunchersOK, Return, Leave, LauncherSteps

LEMMA StepType ==
  ASSUME TypeOK, NEW l \in Launcher, NEW step \in LauncherSteps \ {"record"},
         ljob[l] \in Job, Step(l, step)
  PROVE  LaunchersOK'
  BY DEF TypeOK, LaunchersOK, Step, LauncherSteps

LEMMA DecideType ==
  ASSUME TypeOK, NEW l \in Launcher, NEW j \in Job,
         NEW mode \in {"manual", "auto", "storage"}, Decide(l, j, mode)
  PROVE  /\ LaunchersOK' /\ ProcessesOK'
         /\ prog' = prog /\ computed' = computed /\ fit' = fit /\ rpc' = rpc
  BY DEF TypeOK, LaunchersOK, ProcessesOK, Decide, LauncherSteps, storeVars, procVars

LEMMA LookType ==
  ASSUME TypeOK, NEW l \in Launcher, NEW from, NEW to \in LauncherSteps \ {"record"},
         Look(l, from, to), to # "poll" => ljob[l] \in Job
  PROVE  LaunchersOK' /\ row' = row
<1>1. Watched \in SUBSET (Job \X (Pid \cup {None}))
  BY DEF TypeOK, Watched, Row
<1> QED
  BY <1>1 DEF TypeOK, LaunchersOK, Look

LEMMA TidyType ==
  ASSUME TypeOK, NEW l \in Launcher, NEW from, NEW to \in LauncherSteps \ {"record"},
         Tidy(l, from, to), to # "idle" => ljob[l] \in Job
  PROVE  LaunchersOK' /\ row' \in [Job -> Row]
  BY ReconciledType DEF TypeOK, LaunchersOK, Tidy

LEMMA Unchanged ==
  ASSUME TypeOK
  PROVE  /\ UNCHANGED procVars => ProcessesOK'
         /\ UNCHANGED launchVars => LaunchersOK'
         /\ UNCHANGED storeVars => prog' = prog /\ computed' = computed
  BY DEF TypeOK, ProcessesOK, LaunchersOK, procVars, launchVars, storeVars
-----------------------------------------------------------------------------
(* The launcher's actions. *)

LEMMA LauncherTypes ==
  ASSUME TypeOK, NEW l \in Launcher, LauncherNext(l)
  PROVE  TypeOK'
<1> USE DEF TypeOK
<1>r. \A j \in Job : row[j] \in Row /\ Release(row[j], "resumable") \in Row
                     /\ Release(row[j], "maintenance_blocked") \in Row
  BY ReleaseType DEF Status
<1>1. ASSUME NEW j \in Job, NEW phase \in Position, ResumeClicked(l, j, phase)
      PROVE  TypeOK'
  <2>1. Write(j, Register(row[j], phase)) /\ Decide(l, j, "manual")
    BY <1>1 DEF ResumeClicked
  <2>2. row' \in [Job -> Row]
    BY <2>1, WriteType, RegisterType
  <2>3. helped' \in [Job -> 0..MaxHelp]
    BY <1>1, Bounds DEF ResumeClicked
  <2> QED
    BY <2>1, <2>2, <2>3, DecideType
<1>2. ASSUME NEW j \in Job, AutoResumeChosen(l, j) \/ StorageResumeChosen(l, j)
      PROVE  TypeOK'
  BY <1>2, DecideType DEF AutoResumeChosen, StorageResumeChosen
<1>3. CASE Poll(l)
  <2>1. Look(l, "idle", "poll") \/ Tidy(l, "poll", "idle")
    BY <1>3 DEF Poll
  <2>2. LaunchersOK' /\ row' \in [Job -> Row]
    BY <2>1, LookType, TidyType DEF LauncherSteps
  <2> QED
    BY <1>3, <2>2, Unchanged DEF Poll
<1>4. CASE EnterGuard(l)
  <2>1. ljob[l] \in Job
    BY <1>4 DEF EnterGuard, Look, LaunchersOK
  <2>2. row' \in [Job -> Row] /\ LaunchersOK'
    <3>1. CASE Write(ljob[l], Release(row[ljob[l]], "maintenance_blocked")) /\ Return(l)
      BY <2>1, <3>1, <1>r, WriteType, ReturnType
    <3>2. CASE Look(l, "enter", "tidy")
      BY <2>1, <3>2, LookType DEF LauncherSteps, Guarded
    <3> QED
      BY <1>4, <3>1, <3>2 DEF EnterGuard
  <2> QED
    BY <1>4, <2>2, Unchanged DEF EnterGuard
<1>5. CASE ReconcileGuarded(l)
  <2>1. \/ Tidy(l, "tidy", "relook") \/ Look(l, "relook", "retidy")
        \/ Tidy(l, "retidy", "active")
    BY <1>5 DEF ReconcileGuarded
  <2>2. ljob[l] \in Job
    BY <2>1 DEF Tidy, Look, LaunchersOK
  <2>3. LaunchersOK' /\ row' \in [Job -> Row]
    BY <2>1, <2>2, LookType, TidyType DEF LauncherSteps, Guarded
  <2> QED
    BY <1>5, <2>3, Unchanged DEF ReconcileGuarded
<1>10. CASE CheckActive(l)
  <2>1. ljob[l] \in Job
    BY <1>10 DEF CheckActive, LaunchersOK
  <2>2. Return(l) \/ Step(l, "commit")
    BY <1>10 DEF CheckActive
  <2>3. LaunchersOK'
    BY <2>1, <2>2, ReturnType, StepType DEF LauncherSteps, Guarded
  <2> QED
    BY <1>10, <2>3, Unchanged DEF CheckActive
<1>6. CASE CommitLaunch(l)
  <2>1. ljob[l] \in Job /\ lmode[l] \in {"manual", "auto", "storage"}
    BY <1>6 DEF CommitLaunch, LaunchersOK
  <2>2. row' \in [Job -> Row] /\ LaunchersOK'
    <3>1. CASE /\ Eligible(row[ljob[l]], lmode[l])
               /\ Write(ljob[l], Launched(row[ljob[l]], lmode[l])) /\ Step(l, "spawn")
      <4>1. Launched(row[ljob[l]], lmode[l]) \in Row
        BY <1>r, <2>1, <3>1, LaunchedType DEF Eligible
      <4> QED
        BY <2>1, <3>1, <4>1, WriteType, StepType DEF LauncherSteps
    <3>2. CASE Return(l) /\ UNCHANGED row
      BY <3>2, ReturnType
    <3> QED
      BY <1>6, <3>1, <3>2 DEF CommitLaunch
  <2> QED
    BY <1>6, <2>2, Unchanged DEF CommitLaunch
<1>7. ASSUME NEW p \in Pid, SpawnWorker(l, p)
      PROVE  TypeOK'
  <2>1. ljob[l] \in Job
    BY <1>7 DEF SpawnWorker, LaunchersOK
  <2>2. ProcessesOK'
    BY <1>7, <2>1, StartType DEF SpawnWorker, ProcessSteps
  <2>3. LaunchersOK'
    BY <1>7, <2>1 DEF SpawnWorker, LaunchersOK, LauncherSteps
  <2> QED
    BY <1>7, <2>2, <2>3, Unchanged DEF SpawnWorker
<1>8. CASE SpawnFails(l)
  <2>1. ljob[l] \in Job
    BY <1>8 DEF SpawnFails, LaunchersOK
  <2>2. Failed(row[ljob[l]], 0, FALSE) \in Row
    BY <2>1, Bounds, FailedType
  <2> QED
    BY <1>8, <2>1, <2>2, WriteType, ReturnType, Unchanged DEF SpawnFails
<1>9. CASE RecordPid(l)
  <2>1. ljob[l] \in Job /\ lpid[l] \in Pid
    BY <1>9 DEF RecordPid, LaunchersOK
  <2>2. [row[ljob[l]] EXCEPT !.owner = lpid[l]] \in Row
    BY <2>1 DEF Row
  <2>3. row' \in [Job -> Row]
    BY <1>9, <2>1, <2>2, WriteType DEF RecordPid
  <2> QED
    BY <1>9, <2>3, ReturnType, Unchanged DEF RecordPid
<1>11. CASE LauncherDies(l) \/ LauncherRestarts(l)
  BY <1>11, ReturnType, Unchanged DEF LauncherDies, LauncherRestarts
<1> QED
  BY <1>1, <1>2, <1>3, <1>4, <1>5, <1>6, <1>7, <1>8, <1>9, <1>10, <1>11
     DEF LauncherNext
-----------------------------------------------------------------------------
(* Workers, finalizers, retention and time. *)

LEMMA ProcessTask ==
  ASSUME TypeOK, NEW p \in Pid, pc[p] # "dead"
  PROVE  /\ task[p] \in Job
         /\ row[task[p]] \in Row
         /\ prog[task[p]] \in 0..MaxProgress
         /\ \A s \in Status : Release(row[task[p]], s) \in Row
  BY ReleaseType DEF TypeOK, ProcessesOK

LEMMA WorkerTypes ==
  ASSUME TypeOK, NEW p \in Pid, WorkerNext(p)
  PROVE  TypeOK'
<1> USE DEF TypeOK
<1>1. CASE Admitted(p)
  BY <1>1, GoToType, Unchanged DEF Admitted, ProcessSteps
<1>2. CASE AdmissionBlocked(p)
  BY <1>2, ProcessTask, WriteType, ExitType, Unchanged DEF AdmissionBlocked, Status, StoragePaused
<1>3. CASE ClaimJob(p)
  <2>1. /\ task[p] \in Job /\ row[task[p]] \in Row /\ pc[p] # "dead"
        /\ Release(row[task[p]], "maintenance_blocked") \in Row
    BY <1>3, ProcessTask DEF ClaimJob, Status
  <2>2. Claimed(row[task[p]], p, "running") \in Row
    BY <2>1, ClaimedType DEF Status, Active
  <2>3. row' \in [Job -> Row]
    BY <1>3, <2>1, <2>2, WriteType DEF ClaimJob
  <2>4. ProcessesOK'
    BY <1>3, <2>1, ExitType, GoToType DEF ClaimJob, ProcessSteps
  <2> QED
    BY <1>3, <2>3, <2>4, Unchanged DEF ClaimJob
<1>4. CASE Advance(p)
  <2>1. task[p] \in Job /\ prog[task[p]] + 1 \in 0..MaxProgress
    BY <1>4, ProcessTask, Bounds DEF Advance
  <2>2. prog' \in [Job -> 0..MaxProgress]
    BY <1>4, <2>1 DEF Advance
  <2> QED
    BY <1>4, <2>2, Unchanged DEF Advance
<1>5. ASSUME NEW position \in Position, Heartbeat(p, position)
      PROVE  TypeOK'
  <2>1. task[p] \in Job /\ Reported(row[task[p]], position) \in Row
    BY <1>5, ProcessTask, ReportedType DEF Heartbeat
  <2> QED
    BY <1>5, <2>1, WriteType, Unchanged DEF Heartbeat
<1>6. CASE ResourcePause(p)
  <2>1. task[p] \in Job /\ computed' \in [Job -> BOOLEAN]
    BY <1>6, ProcessTask DEF ResourcePause
  <2> QED
    BY <1>6, <2>1, ProcessTask, WriteType, ExitType, Unchanged
       DEF ResourcePause, Status, StoragePaused
<1>7. CASE FinishResumable(p)
  BY <1>7, ProcessTask, WriteType, ExitType, Unchanged DEF FinishResumable, Status
<1>8. ASSUME NEW retryable \in BOOLEAN, RunFails(p, retryable)
      PROVE  TypeOK'
  <2>1. pc[p] # "dead" /\ task[p] \in Job
    BY <1>8, ProcessTask DEF RunFails
  <2>2. Failed(row[task[p]], Counted(task[p]), retryable) \in Row
    BY <2>1, ProcessTask, FailedType, Bounds DEF Counted
  <2> QED
    BY <1>8, <2>1, <2>2, WriteType, ExitType, Unchanged DEF RunFails
<1>9. CASE MarkComputed(p)
  <2>1. task[p] \in Job /\ computed' \in [Job -> BOOLEAN]
    BY <1>9, ProcessTask DEF MarkComputed
  <2> QED
    BY <1>9, <2>1, GoToType, Unchanged DEF MarkComputed, ProcessSteps
<1>10. CASE PrepareFinalization(p)
  BY <1>10, ProcessTask, WriteType, GoToType, Unchanged
     DEF PrepareFinalization, ProcessSteps, Status, Exporting
<1>11. ASSUME NEW q \in Pid, LaunchFinalizer(p, q)
       PROVE  TypeOK'
  <2>1. task[p] \in Job
    BY <1>11, ProcessTask DEF LaunchFinalizer
  <2>2. ProcessesOK'
    BY <1>11, <2>1 DEF LaunchFinalizer, ProcessesOK, ProcessSteps
  <2> QED
    BY <1>11, <2>2, Unchanged DEF LaunchFinalizer
<1>12. CASE LegacyFinish(p)
  BY <1>12, ProcessTask, FinishedType, WriteType, GoToType, Unchanged
     DEF LegacyFinish, ProcessSteps
<1> QED
  BY <1>1, <1>2, <1>3, <1>4, <1>5, <1>6, <1>7, <1>8, <1>9, <1>10, <1>11, <1>12 DEF WorkerNext

LEMMA FinalizerTypes ==
  ASSUME TypeOK, NEW q \in Pid, FinalizerNext(q)
  PROVE  TypeOK'
<1> USE DEF TypeOK
<1>1. CASE FinalizerReads(q)
  BY <1>1, GoToType, Unchanged DEF FinalizerReads, ProcessSteps
<1>2. CASE FinalizerPrepares(q)
  BY <1>2, ProcessTask, WriteType, GoToType, Unchanged
     DEF FinalizerPrepares, ProcessSteps, Status, Exporting
<1>3. CASE FinalizerClaims(q)
  <2>1. pc[q] # "dead" /\ task[q] \in Job /\ row[task[q]] \in Row
    BY <1>3, ProcessTask DEF FinalizerClaims
  <2>2. \A s \in {"notification_pending", "export_running"} :
          [Claimed(row[task[q]], q, s) EXCEPT !.resumable = TRUE] \in Row
    BY <2>1, ClaimedType DEF Status, Active
  <2>3. row' \in [Job -> Row]
    BY <1>3, <2>1, <2>2, WriteType DEF FinalizerClaims
  <2>4. ProcessesOK'
    BY <1>3, <2>1, ExitType, GoToType DEF FinalizerClaims, ProcessSteps
  <2> QED
    BY <1>3, <2>3, <2>4, Unchanged DEF FinalizerClaims
<1>4. CASE ExportComplete(q)
  <2>1. pc[q] # "dead" /\ task[q] \in Job /\ row[task[q]] \in Row
    BY <1>4, ProcessTask DEF ExportComplete
  <2>2. [row[task[q]] EXCEPT !.status = "notification_pending", !.exported = TRUE] \in Row
    BY <2>1 DEF Row, Status, Active
  <2>3. row' \in [Job -> Row]
    BY <1>4, <2>1, <2>2, WriteType DEF ExportComplete
  <2> QED
    BY <1>4, <2>1, <2>3, GoToType, Unchanged DEF ExportComplete, ProcessSteps
<1>5. CASE FinishJob(q)
  BY <1>5, ProcessTask, FinishedType, WriteType, GoToType, Unchanged
     DEF FinishJob, ProcessSteps
<1>6. CASE ExportPaused(q)
  <2>1. task[q] \in Job /\ computed' \in [Job -> BOOLEAN]
    BY <1>6, ProcessTask DEF ExportPaused
  <2> QED
    BY <1>6, <2>1, ProcessTask, WriteType, ExitType, Unchanged
       DEF ExportPaused, Status, Exporting
<1>7. CASE ExportFails(q)
  <2>1. pc[q] # "dead" /\ task[q] \in Job /\ row[task[q]] \in Row
    BY <1>7, ProcessTask DEF ExportFails
  <2>2. Failed(row[task[q]], 0, FALSE) \in Row
    BY <2>1, Bounds, FailedType
  <2>3. computed' \in [Job -> BOOLEAN]
    BY <1>7, <2>1 DEF ExportFails
  <2> QED
    BY <1>7, <2>1, <2>2, <2>3, WriteType, ExitType, Unchanged DEF ExportFails
<1>8. CASE ClosingFails(q)
  <2>1. pc[q] # "dead" /\ task[q] \in Job
    BY <1>8, ProcessTask DEF ClosingFails
  <2>2. Failed(row[task[q]], 0, FALSE) \in Row
    BY <2>1, Bounds, ProcessTask, FailedType
  <2> QED
    BY <1>8, <2>1, <2>2, WriteType, ExitType, Unchanged DEF ClosingFails
<1>9. CASE Ends(q)
  BY <1>9, ExitType, Unchanged DEF Ends
<1> QED
  BY <1>1, <1>2, <1>3, <1>4, <1>5, <1>6, <1>7, <1>8, <1>9 DEF FinalizerNext

LEMMA InitType ==
  ASSUME Init
  PROVE  TypeOK
<1>1. NoRow \in Row
  BY Bounds DEF NoRow, Row, Status, Category, Fingerprint, NoFingerprint
<1> QED
  BY <1>1, Bounds DEF Init, TypeOK, ProcessesOK, LaunchersOK, ProcessSteps, LauncherSteps

LEMMA NextType ==
  ASSUME TypeOK, [Next]_vars
  PROVE  TypeOK'
<1>1. ASSUME NEW l \in Launcher, LauncherNext(l)
      PROVE  TypeOK'
  BY <1>1, LauncherTypes
<1>2. ASSUME NEW p \in Pid, WorkerNext(p) \/ FinalizerNext(p)
      PROVE  TypeOK'
  BY <1>2, WorkerTypes, FinalizerTypes
<1>3. ASSUME NEW p \in Pid, Crash(p)
      PROVE  TypeOK'
  BY <1>3, ExitType, Unchanged DEF Crash, TypeOK
<1>4. ASSUME NEW q \in Pid, NEW j \in Job, ResumeExport(q, j)
      PROVE  TypeOK'
  <2>1. helped' \in [Job -> 0..MaxHelp]
    BY <1>4, Bounds DEF ResumeExport, TypeOK
  <2> QED
    BY <1>4, <2>1, StartType, Unchanged DEF ResumeExport, TypeOK, ProcessSteps
<1>5. CASE RetentionNext
  BY <1>5, Unchanged
     DEF RetentionNext, RetentionEnters, RetentionChecks, RetentionLeaves, TypeOK
<1>6. ASSUME NEW j \in Job, LeaseExpires(j) \/ CooldownEnds(j)
      PROVE  TypeOK'
  <2>1. /\ [row[j] EXCEPT !.lease = FALSE] \in Row
        /\ [row[j] EXCEPT !.cooling = FALSE] \in Row
    BY DEF TypeOK, Row
  <2> QED
    BY <1>6, <2>1, WriteType, Unchanged DEF LeaseExpires, CooldownEnds, TypeOK
<1>7. ASSUME NEW j \in Job, FitChanges(j)
      PROVE  TypeOK'
  BY <1>7, Unchanged DEF FitChanges, TypeOK
<1>8. CASE UNCHANGED vars
  BY <1>8, Unchanged DEF vars, TypeOK
<1> QED
  BY <1>1, <1>2, <1>3, <1>4, <1>5, <1>6, <1>7, <1>8 DEF Next

\* Every variable keeps its type, whatever the interleaving: in particular the
\* consecutive counter never passes MaxAuto, so launch() never counts past the
\* limit that _record_worker_failure tests.
THEOREM TypeCorrect == Spec => []TypeOK
<1>1. Init => TypeOK
  BY InitType
<1>2. TypeOK /\ [Next]_vars => TypeOK'
  BY NextType
<1> QED
  BY <1>1, <1>2, PTL DEF Spec
-----------------------------------------------------------------------------
(* What one step may do to one row. *)

Stopped == Status \ OwnedActive

\* Every UPDATE but the launch, the claim and the end of a lease.
Loosens(j) ==
  \/ row'[j] = row[j]
  \/ \E s \in Stopped : row'[j] = Release(row[j], s)
  \/ \E phase \in Position : row'[j] = Register(row[j], phase)
  \/ /\ row[j].status \in {"launching", "running"}
     /\ \E p \in Pid : row'[j] = [row[j] EXCEPT !.owner = p]
  \/ \E p \in Pid, s \in {"notification_pending", "export_running"} :
       row'[j] = [Claimed(row[j], p, s) EXCEPT !.resumable = TRUE]
  \/ /\ row[j].owner \in Pid
     /\ row'[j] = [row[j] EXCEPT !.status = "notification_pending", !.exported = TRUE]
  \/ \E position \in Position : row'[j] = Reported(row[j], position)
  \/ \E count \in 0..MaxProgress, retryable \in BOOLEAN :
       row'[j] = Failed(row[j], count, retryable)
  \/ row'[j] = Finished(row[j])
  \/ row'[j] = [row[j] EXCEPT !.cooling = FALSE]

RowStep(j) ==
  \/ Loosens(j)
  \/ \E mode \in {"manual", "auto", "storage"} : row'[j] = Launched(row[j], mode)
  \/ \E p \in Pid : row'[j] = Claimed(row[j], p, "running")
  \/ row'[j] = [row[j] EXCEPT !.lease = FALSE]

LEMMA WriteStep ==
  ASSUME TypeOK, NEW j \in Job, NEW r, Write(j, r)
  PROVE  row'[j] = r /\ \A k \in Job \ {j} : row'[k] = row[k]
  BY DEF TypeOK, Write

LEMMA ReconciledStep ==
  ASSUME NEW j \in Job, NEW seen, row' = Reconciled(seen)
  PROVE  Loosens(j)
<1>1. "resumable" \in Stopped
  BY DEF Stopped, Status, OwnedActive
<1> QED
  BY <1>1 DEF Reconciled, Loosens

LEMMA LauncherRowStep ==
  ASSUME TypeOK, NEW l \in Launcher, LauncherNext(l), NEW k \in Job
  PROVE  RowStep(k) /\ (CommitLaunch(l) \/ Loosens(k))
<1>s. "resumable" \in Stopped /\ "maintenance_blocked" \in Stopped
  BY DEF Stopped, Status, OwnedActive
<1>l. /\ ljob[l] \in Job \/ lpc[l] \in {"dead", "idle", "poll"}
      /\ lmode[l] \in {"manual", "auto", "storage"}
      /\ lpc[l] = "record" => lpid[l] \in Pid
  BY DEF TypeOK, LaunchersOK
<1>1. ASSUME NEW j \in Job, NEW phase \in Position, ResumeClicked(l, j, phase)
      PROVE  Loosens(k)
  BY <1>1, WriteStep DEF ResumeClicked, Loosens
<1>2. ASSUME NEW j \in Job, AutoResumeChosen(l, j) \/ StorageResumeChosen(l, j)
      PROVE  Loosens(k)
  BY <1>2 DEF AutoResumeChosen, StorageResumeChosen, Loosens
<1>3. ASSUME EnterGuard(l)
      PROVE  Loosens(k)
  BY <1>3, <1>s, <1>l, WriteStep DEF EnterGuard, Look, Loosens
<1>4. ASSUME Poll(l) \/ ReconcileGuarded(l)
      PROVE  Loosens(k)
  <2>1. row' = row \/ row' = Reconciled(lseen[l])
    BY <1>4 DEF Poll, ReconcileGuarded, Look, Tidy
  <2> QED
    BY <2>1, ReconciledStep DEF Loosens
<1>5. ASSUME CommitLaunch(l)
      PROVE  RowStep(k)
  BY <1>5, <1>l, WriteStep DEF CommitLaunch, RowStep, Loosens
<1>6. ASSUME NEW p \in Pid, SpawnWorker(l, p)
      PROVE  Loosens(k)
  BY <1>6 DEF SpawnWorker, Loosens
<1>7. ASSUME SpawnFails(l)
      PROVE  Loosens(k)
  <2>1. row'[k] = row[k] \/ row'[k] = Failed(row[k], 0, FALSE)
    BY <1>7, <1>l, WriteStep DEF SpawnFails
  <2>2. 0 \in 0..MaxProgress /\ FALSE \in BOOLEAN
    BY Bounds
  <2> QED
    BY <2>1, <2>2 DEF Loosens
<1>8. ASSUME RecordPid(l)
      PROVE  Loosens(k)
  BY <1>8, <1>l, WriteStep DEF RecordPid, Loosens
<1>9. ASSUME CheckActive(l) \/ LauncherDies(l) \/ LauncherRestarts(l)
      PROVE  Loosens(k)
  BY <1>9 DEF CheckActive, LauncherDies, LauncherRestarts, Loosens
<1> QED
  BY <1>1, <1>2, <1>3, <1>4, <1>5, <1>6, <1>7, <1>8, <1>9 DEF LauncherNext, RowStep

LEMMA WorkerRowStep ==
  ASSUME TypeOK, NEW p \in Pid, WorkerNext(p), NEW k \in Job
  PROVE  RowStep(k) /\ (ClaimJob(p) \/ Loosens(k))
<1>s. {"resumable", "maintenance_blocked", "admission_blocked_storage",
       "resource_paused", "export_pending"} \subseteq Stopped
  BY DEF Stopped, Status, OwnedActive, Active, StoragePaused, Exporting
<1>p. pc[p] # "dead" => task[p] \in Job /\ prog[task[p]] \in 0..MaxProgress
  BY ProcessTask
<1>1. ASSUME AdmissionBlocked(p) \/ ResourcePause(p) \/ FinishResumable(p)
           \/ PrepareFinalization(p)
      PROVE  Loosens(k)
  BY <1>1, <1>s, <1>p, WriteStep
     DEF AdmissionBlocked, ResourcePause, FinishResumable, PrepareFinalization, Loosens
<1>2. ASSUME ClaimJob(p)
      PROVE  RowStep(k)
  BY <1>2, <1>s, <1>p, WriteStep DEF ClaimJob, RowStep, Loosens
<1>3. ASSUME NEW position \in Position, Heartbeat(p, position)
      PROVE  Loosens(k)
  BY <1>3, <1>p, WriteStep DEF Heartbeat, Loosens
<1>4. ASSUME NEW retryable \in BOOLEAN, RunFails(p, retryable)
      PROVE  Loosens(k)
  <2>1. Counted(task[p]) \in 0..MaxProgress
    BY <1>4, <1>p, Bounds DEF RunFails, Counted
  <2> QED
    BY <1>4, <1>p, <2>1, WriteStep DEF RunFails, Loosens
<1>5. ASSUME LegacyFinish(p)
      PROVE  Loosens(k)
  BY <1>5, <1>p, WriteStep DEF LegacyFinish, Loosens
<1>6. ASSUME UNCHANGED row
      PROVE  Loosens(k)
  BY <1>6 DEF Loosens
<1> QED
  BY <1>1, <1>2, <1>3, <1>4, <1>5, <1>6
     DEF WorkerNext, RowStep, Admitted, Advance, MarkComputed, LaunchFinalizer

LEMMA FinalizerRowStep ==
  ASSUME TypeOK, NEW q \in Pid, FinalizerNext(q), NEW k \in Job
  PROVE  Loosens(k)
<1>s. {"export_pending", "export_resource_paused"} \subseteq Stopped
  BY DEF Stopped, Status, OwnedActive, Active, StoragePaused, Exporting
<1>q. pc[q] # "dead" => task[q] \in Job
  BY ProcessTask
<1>1. CASE FinalizerReads(q) \/ Ends(q)
  BY <1>1 DEF FinalizerReads, Ends, Loosens
<1>2. CASE FinalizerPrepares(q) \/ ExportPaused(q)
  BY <1>2, <1>s, <1>q, WriteStep DEF FinalizerPrepares, ExportPaused, Loosens
<1>3. CASE FinalizerClaims(q)
  <2>1. \/ row'[k] = row[k]
        \/ \E s \in {"notification_pending", "export_running"} :
             row'[k] = [Claimed(row[k], q, s) EXCEPT !.resumable = TRUE]
    BY <1>3, <1>q, WriteStep DEF FinalizerClaims
  <2> QED
    BY <2>1 DEF Loosens
<1>4. CASE ExportComplete(q)
  BY <1>4, <1>q, WriteStep DEF ExportComplete, Loosens
<1>5. CASE FinishJob(q)
  BY <1>5, <1>q, WriteStep DEF FinishJob, Loosens
<1>6. CASE ExportFails(q) \/ ClosingFails(q)
  <2>1. row'[k] = row[k] \/ row'[k] = Failed(row[k], 0, FALSE)
    BY <1>6, <1>q, WriteStep DEF ExportFails, ClosingFails
  <2>2. 0 \in 0..MaxProgress /\ FALSE \in BOOLEAN
    BY Bounds
  <2> QED
    BY <2>1, <2>2 DEF Loosens
<1> QED
  BY <1>1, <1>2, <1>3, <1>4, <1>5, <1>6 DEF FinalizerNext

LEMMA NextRowStep ==
  ASSUME TypeOK, [Next]_vars, NEW k \in Job
  PROVE  RowStep(k)
<1>1. ASSUME NEW j \in Job, LeaseExpires(j) \/ CooldownEnds(j)
      PROVE  RowStep(k)
  BY <1>1, WriteStep DEF LeaseExpires, CooldownEnds, RowStep, Loosens
<1>2. CASE UNCHANGED row
  BY <1>2 DEF RowStep, Loosens
<1>3. RetentionNext \/ UNCHANGED vars \/ (\E p \in Pid : Crash(p))
        \/ (\E q \in Pid, j \in Job : ResumeExport(q, j)) \/ (\E j \in Job : FitChanges(j))
      => UNCHANGED row
  BY DEF RetentionNext, RetentionEnters, RetentionChecks, RetentionLeaves, Crash,
         ResumeExport, FitChanges, vars
<1> QED
  BY <1>1, <1>2, <1>3, LauncherRowStep, WorkerRowStep, FinalizerRowStep
     DEF Next, RowStep

-----------------------------------------------------------------------------
(* WorkNamesItsOwner is inductive row by row. *)

NamesItsOwner(r) ==
  /\ r.status \in OwnedActive \ {"launching"} => r.owner # None
  /\ r.owner # None => r.status \in OwnedActive

LEMMA StatusAndOwner ==
  ASSUME NEW r \in Row
  PROVE  /\ \A s \in Status : /\ Release(r, s).status = s
                              /\ Release(r, s).owner = None
         /\ \A phase \in Position :
              /\ Register(r, phase).status = IF r.status = "absent" THEN "resumable"
                                                                    ELSE r.status
              /\ Register(r, phase).owner = IF r.status = "absent" THEN None ELSE r.owner
         /\ \A mode \in {"manual", "auto", "storage"} :
              Launched(r, mode).status = "launching" /\ Launched(r, mode).owner = None
         /\ \A p \in Pid, s \in Status :
              /\ Claimed(r, p, s).status = s /\ Claimed(r, p, s).owner = p
              /\ [Claimed(r, p, s) EXCEPT !.resumable = TRUE].status = s
              /\ [Claimed(r, p, s) EXCEPT !.resumable = TRUE].owner = p
         /\ \A position \in Position :
              /\ Reported(r, position).status = r.status
              /\ Reported(r, position).owner = r.owner
         /\ \A count \in 0..MaxProgress, retryable \in BOOLEAN :
              /\ Failed(r, count, retryable).status
                   \in {"manual_intervention_required", "resumable"}
              /\ Failed(r, count, retryable).owner = None
         /\ Finished(r).status = "completed" /\ Finished(r).owner = None
<1>1. \A s \in Status : Release(r, s).status = s /\ Release(r, s).owner = None
  BY DEF Release, Row
<1>2. ASSUME NEW phase \in Position
      PROVE  /\ Register(r, phase).status = IF r.status = "absent" THEN "resumable"
                                                                   ELSE r.status
             /\ Register(r, phase).owner = IF r.status = "absent" THEN None ELSE r.owner
  BY DEF Register, NoRow, Row
<1>3. ASSUME NEW mode \in {"manual", "auto", "storage"}
      PROVE  Launched(r, mode).status = "launching" /\ Launched(r, mode).owner = None
  <2>1. Launched(r, mode) \in {Launching(r),
          [Launching(r) EXCEPT !.consecutive = @ + 1, !.auto = TRUE],
          [Launching(r) EXCEPT !.consecutive = 0, !.manual = FALSE, !.cooling = FALSE]}
    BY DEF Launched
  <2> QED
    BY <2>1 DEF Launching, Row
<1>4. ASSUME NEW p \in Pid, NEW s \in Status
      PROVE  /\ Claimed(r, p, s).status = s /\ Claimed(r, p, s).owner = p
             /\ [Claimed(r, p, s) EXCEPT !.resumable = TRUE].status = s
             /\ [Claimed(r, p, s) EXCEPT !.resumable = TRUE].owner = p
  BY DEF Claimed, Row
<1>5. ASSUME NEW position \in Position
      PROVE  /\ Reported(r, position).status = r.status
             /\ Reported(r, position).owner = r.owner
  BY DEF Reported, Row
<1>6. ASSUME NEW count \in 0..MaxProgress, NEW retryable \in BOOLEAN
      PROVE  /\ Failed(r, count, retryable).status
                  \in {"manual_intervention_required", "resumable"}
             /\ Failed(r, count, retryable).owner = None
  <2> DEFINE print == [phase |-> r.phase, count |-> count]
             n == IF Advanced(r.fp, print) THEN 0 ELSE r.consecutive
             stop == retryable /\ n >= MaxAuto /\ r.auto
             base == Release(r, IF stop THEN "manual_intervention_required" ELSE "resumable")
  <2>1. /\ base.status \in {"manual_intervention_required", "resumable"}
        /\ base.owner = None
    BY DEF Release, Row
  <2>2. base \in Row
    BY ReleaseType DEF Status
  <2>3. Failed(r, count, retryable) =
          [base EXCEPT !.category = IF retryable THEN "retryable" ELSE "unclassified",
                       !.manual = stop, !.cooling = retryable /\ ~stop,
                       !.consecutive = n, !.fp = print]
    BY DEF Failed
  <2> HIDE DEF base, stop, n, print
  <2> QED
    BY <2>1, <2>2, <2>3 DEF Row
<1>7. Finished(r).status = "completed" /\ Finished(r).owner = None
  BY DEF Finished, Release, Row
<1> QED
  BY <1>1, <1>2, <1>3, <1>4, <1>5, <1>6, <1>7

LEMMA StepNames ==
  ASSUME NEW j \in Job, row[j] \in Row, NamesItsOwner(row[j]), RowStep(j)
  PROVE  NamesItsOwner(row'[j])
<1>s. {"launching", "running", "notification_pending", "export_running"} \subseteq Status
  BY DEF Status, Active
<1>1. CASE row'[j].status = row[j].status /\ row'[j].owner = row[j].owner
  BY <1>1 DEF NamesItsOwner
<1>2. CASE row'[j].owner = None /\ row'[j].status \notin OwnedActive \ {"launching"}
  BY <1>2 DEF NamesItsOwner
<1>3. CASE row'[j].owner \in Pid /\ row'[j].status \in OwnedActive
  BY <1>3, Bounds DEF NamesItsOwner
<1>4. \/ row'[j].status = row[j].status /\ row'[j].owner = row[j].owner
      \/ row'[j].owner = None /\ row'[j].status \notin OwnedActive \ {"launching"}
      \/ row'[j].owner \in Pid /\ row'[j].status \in OwnedActive
  <2>1. ASSUME NEW s \in Stopped, row'[j] = Release(row[j], s)
        PROVE  row'[j].owner = None /\ row'[j].status \notin OwnedActive \ {"launching"}
    BY <2>1, StatusAndOwner DEF Stopped
  <2>2. CASE \/ \E mode \in {"manual", "auto", "storage"} : row'[j] = Launched(row[j], mode)
             \/ \E count \in 0..MaxProgress, retryable \in BOOLEAN :
                  row'[j] = Failed(row[j], count, retryable)
             \/ row'[j] = Finished(row[j])
             \/ row[j].status = "absent" /\ \E phase \in Position :
                                               row'[j] = Register(row[j], phase)
    BY <2>2, StatusAndOwner DEF OwnedActive
  <2>3. CASE \/ row'[j] = row[j]
             \/ \E position \in Position : row'[j] = Reported(row[j], position)
             \/ row[j].status # "absent" /\ \E phase \in Position :
                                               row'[j] = Register(row[j], phase)
    BY <2>3, StatusAndOwner
  <2>4. CASE \/ \E p \in Pid : row'[j] = Claimed(row[j], p, "running")
             \/ \E p \in Pid, s \in {"notification_pending", "export_running"} :
                  row'[j] = [Claimed(row[j], p, s) EXCEPT !.resumable = TRUE]
    <3>1. PICK p \in Pid, s \in {"running", "notification_pending", "export_running"} :
            \/ row'[j] = Claimed(row[j], p, s)
            \/ row'[j] = [Claimed(row[j], p, s) EXCEPT !.resumable = TRUE]
      BY <2>4
    <3>2. s \in Status /\ s \in OwnedActive
      BY <1>s DEF OwnedActive
    <3>3. row'[j].owner = p /\ row'[j].status = s
      BY <3>1, <3>2 DEF Claimed, Row
    <3> QED
      BY <3>2, <3>3
  <2>5. CASE /\ row[j].status \in {"launching", "running"}
             /\ \E p \in Pid : row'[j] = [row[j] EXCEPT !.owner = p]
    BY <2>5 DEF Row, OwnedActive
  <2>6. CASE /\ row[j].owner \in Pid
             /\ row'[j] = [row[j] EXCEPT !.status = "notification_pending", !.exported = TRUE]
    BY <2>6 DEF Row, OwnedActive
  <2>7. CASE \/ row'[j] = [row[j] EXCEPT !.lease = FALSE]
             \/ row'[j] = [row[j] EXCEPT !.cooling = FALSE]
    BY <2>7 DEF Row
  <2> QED
    BY <2>1, <2>2, <2>3, <2>4, <2>5, <2>6, <2>7 DEF RowStep, Loosens
<1> QED
  BY <1>1, <1>2, <1>3, <1>4

\* A row that is being worked on names the process, and only such a row does,
\* in every interleaving: no UPDATE of the registry forgets to
\* clear worker_pid or writes it into a stopped row.
THEOREM OwnerNamed == Spec => []WorkNamesItsOwner
<1>1. Init => WorkNamesItsOwner
  BY DEF Init, WorkNamesItsOwner, NoRow, OwnedActive
<1>2. TypeOK /\ WorkNamesItsOwner /\ [Next]_vars => WorkNamesItsOwner'
  <2> SUFFICES ASSUME TypeOK, WorkNamesItsOwner, [Next]_vars, NEW j \in Job
               PROVE  NamesItsOwner(row'[j])
    BY DEF WorkNamesItsOwner, NamesItsOwner
  <2>1. row[j] \in Row /\ NamesItsOwner(row[j])
    BY DEF TypeOK, WorkNamesItsOwner, NamesItsOwner
  <2> QED
    BY <2>1, NextRowStep, StepNames
<1> QED
  BY <1>1, <1>2, TypeCorrect, PTL DEF Spec
-----------------------------------------------------------------------------
(* The contract.  Only the launch, the claim and the end of a lease change     *)
(* what the contract sees of a row, other than by taking it back.             *)

Registers(r) == r.status \in {"launching", "running"}
Leases(r) == r.status = "launching" /\ r.lease

LEMMA LoosensRow ==
  ASSUME TypeOK, NEW j \in Job, Loosens(j)
  PROVE  \/ ~Registers(row'[j])
         \/ /\ Registers(row'[j]) <=> Registers(row[j])
            /\ Leases(row'[j]) <=> Leases(row[j])
<1>r. row[j] \in Row
  BY DEF TypeOK
<1>s. {"notification_pending", "export_running"} \subseteq Status \ {"launching", "running"}
  BY DEF Status, Active
<1>1. ASSUME NEW s \in Stopped, row'[j] = Release(row[j], s)
      PROVE  ~Registers(row'[j])
  <2>1. s \in Status /\ s \notin {"launching", "running"}
    BY DEF Stopped, OwnedActive
  <2> QED
    BY <1>1, <1>r, <2>1, StatusAndOwner DEF Registers
<1>2. CASE \/ \E count \in 0..MaxProgress, retryable \in BOOLEAN :
                row'[j] = Failed(row[j], count, retryable)
           \/ row'[j] = Finished(row[j])
  BY <1>2, <1>r, StatusAndOwner DEF Registers
<1>7. ASSUME NEW p \in Pid, NEW s \in {"notification_pending", "export_running"},
             row'[j] = [Claimed(row[j], p, s) EXCEPT !.resumable = TRUE]
      PROVE  ~Registers(row'[j])
  BY <1>7, <1>r, <1>s, StatusAndOwner DEF Registers
<1>3. CASE row'[j] = [row[j] EXCEPT !.status = "notification_pending", !.exported = TRUE]
  BY <1>3, <1>r DEF Registers, Row
<1>4. CASE \E phase \in Position : row'[j] = Register(row[j], phase)
  <2>1. PICK phase \in Position : row'[j] = Register(row[j], phase)
    BY <1>4
  <2>2. CASE row[j].status = "absent"
    BY <1>r, <2>1, <2>2, StatusAndOwner DEF Registers
  <2>3. CASE row[j].status # "absent"
    BY <1>r, <2>1, <2>3 DEF Register, Row, Registers, Leases
  <2> QED
    BY <2>2, <2>3
<1>5. CASE \E position \in Position : row'[j] = Reported(row[j], position)
  BY <1>5, <1>r DEF Reported, Row, Registers, Leases
<1>6. CASE \/ row'[j] = row[j]
           \/ \E p \in Pid : row'[j] = [row[j] EXCEPT !.owner = p]
           \/ row'[j] = [row[j] EXCEPT !.cooling = FALSE]
  BY <1>6, <1>r DEF Row, Registers, Leases
<1> QED
  BY <1>1, <1>2, <1>3, <1>4, <1>5, <1>6, <1>7 DEF Loosens

\* Rows that are only taken back leave the contract, whoever takes them.
LEMMA LoosensLeaves ==
  ASSUME TypeOK, \A j \in Job : Loosens(j), rpc' = rpc
  PROVE  Contract!Next
<1> DEFINE gone == {j \in Job : ~Registers(row'[j])}
<1>1. \A j \in Job : \/ j \in gone
                     \/ /\ Registers(row'[j]) <=> Registers(row[j])
                        /\ Leases(row'[j]) <=> Leases(row[j])
  BY LoosensRow
<1>2. \A r : Leases(r) => Registers(r)
  BY DEF Leases, Registers
<1>3. Contract!Leave(gone)
  BY <1>1, <1>2 DEF Contract!Leave, Registered, Registers, Leases
<1>4. gone \in SUBSET Job
  OBVIOUS
<1> QED
  BY <1>3, <1>4 DEF Contract!Next, Contract!Leave

\* The flock: a launcher inside its guard keeps the exclusive side out.
LockKept == Sharing # {} => rpc = "off"

LEMMA LockStep ==
  ASSUME TypeOK, LockKept, [Next]_vars
  PROVE  LockKept'
<1> USE DEF LockKept, Sharing
<1>1. ASSUME NEW l \in Launcher, LauncherNext(l)
      PROVE  LockKept'
  <2>1. rpc' = rpc
    BY <1>1 DEF LauncherNext, ResumeClicked, AutoResumeChosen, StorageResumeChosen, Decide,
         Poll, EnterGuard, ReconcileGuarded, CheckActive, CommitLaunch, SpawnWorker,
         SpawnFails, RecordPid, LauncherDies, LauncherRestarts
  <2>2. \A k \in Launcher \ {l} : lpc'[k] = lpc[k]
    BY <1>1 DEF LauncherNext, ResumeClicked, AutoResumeChosen, StorageResumeChosen, Decide,
         Poll, EnterGuard, ReconcileGuarded, CheckActive, CommitLaunch, SpawnWorker,
         SpawnFails, RecordPid, LauncherDies, LauncherRestarts, Look, Tidy, Return, Leave,
         Step, TypeOK, LaunchersOK
  <2>3. lpc'[l] \in Guarded => lpc[l] \in Guarded \/ rpc = "off"
    BY <1>1 DEF LauncherNext, ResumeClicked, AutoResumeChosen, StorageResumeChosen, Decide,
         Poll, EnterGuard, ReconcileGuarded, CheckActive, CommitLaunch, SpawnWorker,
         SpawnFails, RecordPid, LauncherDies, LauncherRestarts, Look, Tidy, Return, Leave,
         Step, TypeOK, LaunchersOK, Guarded, ExclusiveHeld
  <2> QED
    BY <2>1, <2>2, <2>3
<1>2. CASE RetentionNext
  BY <1>2 DEF RetentionNext, RetentionEnters, RetentionChecks, RetentionLeaves, launchVars
<1>3. CASE UNCHANGED <<launchVars, rpc>>
  BY <1>3 DEF launchVars
<1>4. ASSUME NEW p \in Pid, WorkerNext(p) \/ FinalizerNext(p) \/ Crash(p)
      PROVE  UNCHANGED <<launchVars, rpc>>
  BY <1>4 DEF WorkerNext, FinalizerNext, Crash, Admitted, AdmissionBlocked, ClaimJob, Advance,
       Heartbeat, ResourcePause, FinishResumable, RunFails, MarkComputed, PrepareFinalization,
       LaunchFinalizer, LegacyFinish, FinalizerReads, FinalizerPrepares, FinalizerClaims,
       ExportComplete, FinishJob, ExportPaused, ExportFails, ClosingFails, Ends
<1>5. \/ \E q \in Pid, j \in Job : ResumeExport(q, j)
      \/ \E j \in Job : LeaseExpires(j) \/ CooldownEnds(j) \/ FitChanges(j)
      \/ UNCHANGED vars
      => UNCHANGED <<launchVars, rpc>>
  BY DEF ResumeExport, LeaseExpires, CooldownEnds, FitChanges, vars
<1> QED
  BY <1>1, <1>2, <1>3, <1>4, <1>5 DEF Next
-----------------------------------------------------------------------------
(* The steps of the contract. *)

\* The transaction of launch() sees no started or computing row, inside the
\* shared lock.
LEMMA LaunchContract ==
  ASSUME TypeOK, LockKept, NEW l \in Launcher, CommitLaunch(l)
  PROVE  Contract!Next \/ UNCHANGED Contract!vars
<1> DEFINE j == ljob[l]
<1>1. j \in Job /\ row[j] \in Row /\ lmode[l] \in {"manual", "auto", "storage"}
  BY DEF TypeOK, LaunchersOK, CommitLaunch
<1>2. rpc = "off" /\ rpc' = rpc
  BY DEF CommitLaunch, LockKept, Sharing, Guarded
<1>3. CASE UNCHANGED row
  BY <1>2, <1>3 DEF Contract!vars, Registered
<1>4. CASE /\ \A k \in Job : row[k].status \notin {"launching", "running"}
           /\ Write(j, Launched(row[j], lmode[l]))
  <2>1. row'[j] = Launched(row[j], lmode[l]) /\ \A k \in Job \ {j} : row'[k] = row[k]
    BY <1>1, <1>4, WriteStep
  <2>2. Launched(row[j], lmode[l]).status = "launching" /\ Launched(row[j], lmode[l]).lease
    BY <1>1 DEF Launched, Launching, Row
  <2>3. Contract!Launch(j)
    BY <1>1, <1>2, <1>4, <2>1, <2>2 DEF Contract!Launch, Registered
  <2> QED
    BY <1>1, <2>3 DEF Contract!Next, Contract!Launch
<1> QED
  BY <1>3, <1>4 DEF CommitLaunch

\* The transaction of claim() sees no lease but its own job's.
LEMMA ClaimContract ==
  ASSUME TypeOK, NEW p \in Pid, ClaimJob(p)
  PROVE  Contract!Next \/ UNCHANGED Contract!vars
<1> DEFINE j == task[p]
<1>1. j \in Job /\ row[j] \in Row /\ rpc' = rpc
  BY ProcessTask DEF ClaimJob
<1>2. CASE UNCHANGED row
  BY <1>1, <1>2 DEF Contract!vars, Registered
<1>3. CASE Write(j, Release(row[j], "maintenance_blocked"))
  <2>1. "maintenance_blocked" \in Stopped
    BY DEF Stopped, Status, OwnedActive
  <2>2. \A k \in Job : Loosens(k)
    BY <1>1, <1>3, <2>1, WriteStep DEF Loosens
  <2> QED
    BY <1>1, <2>2, LoosensLeaves
<1>4. CASE ~ExclusiveHeld /\ CanClaim(j) /\ Write(j, Claimed(row[j], p, "running"))
  <2>1. row'[j] = Claimed(row[j], p, "running") /\ \A k \in Job \ {j} : row'[k] = row[k]
    BY <1>1, <1>4, WriteStep
  <2>2. /\ Claimed(row[j], p, "running").status = "running"
        /\ Claimed(row[j], p, "running").lease = FALSE
    BY <1>1 DEF Claimed, Row
  <2>3. \A k \in Job \ {j} : ~(row[k].status = "launching" /\ row[k].lease)
    BY <1>4 DEF CanClaim
  <2>4. Contract!Claim(j)
    BY <1>1, <1>4, <2>1, <2>2, <2>3 DEF Contract!Claim, Registered, ExclusiveHeld
  <2> QED
    BY <1>1, <2>4 DEF Contract!Next, Contract!Claim
<1> QED
  BY <1>2, <1>3, <1>4 DEF ClaimJob

LEMMA RetentionContract ==
  ASSUME TypeOK, RetentionNext
  PROVE  Contract!Next \/ UNCHANGED Contract!vars
<1>1. UNCHANGED row
  BY DEF RetentionNext, RetentionEnters, RetentionChecks, RetentionLeaves
<1>2. CASE RetentionEnters
  BY <1>1, <1>2 DEF RetentionEnters, Contract!vars, Registered
<1>3. CASE RetentionChecks
  <2>1. CASE rpc' = "off"
    BY <1>1, <1>3, <2>1 DEF RetentionChecks, Contract!vars, Registered
  <2>2. CASE rpc' = "apply" /\ \A j \in Job : row[j].status \notin Active
    <3>1. Contract!Retain
      BY <1>1, <1>3, <2>2 DEF RetentionChecks, Contract!Retain, Registered, Active
    <3> QED
      BY <3>1 DEF Contract!Next
  <2> QED
    BY <1>3, <2>1, <2>2 DEF RetentionChecks
<1>4. CASE RetentionLeaves
  <2>1. Contract!Release
    BY <1>1, <1>4 DEF RetentionLeaves, Contract!Release, Registered
  <2> QED
    BY <2>1 DEF Contract!Next
<1> QED
  BY <1>2, <1>3, <1>4 DEF RetentionNext

LEMMA TimeContract ==
  ASSUME TypeOK, NEW j \in Job, LeaseExpires(j)
  PROVE  Contract!Next
<1>1. row[j] \in Row /\ rpc' = rpc
  BY DEF TypeOK, LeaseExpires
<1>2. /\ row'[j] = [row[j] EXCEPT !.lease = FALSE]
      /\ \A k \in Job \ {j} : row'[k] = row[k]
  BY WriteStep DEF LeaseExpires
<1>3. row'[j].status = row[j].status /\ row'[j].lease = FALSE
  BY <1>1, <1>2 DEF Row
<1>e. row[j].status = "launching" /\ row[j].lease
  BY DEF LeaseExpires
<1>5. /\ \A k \in Job : row'[k].status = row[k].status
      /\ \A k \in Job : row'[k].lease <=> row[k].lease /\ k # j
  BY <1>2, <1>3
<1>6. Registered' = Registered
  BY <1>5 DEF Registered
<1>7. Contract!Expire(j)
  BY <1>1, <1>5, <1>6, <1>e DEF Contract!Expire, Registered
<1> QED
  BY <1>7 DEF Contract!Next, Contract!Expire

LEMMA NextContract ==
  ASSUME TypeOK, LockKept, [Next]_vars
  PROVE  Contract!Next \/ UNCHANGED Contract!vars
<1>1. CASE UNCHANGED <<row, rpc>>
  BY <1>1 DEF Contract!vars, Registered
<1>2. ASSUME NEW l \in Launcher, LauncherNext(l)
      PROVE  Contract!Next \/ UNCHANGED Contract!vars
  <2>1. CommitLaunch(l) \/ \A j \in Job : Loosens(j)
    BY <1>2, LauncherRowStep
  <2>2. rpc' = rpc
    BY <1>2 DEF LauncherNext, ResumeClicked, AutoResumeChosen, StorageResumeChosen, Decide,
         Poll, EnterGuard, ReconcileGuarded, CheckActive, CommitLaunch, SpawnWorker,
         SpawnFails, RecordPid, LauncherDies, LauncherRestarts
  <2> QED
    BY <2>1, <2>2, LaunchContract, LoosensLeaves
<1>3. ASSUME NEW p \in Pid, WorkerNext(p) \/ FinalizerNext(p)
      PROVE  Contract!Next \/ UNCHANGED Contract!vars
  <2>1. ClaimJob(p) \/ \A j \in Job : Loosens(j)
    BY <1>3, WorkerRowStep, FinalizerRowStep
  <2>2. rpc' = rpc
    BY <1>3 DEF WorkerNext, FinalizerNext, Admitted, AdmissionBlocked, ClaimJob, Advance,
       Heartbeat, ResourcePause, FinishResumable, RunFails, MarkComputed, PrepareFinalization,
       LaunchFinalizer, LegacyFinish, FinalizerReads, FinalizerPrepares, FinalizerClaims,
       ExportComplete, FinishJob, ExportPaused, ExportFails, ClosingFails, Ends
  <2> QED
    BY <2>1, <2>2, ClaimContract, LoosensLeaves
<1>4. ASSUME NEW j \in Job, CooldownEnds(j)
      PROVE  Contract!Next
  <2>1. rpc' = rpc /\ \A k \in Job : Loosens(k)
    BY <1>4, WriteStep DEF CooldownEnds, Loosens
  <2> QED
    BY <2>1, LoosensLeaves
<1>5. \/ \E p \in Pid : Crash(p)
      \/ \E q \in Pid, j \in Job : ResumeExport(q, j)
      \/ \E j \in Job : FitChanges(j)
      \/ UNCHANGED vars
      => UNCHANGED <<row, rpc>>
  BY DEF Crash, ResumeExport, FitChanges, vars
<1> QED
  BY <1>1, <1>2, <1>3, <1>4, <1>5, RetentionContract, TimeContract DEF Next

\* The registry implements JobContract in every interleaving: launch() starts a
\* job when no row is started or computing, claim() never takes a job during the
\* lease of another launch, and retention, once it deletes, finds nothing
\* registered and lets nothing start or be claimed until it leaves the lock.
THEOREM ContractKept == Spec => KeepsContract
<1>1. Init => Contract!Init /\ LockKept
  BY DEF Init, Contract!Init, Registered, NoRow, LockKept
<1>2. TypeOK /\ LockKept /\ [Next]_vars => LockKept'
  BY LockStep
<1>3. TypeOK /\ LockKept /\ [Next]_vars => [Contract!Next]_(Contract!vars)
  BY NextContract
<1> QED
  BY <1>1, <1>2, <1>3, TypeCorrect, PTL DEF Spec, KeepsContract, Contract!Spec
=============================================================================
