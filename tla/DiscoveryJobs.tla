--------------------------- MODULE DiscoveryJobs ---------------------------
(***************************************************************************)
(* The Discovery job registry (discovery_jobs.py) and the processes that    *)
(* share it through one SQLite table and one flock file:                    *)
(*                                                                         *)
(*   launchers    the Streamlit page and the recovery supervisor, which     *)
(*                decide to resume a job and run launch();                  *)
(*   workers      discovery_worker.execute, which claims and computes;      *)
(*   finalizers   discovery_finalize_worker.finalize, export and notify;    *)
(*   retention    the holder of the exclusive side of the flock.            *)
(*                                                                         *)
(* Every SQLite transaction is one step.  A step that only reads and then   *)
(* decides is a step of its own wherever the decision is acted on later,    *)
(* and any process may be preempted, delayed or killed between two steps.   *)
(***************************************************************************)
EXTENDS Integers, FiniteSets

CONSTANTS
  Job,          \* job identifiers
  Pid,          \* operating-system process slots for workers and finalizers
  Launcher,     \* processes that may run launch(): UI sessions, supervisor
  None,         \* SQL NULL in worker_pid; no process, no job
  MaxAuto,      \* DISCOVERY_MAX_CONSECUTIVE_AUTO_RESUMES
  MaxProgress,  \* length of the persisted pipeline; MaxProgress = computed
  MaxHelp,      \* bound: starts and resumes by the operator per job
  Modes,        \* the launch modes in use, and "export", the page's export button
  Legacy,       \* the jobs whose checkpoint predates the incremental store
  Retention     \* does a retention executor run?

ASSUME JobsAssumption ==
  /\ MaxAuto \in Nat
  /\ MaxProgress \in Nat
  /\ MaxHelp \in Nat
  /\ None \notin Pid /\ None \notin Job
  /\ Modes \subseteq {"manual", "auto", "storage", "export"}
  /\ Legacy \subseteq Job
  /\ Retention \in BOOLEAN

Active == {"launching", "running", "computed", "export_pending",
           "export_running", "export_complete", "notification_pending"}
OwnedActive == {"launching", "running", "export_running", "notification_pending"}
StoragePaused == {"resource_paused", "admission_blocked_storage"}
Exporting == {"computed", "export_pending", "export_running",
              "export_resource_paused", "export_complete", "notification_pending"}
Status == {"absent", "resumable", "completed", "manual_intervention_required",
           "maintenance_blocked"} \cup Active \cup StoragePaused \cup Exporting

Category == {"none", "retryable", "unclassified"}

\* A progress_fingerprint: the registry's phase and progress_current, and the
\* batch counts of the incremental store.  Null stands for a phase that
\* _PHASE_ORDER does not rank, and for a fingerprint that is absent.
Null == -1
Position == {Null} \cup (0..MaxProgress)
Fingerprint == [phase: Position, count: Position]
NoFingerprint == [phase |-> Null, count |-> Null]

(***************************************************************************)
(* A registry row.  lease stands for "lease_expires_at is in the future"    *)
(* and is kept only while the row is launching: no code reads the lease of  *)
(* a row in another state.  Progress is a number: prog counts the batches     *)
(* committed to the store, phase is the phase and count the registry was      *)
(* told last, in the order of _PHASE_ORDER, whose top are the export phases. *)
(***************************************************************************)
Row == [status: Status, owner: Pid \cup {None}, lease: BOOLEAN,
        resumable: BOOLEAN, exported: BOOLEAN, category: Category,
        manual: BOOLEAN, cooling: BOOLEAN, auto: BOOLEAN,
        consecutive: 0..MaxAuto, phase: Position, fp: Fingerprint]

NoRow == [status |-> "absent", owner |-> None, lease |-> FALSE,
          resumable |-> FALSE, exported |-> FALSE, category |-> "none",
          manual |-> FALSE, cooling |-> FALSE, auto |-> FALSE,
          consecutive |-> 0, phase |-> Null, fp |-> NoFingerprint]

VARIABLES
  row,       \* [Job -> Row], the table discovery_job_runtime
  prog,      \* [Job -> position], the incremental store's persisted progress
  computed,  \* [Job -> BOOLEAN], the incremental store's status = "computed"
  fit,       \* [Job -> BOOLEAN], store, snapshots and resources allow a resume
  pc,        \* [Pid -> step], "dead" for a process slot not in use
  task,      \* [Pid -> Job], the --job-id of the process
  lpc,       \* [Launcher -> step]
  ljob,      \* [Launcher -> Job], the job of the call in progress
  lmode,     \* [Launcher -> mode of the call in progress]
  lpid,      \* [Launcher -> pid returned by Popen, until it is recorded]
  lseen,     \* [Launcher -> rows reconcile() read and their owners, until it writes]
  rpc,       \* retention: "off", "check" or "apply"; not "off" = holds LOCK_EX
  helped     \* history: starts and resumes by the operator per job

storeVars == <<prog, computed>>
procVars == <<pc, task>>
launchVars == <<lpc, ljob, lmode, lpid, lseen>>
vars == <<row, storeVars, fit, procVars, launchVars, rpc, helped>>

ProcessSteps == {"dead", "admit", "claim", "run", "handoff", "launchfin", "handed",
                 "fboot", "fprep", "fclaim", "export", "notify", "closed"}
Guarded == {"tidy", "relook", "retidy", "active", "commit"}   \* inside LOCK_SH
LauncherSteps == {"dead", "idle", "poll", "enter", "spawn", "record"} \cup Guarded

ProcessesOK ==
  /\ pc \in [Pid -> ProcessSteps]
  /\ task \in [Pid -> Job \cup {None}]
  /\ \A p \in Pid : pc[p] # "dead" => task[p] \in Job

LaunchersOK ==
  /\ lpc \in [Launcher -> LauncherSteps]
  /\ ljob \in [Launcher -> Job \cup {None}]
  /\ lmode \in [Launcher -> {"manual", "auto", "storage"}]
  /\ lpid \in [Launcher -> Pid \cup {None}]
  /\ lseen \in [Launcher -> SUBSET (Job \X (Pid \cup {None}))]
  /\ \A l \in Launcher : /\ lpc[l] \notin {"dead", "idle", "poll"} => ljob[l] \in Job
                         /\ lpc[l] = "record" => lpid[l] \in Pid

\* The type of every variable; a running process has a job, and a launcher at
\* work has a job and, once Popen returned, a pid.
TypeOK ==
  /\ row \in [Job -> Row]
  /\ prog \in [Job -> 0..MaxProgress]
  /\ computed \in [Job -> BOOLEAN]
  /\ fit \in [Job -> BOOLEAN]
  /\ ProcessesOK
  /\ LaunchersOK
  /\ rpc \in {"off", "check", "apply"}
  /\ helped \in [Job -> 0..MaxHelp]

Init ==
  /\ row = [j \in Job |-> NoRow]
  /\ prog = [j \in Job |-> 0]
  /\ computed = [j \in Job |-> FALSE]
  /\ fit = [j \in Job |-> j \notin Legacy]
  /\ pc = [p \in Pid |-> "dead"]
  /\ task = [p \in Pid |-> None]
  /\ lpc = [l \in Launcher |-> "idle"]
  /\ ljob = [l \in Launcher |-> None]
  /\ lmode = [l \in Launcher |-> "manual"]
  /\ lpid = [l \in Launcher |-> None]
  /\ lseen = [l \in Launcher |-> {}]
  /\ rpc = "off"
  /\ helped = [j \in Job |-> 0]

-----------------------------------------------------------------------------
(* Processes and the flock.                                                 *)

Alive(p) == p # None /\ pc[p] # "dead"

\* A slot for a new process.  The kernel reuses a pid only after a long time,
\* so one still written in a row or in a launcher's memory is not reused.
Free(p) == /\ pc[p] = "dead"
           /\ \A j \in Job : row[j].owner # p
           /\ \A l \in Launcher : lpid[l] # p

StartProcess(p, j, step) ==
  /\ pc' = [pc EXCEPT ![p] = step]
  /\ task' = [task EXCEPT ![p] = j]

GoTo(p, step) == pc' = [pc EXCEPT ![p] = step] /\ UNCHANGED task
Exit(p) == /\ pc' = [pc EXCEPT ![p] = "dead"]
           /\ task' = [task EXCEPT ![p] = None]

Sharing == {l \in Launcher : lpc[l] \in Guarded}
HeldForCheck == rpc = "check"   \* variant: released before the deletions
ExclusiveHeld == rpc # "off"

Leave(l, step) == /\ lpc' = [lpc EXCEPT ![l] = step]
                  /\ lpid' = [lpid EXCEPT ![l] = None]
                  /\ lseen' = [lseen EXCEPT ![l] = {}]
                  /\ ljob' = [ljob EXCEPT ![l] = None]
                  /\ lmode' = [lmode EXCEPT ![l] = "manual"]
Return(l) == Leave(l, "idle")
Step(l, step) == lpc' = [lpc EXCEPT ![l] = step]
                 /\ UNCHANGED <<ljob, lmode, lpid, lseen>>

-----------------------------------------------------------------------------
(* The UPDATE statements of the registry, as functions of the row.          *)

Write(j, r) == row' = [row EXCEPT ![j] = r]

\* The phase written with a status is unranked for the blocked ones and the
\* paused export, and at the top for export_pending; the others write the phase
\* the worker had reached.
Release(r, status) ==
  [r EXCEPT !.status = status, !.owner = None, !.lease = FALSE, !.resumable = TRUE,
            !.phase = CASE status \in {"admission_blocked_storage", "maintenance_blocked",
                                       "export_resource_paused"} -> Null
                        [] status \in {"export_pending", "completed"} -> MaxProgress
                        [] OTHER -> @]

\* phase is the phase of the checkpoint that is registered.
Register(r, phase) ==
  IF r.status = "absent"
  THEN [NoRow EXCEPT !.status = "resumable", !.resumable = TRUE, !.phase = phase]
  ELSE [r EXCEPT !.resumable = TRUE, !.consecutive = 0, !.manual = FALSE,
                 !.cooling = FALSE, !.phase = phase]

Launching(r) == [r EXCEPT !.status = "launching", !.owner = None, !.lease = TRUE]

\* Variant: a storage resume counts as an automatic one.
LaunchedCounted(r, mode) ==
  IF mode = "manual" THEN [Launching(r) EXCEPT !.consecutive = 0]
  ELSE [Launching(r) EXCEPT !.consecutive = @ + 1, !.auto = TRUE]

Launched(r, mode) ==
  CASE mode = "auto"    -> [Launching(r) EXCEPT !.consecutive = @ + 1, !.auto = TRUE]
    [] mode = "storage" -> Launching(r)
    [] mode = "manual"  -> [Launching(r) EXCEPT !.consecutive = 0,
                                                !.manual = FALSE, !.cooling = FALSE]

Claimed(r, p, status) ==
  [r EXCEPT !.status = status, !.owner = p, !.lease = FALSE]

\* progress_advanced(): either part moved up from a value that is there.
Advanced(before, after) ==
  \/ before.phase # Null /\ after.phase > before.phase
  \/ before.count # Null /\ after.count > before.count

\* heartbeat(): its fingerprint knows the registry only, so count is 0.
Reported(r, position) ==
  LET print == [phase |-> position, count |-> 0]
  IN IF r.auto /\ Advanced(r.fp, print)
     THEN [r EXCEPT !.phase = position, !.consecutive = 0, !.fp = print]
     ELSE [r EXCEPT !.phase = position]

\* Variant: the failed worker stays in the row.
FailedOwned(r, count, retryable) ==
  [r EXCEPT !.status = "resumable", !.resumable = TRUE,
            !.category = IF retryable THEN "retryable" ELSE "unclassified"]

\* fail(): count is the store's for a worker, 0 when the caller has no store.
Failed(r, count, retryable) ==
  LET print == [phase |-> r.phase, count |-> count]
      n == IF Advanced(r.fp, print) THEN 0 ELSE r.consecutive
      stop == retryable /\ n >= MaxAuto /\ r.auto
  IN [Release(r, IF stop THEN "manual_intervention_required" ELSE "resumable")
        EXCEPT !.category = IF retryable THEN "retryable" ELSE "unclassified",
               !.manual = stop, !.cooling = retryable /\ ~stop,
               !.consecutive = n, !.fp = print]

Finished(r) == [Release(r, "completed") EXCEPT !.resumable = FALSE, !.exported = TRUE]

\* Variant: the finalizer's states are not looked at.
WatchedWorkers == {<<j, row[j].owner>> : j \in {k \in Job :
                     \/ row[k].status = "launching" /\ ~row[k].lease
                     \/ row[k].status = "running"}}

\* reconcile(): the rows somebody should own, and who, at its SELECT; and the
\* rows it gives back, those whose owner is gone when it comes to write.
Watched == {<<j, row[j].owner>> : j \in {k \in Job :
              row[k].status \in OwnedActive /\ ~(row[k].status = "launching" /\ row[k].lease)}}
Abandoned(seen) == {j \in Job : \E o \in Pid \cup {None} : <<j, o>> \in seen /\ ~Alive(o)}
Reconciled(seen) == [j \in Job |-> IF j \in Abandoned(seen)
                                   THEN Release(row[j], "resumable") ELSE row[j]]

-----------------------------------------------------------------------------
(* Launchers: the decision to resume, then launch().                        *)

Decide(l, j, mode) ==
  /\ lpc[l] = "idle"
  /\ mode \in Modes
  /\ lpc' = [lpc EXCEPT ![l] = "enter"]
  /\ ljob' = [ljob EXCEPT ![l] = j]
  /\ lmode' = [lmode EXCEPT ![l] = mode]
  /\ UNCHANGED <<lpid, lseen, storeVars, fit, procVars, rpc>>

\* The operator starts or resumes a job on the page: register_checkpoint under
\* the shared guard (it raises, changing nothing, while retention holds the
\* lock), then launch().
ResumeClicked(l, j, phase) ==
  /\ ~ExclusiveHeld
  /\ helped[j] < MaxHelp
  /\ phase <= prog[j]
  /\ \/ row[j].status = "absent"
     \/ /\ row[j].resumable
        /\ row[j].status \notin Active \cup {"export_resource_paused"}
  /\ Write(j, Register(row[j], phase))
  /\ helped' = [helped EXCEPT ![j] = @ + 1]
  /\ Decide(l, j, "manual")

OthersInactive(j) == \A k \in Job \ {j} : row[k].status \notin Active

\* run_once() found a retryable stopped job and evaluate_autoresume() agreed.
\* The reconcile() calls of both are the Poll steps of the same process.
AutoResumeChosen(l, j) ==
  /\ row[j].status = "resumable" /\ row[j].resumable
  /\ row[j].category = "retryable" /\ ~row[j].manual
  /\ ~row[j].cooling
  /\ row[j].consecutive < MaxAuto
  /\ ~Alive(row[j].owner)
  /\ OthersInactive(j)
  /\ fit[j]
  /\ Decide(l, j, "auto")
  /\ UNCHANGED <<row, helped>>

\* run_once() found a job stopped for space and storage admits it now, perhaps
\* after a recovery.
StorageResumeChosen(l, j) ==
  /\ row[j].status \in StoragePaused /\ row[j].resumable
  /\ OthersInactive(j)
  /\ Decide(l, j, "storage")
  /\ UNCHANGED <<row, helped>>

\* The two halves of a reconcile(): a SELECT, then process_alive() for each row
\* and UPDATEs that name the job only.
Look(l, from, to) ==
  /\ lpc[l] = from
  /\ lseen' = [lseen EXCEPT ![l] = Watched]
  /\ lpc' = [lpc EXCEPT ![l] = to]
  /\ UNCHANGED <<row, ljob, lmode, lpid>>

Tidy(l, from, to) ==
  /\ lpc[l] = from
  /\ row' = Reconciled(lseen[l])
  /\ lseen' = [lseen EXCEPT ![l] = {}]
  /\ lpc' = [lpc EXCEPT ![l] = to]
  /\ UNCHANGED <<ljob, lmode, lpid>>

\* latest_active() on the page, or the supervisor's reconcile().
Poll(l) ==
  /\ (Look(l, "idle", "poll") /\ Watched # {}) \/ Tidy(l, "poll", "idle")
  /\ UNCHANGED <<storeVars, fit, procVars, rpc, helped>>

\* launch(): LOCK_SH without waiting, then reconcile().  When retention holds the
\* lock the exception handler calls maintenance_blocked() on the row as it is.
EnterGuard(l) ==
  /\ \/ /\ ExclusiveHeld /\ lpc[l] = "enter"
        /\ Write(ljob[l], Release(row[ljob[l]], "maintenance_blocked")) /\ Return(l)
     \/ (~ExclusiveHeld /\ Look(l, "enter", "tidy"))
  /\ UNCHANGED <<storeVars, fit, procVars, rpc, helped>>

\* launch(): the rest of reconcile(), then latest_active(), with its own.
ReconcileGuarded(l) ==
  /\ Tidy(l, "tidy", "relook") \/ Look(l, "relook", "retidy") \/ Tidy(l, "retidy", "active")
  /\ UNCHANGED <<storeVars, fit, procVars, rpc, helped>>

CheckActive(l) ==
  /\ lpc[l] = "active"
  /\ IF \E j \in Job : row[j].status \in Active THEN Return(l) ELSE Step(l, "commit")
  /\ UNCHANGED <<row, storeVars, fit, procVars, rpc, helped>>

\* Variant: off by one.
EligibleEarly(r, mode) ==
  /\ mode = "auto" => r.status = "resumable" /\ r.consecutive < MaxAuto - 1
  /\ mode = "storage" => r.status \in StoragePaused
  /\ mode # "manual" => ~Alive(r.owner)

Eligible(r, mode) ==
  /\ mode = "auto" =>
       /\ r.status = "resumable" /\ r.resumable
       /\ r.category = "retryable" /\ ~r.manual
       /\ r.consecutive < MaxAuto /\ ~r.cooling
  /\ mode = "storage" => r.status \in StoragePaused /\ r.resumable /\ ~r.manual
  /\ mode # "manual" => ~Alive(r.owner)

\* launch(): the BEGIN IMMEDIATE transaction; leaving the guard follows it.
CommitLaunch(l) ==
  LET j == ljob[l] IN
  /\ lpc[l] = "commit"
  /\ IF /\ Eligible(row[j], lmode[l])
        /\ \A k \in Job : row[k].status \notin {"launching", "running"}
     THEN Write(j, Launched(row[j], lmode[l])) /\ Step(l, "spawn")
     ELSE Return(l) /\ UNCHANGED row
  /\ UNCHANGED <<storeVars, fit, procVars, rpc, helped>>

\* Popen succeeds, or raises and fail() records an unclassified failure.
SpawnWorker(l, p) ==
  /\ lpc[l] = "spawn" /\ Free(p)
  /\ StartProcess(p, ljob[l], "admit")
  /\ lpc' = [lpc EXCEPT ![l] = "record"]
  /\ lpid' = [lpid EXCEPT ![l] = p]
  /\ UNCHANGED <<row, storeVars, fit, ljob, lmode, lseen, rpc, helped>>

SpawnFails(l) ==
  LET j == ljob[l] IN
  /\ lpc[l] = "spawn"
  /\ Write(j, Failed(row[j], 0, FALSE))
  /\ Return(l)
  /\ UNCHANGED <<storeVars, fit, procVars, rpc, helped>>

\* launch(): the last UPDATE writes the child's pid, whoever owns the row.
RecordPid(l) ==
  LET j == ljob[l] IN
  /\ lpc[l] = "record"
  /\ IF row[j].status \in {"launching", "running"}
     THEN Write(j, [row[j] EXCEPT !.owner = lpid[l]])
     ELSE UNCHANGED row
  /\ Return(l)
  /\ UNCHANGED <<storeVars, fit, procVars, rpc, helped>>

\* The launching process dies in the middle of a call; the kernel drops its
\* flock, and launchd or the operator starts another one.
LauncherDies(l) ==
  /\ lpc[l] \notin {"dead", "idle"}
  /\ Leave(l, "dead")
  /\ UNCHANGED <<row, storeVars, fit, procVars, rpc, helped>>

LauncherRestarts(l) ==
  /\ lpc[l] = "dead"
  /\ Return(l)
  /\ UNCHANGED <<row, storeVars, fit, procVars, rpc, helped>>

-----------------------------------------------------------------------------
(* Workers: discovery_worker.execute.                                       *)

\* Storage admission, with or without a storage recovery first.
Admitted(p) ==
  /\ pc[p] = "admit"
  /\ GoTo(p, "claim")
  /\ UNCHANGED <<row, storeVars, fit, launchVars, rpc, helped>>

AdmissionBlocked(p) ==
  /\ pc[p] = "admit"
  /\ Write(task[p], Release(row[task[p]], "admission_blocked_storage"))
  /\ Exit(p)
  /\ UNCHANGED <<storeVars, fit, launchVars, rpc, helped>>

CanClaim(j) ==
  /\ row[j].status # "absent"
  /\ ~(row[j].status = "running" /\ Alive(row[j].owner))
  /\ \A k \in Job \ {j} : row[k].status \in {"launching", "running"} =>
       /\ ~(row[k].status = "launching" /\ row[k].lease)
       /\ ~Alive(row[k].owner)

\* The shared guard around claim(): one step, since nothing between taking the
\* flock and releasing it is visible to the other processes.
ClaimJob(p) ==
  LET j == task[p] IN
  /\ pc[p] = "claim"
  /\ IF ExclusiveHeld
     THEN Write(j, Release(row[j], "maintenance_blocked")) /\ Exit(p)
     ELSE IF CanClaim(j)
          THEN Write(j, Claimed(row[j], p, "running")) /\ GoTo(p, "run")
          ELSE Exit(p) /\ UNCHANGED row
  /\ UNCHANGED <<storeVars, fit, launchVars, rpc, helped>>

\* A batch is committed to the incremental store.
Advance(p) ==
  LET j == task[p] IN
  /\ pc[p] = "run" /\ ~computed[j] /\ prog[j] < MaxProgress
  /\ prog' = [prog EXCEPT ![j] = @ + 1]
  /\ UNCHANGED <<row, computed, fit, procVars, launchVars, rpc, helped>>

\* heartbeat(): the registry learns the phase and count the process is at, which
\* a resumed run repeats from lower ones, and the legacy pipeline's are not all
\* ranked; after an automatic resume an advance clears the loop counter.  Its SELECT
\* and its guarded UPDATE are one step.
Heartbeat(p, position) ==
  LET j == task[p] IN
  /\ pc[p] \in {"run", "export", "notify"}
  /\ position <= IF pc[p] = "run" THEN prog[j] ELSE MaxProgress
  /\ position = Null => j \in Legacy
  /\ row[j].owner = p /\ row[j].status \in {"running", "export_running", "notification_pending"}
  /\ Write(j, Reported(row[j], position))
  /\ UNCHANGED <<storeVars, fit, procVars, launchVars, rpc, helped>>

\* The pause handler overwrites the status of the store, too.
ResourcePause(p) ==
  LET j == task[p] IN
  /\ pc[p] = "run"
  /\ Write(j, Release(row[j], "resource_paused"))
  /\ computed' = [computed EXCEPT ![j] = FALSE]
  /\ Exit(p)
  /\ UNCHANGED <<prog, fit, launchVars, rpc, helped>>

\* finish() with a resumable result: waiting_retry while computing, or the
\* status "computed" that the runner returns for a job already computed.
FinishResumable(p) ==
  /\ pc[p] = "run"
  /\ Write(task[p], Release(row[task[p]], "resumable"))
  /\ Exit(p)
  /\ UNCHANGED <<storeVars, fit, launchVars, rpc, helped>>

\* _record_worker_failure(), of the run and of the hand-off that follows it.  The
\* audit after Popen is in the same try: it overwrites the row that the finalizer
\* may have claimed.
Counted(j) == IF j \in Legacy THEN 0 ELSE prog[j]

RunFails(p, retryable) ==
  LET j == task[p] IN
  /\ pc[p] \in {"run", "handoff", "launchfin", "handed"}
  /\ retryable => pc[p] = "run"
  /\ Write(j, Failed(row[j], Counted(j), retryable))
  /\ Exit(p)
  /\ UNCHANGED <<storeVars, fit, launchVars, rpc, helped>>

\* The pipeline is complete: the store, the registry, then a clean interpreter.
MarkComputed(p) ==
  LET j == task[p] IN
  /\ pc[p] = "run" /\ j \notin Legacy /\ ~computed[j] /\ prog[j] = MaxProgress
  /\ computed' = [computed EXCEPT ![j] = TRUE]
  /\ GoTo(p, "handoff")
  /\ UNCHANGED <<row, prog, fit, launchVars, rpc, helped>>

PrepareFinalization(p) ==
  /\ pc[p] = "handoff"
  /\ Write(task[p], Release(row[task[p]], "export_pending"))
  /\ GoTo(p, "launchfin")
  /\ UNCHANGED <<storeVars, fit, launchVars, rpc, helped>>

LaunchFinalizer(p, q) ==
  /\ pc[p] = "launchfin" /\ Free(q)
  /\ pc' = [pc EXCEPT ![q] = "fboot", ![p] = "handed"]
  /\ task' = [task EXCEPT ![q] = task[p]]
  /\ UNCHANGED <<row, storeVars, fit, launchVars, rpc, helped>>

\* run_discovery(): a job without an incremental store is exported and finished
\* by the process that computed it.
LegacyFinish(p) ==
  LET j == task[p] IN
  /\ pc[p] = "run" /\ j \in Legacy /\ prog[j] = MaxProgress
  /\ Write(j, Finished(row[j]))
  /\ GoTo(p, "closed")
  /\ UNCHANGED <<storeVars, fit, launchVars, rpc, helped>>

-----------------------------------------------------------------------------
(* Finalizers: discovery_finalize_worker.finalize.                          *)

\* The page offers a finalizer for a paused export.  Until that process claims
\* the row nothing on the page changes, so the operator may press again.
ResumeExport(q, j) ==
  /\ "export" \in Modes
  /\ row[j].status = "export_resource_paused"
  /\ Free(q)
  /\ StartProcess(q, j, "fboot")
  /\ UNCHANGED <<row, storeVars, fit, launchVars, rpc, helped>>

FinalizerReads(q) ==
  /\ pc[q] = "fboot"
  /\ GoTo(q, IF row[task[q]].status \in Exporting THEN "fclaim" ELSE "fprep")
  /\ UNCHANGED <<row, storeVars, fit, launchVars, rpc, helped>>

FinalizerPrepares(q) ==
  /\ pc[q] = "fprep"
  /\ Write(task[q], Release(row[task[q]], "export_pending"))
  /\ GoTo(q, "fclaim")
  /\ UNCHANGED <<storeVars, fit, launchVars, rpc, helped>>

\* claim_finalization(), or the RuntimeError when it returns False.
FinalizerClaims(q) ==
  LET r == row[task[q]]
      next == IF r.exported /\ r.status \in {"export_complete", "notification_pending"}
              THEN "notification_pending" ELSE "export_running"
  IN
  /\ pc[q] = "fclaim"
  /\ IF /\ r.status \in Exporting \cup {"running", "resumable"}
        /\ ~(r.owner # q /\ Alive(r.owner))
     THEN /\ Write(task[q], [Claimed(r, q, next) EXCEPT !.resumable = TRUE])
          /\ GoTo(q, "export")
     ELSE Exit(q) /\ UNCHANGED row
  /\ UNCHANGED <<storeVars, fit, launchVars, rpc, helped>>

\* The workbook is valid: mark_export_complete(), guarded by pid and status.
ExportComplete(q) ==
  LET j == task[q] IN
  /\ pc[q] = "export"
  /\ IF row[j].owner = q /\ row[j].status = "export_running"
     THEN Write(j, [row[j] EXCEPT !.status = "notification_pending", !.exported = TRUE])
     ELSE UNCHANGED row
  /\ GoTo(q, "notify")
  /\ UNCHANGED <<storeVars, fit, launchVars, rpc, helped>>

\* The notification is sent, the terminal summary committed, and finish().
FinishJob(q) ==
  /\ pc[q] = "notify"
  /\ Write(task[q], Finished(row[task[q]]))
  /\ GoTo(q, "closed")
  /\ UNCHANGED <<storeVars, fit, launchVars, rpc, helped>>

ExportPaused(q) ==
  LET j == task[q] IN
  /\ pc[q] \in {"export", "notify"}
  /\ Write(j, Release(row[j], "export_resource_paused"))
  /\ computed' = [computed EXCEPT ![j] = TRUE]
  /\ Exit(q)
  /\ UNCHANGED <<prog, fit, launchVars, rpc, helped>>

ExportFails(q) ==
  LET j == task[q] IN
  /\ pc[q] \in {"export", "notify"}
  /\ Write(j, Failed(row[j], 0, FALSE))
  /\ computed' = [computed EXCEPT ![j] = TRUE]
  /\ Exit(q)
  /\ UNCHANGED <<prog, fit, launchVars, rpc, helped>>

\* After finish() the audit and the start of the archive maintenance are still
\* in the try: an exception fails the completed row (and a finalizer also sets
\* the store back to computed).
ClosingFails(q) ==
  LET j == task[q] IN
  /\ pc[q] = "closed"
  /\ Write(j, Failed(row[j], 0, FALSE))
  /\ computed' = [computed EXCEPT ![j] = j \notin Legacy]
  /\ Exit(q)
  /\ UNCHANGED <<prog, fit, launchVars, rpc, helped>>

\* The process has nothing left to do.
Ends(p) ==
  /\ pc[p] \in {"handed", "closed"}
  /\ Exit(p)
  /\ UNCHANGED <<row, storeVars, fit, launchVars, rpc, helped>>

\* Any process may be killed at any step.
Crash(p) ==
  /\ pc[p] # "dead"
  /\ Exit(p)
  /\ UNCHANGED <<row, storeVars, fit, launchVars, rpc, helped>>

-----------------------------------------------------------------------------
(* Retention: the exclusive side of the flock.  What it deletes is modelled  *)
(* elsewhere; here only the window in which it may delete.                   *)

RetentionEnters ==
  /\ Retention /\ rpc = "off" /\ Sharing = {}
  /\ rpc' = "check"
  /\ UNCHANGED <<row, storeVars, fit, procVars, launchVars, helped>>

RetentionChecks ==
  /\ rpc = "check"
  /\ rpc' = IF \E j \in Job : row[j].status \in Active \/ row[j].resumable
            THEN "off" ELSE "apply"
  /\ UNCHANGED <<row, storeVars, fit, procVars, launchVars, helped>>

RetentionLeaves ==
  /\ rpc = "apply"
  /\ rpc' = "off"
  /\ UNCHANGED <<row, storeVars, fit, procVars, launchVars, helped>>

-----------------------------------------------------------------------------
(* Time and the environment.  A launch lease lasts 60 s, whatever becomes of  *)
(* the launcher meanwhile.                                                   *)

LeaseExpires(j) ==
  /\ row[j].status = "launching" /\ row[j].lease
  /\ Write(j, [row[j] EXCEPT !.lease = FALSE])
  /\ UNCHANGED <<storeVars, fit, procVars, launchVars, rpc, helped>>

CooldownEnds(j) ==
  /\ row[j].cooling
  /\ Write(j, [row[j] EXCEPT !.cooling = FALSE])
  /\ UNCHANGED <<storeVars, fit, procVars, launchVars, rpc, helped>>

\* A supplier snapshot or the resources a resume needs are lost or come back; a
\* legacy job has no store and is never fit.  Only an automatic resume asks.
FitChanges(j) ==
  /\ j \notin Legacy /\ "auto" \in Modes
  /\ fit' = [fit EXCEPT ![j] = ~@]
  /\ UNCHANGED <<row, storeVars, procVars, launchVars, rpc, helped>>

-----------------------------------------------------------------------------
LauncherNext(l) ==
  \/ \E j \in Job : \/ \E phase \in Position : ResumeClicked(l, j, phase)
                   \/ AutoResumeChosen(l, j)
                   \/ StorageResumeChosen(l, j)
  \/ Poll(l)
  \/ EnterGuard(l) \/ ReconcileGuarded(l) \/ CheckActive(l) \/ CommitLaunch(l)
  \/ \E p \in Pid : SpawnWorker(l, p)
  \/ SpawnFails(l) \/ RecordPid(l)
  \/ LauncherDies(l) \/ LauncherRestarts(l)

WorkerNext(p) ==
  \/ Admitted(p) \/ AdmissionBlocked(p) \/ ClaimJob(p)
  \/ Advance(p) \/ \E position \in Position : Heartbeat(p, position)
  \/ ResourcePause(p) \/ FinishResumable(p)
  \/ \E retryable \in BOOLEAN : RunFails(p, retryable)
  \/ MarkComputed(p) \/ PrepareFinalization(p)
  \/ (\E q \in Pid : LaunchFinalizer(p, q)) \/ LegacyFinish(p)

FinalizerNext(q) ==
  \/ FinalizerReads(q) \/ FinalizerPrepares(q) \/ FinalizerClaims(q)
  \/ ExportComplete(q) \/ FinishJob(q)
  \/ ExportPaused(q) \/ ExportFails(q) \/ ClosingFails(q) \/ Ends(q)

RetentionNext == RetentionEnters \/ RetentionChecks \/ RetentionLeaves

Next ==
  \/ \E l \in Launcher : LauncherNext(l)
  \/ \E p \in Pid : WorkerNext(p) \/ FinalizerNext(p) \/ Crash(p)
  \/ \E q \in Pid, j \in Job : ResumeExport(q, j)
  \/ RetentionNext
  \/ \E j \in Job : LeaseExpires(j) \/ CooldownEnds(j) \/ FitChanges(j)

Spec == Init /\ [][Next]_vars

-----------------------------------------------------------------------------
(* Properties.                                                              *)

Computing == {p \in Pid : pc[p] \in {"run", "handoff"}}

\* "running job cannot be claimed or resumed twice": no two workers compute the
\* same job.
OneOwner ==
  \A p, q \in Computing : task[p] = task[q] => p = q

\* A row that says somebody works on it names the process, and no other row
\* does: reconcile() can tell every abandoned row from a stopped one.
WorkNamesItsOwner ==
  \A j \in Job :
    /\ row[j].status \in OwnedActive \ {"launching"} => row[j].owner # None
    /\ row[j].owner # None => row[j].status \in OwnedActive

\* The registry implements the contract of JobContract, whatever the schedule:
\* no job is started or claimed while retention deletes, and none during the
\* lease of another launch.
Registered == {j \in Job : row[j].status \in {"launching", "running"}}

Contract == INSTANCE JobContract WITH
  registered <- Registered,
  leased <- {j \in Registered : row[j].status = "launching" /\ row[j].lease},
  retaining <- rpc = "apply"

KeepsContract == Contract!Spec

-----------------------------------------------------------------------------
(* Fairness: a process that is not killed goes on, launchd starts the        *)
(* supervisor every minute, leases and cooldowns run out, retention ends, and *)
(* launchers are not killed for ever.                                        *)

LauncherAdvances(l) ==
  \/ Poll(l) \/ EnterGuard(l) \/ ReconcileGuarded(l) \/ CheckActive(l) \/ CommitLaunch(l)
  \/ SpawnFails(l) \/ \E p \in Pid : SpawnWorker(l, p)
  \/ RecordPid(l) \/ LauncherRestarts(l)

Fairness ==
  /\ \A l \in Launcher : WF_vars(LauncherAdvances(l))
  /\ \A p \in Pid : WF_vars(WorkerNext(p) \/ FinalizerNext(p))
  /\ \A j \in Job : /\ WF_vars(\E l \in Launcher : AutoResumeChosen(l, j))
                    /\ WF_vars(LeaseExpires(j)) /\ WF_vars(CooldownEnds(j))
  /\ WF_vars(RetentionChecks \/ RetentionLeaves)
  /\ <>[][\A l \in Launcher : ~LauncherDies(l)]_vars

FairSpec == Spec /\ Fairness

\* A job whose owner died is given back.
DeadOwnerFreed ==
  \A j \in Job : (row[j].status \in OwnedActive /\ ~Alive(row[j].owner))
     ~> (row[j].status \notin OwnedActive \/ Alive(row[j].owner))

\* A job stopped by a retryable failure does not wait for its automatic resume
\* for ever: the supervisor and the transaction of launch() agree on it, as long
\* as the store, the snapshots and the resources allow it.
AwaitsRetry(j) ==
  /\ row[j].status = "resumable" /\ row[j].category = "retryable" /\ ~row[j].manual
  /\ row[j].consecutive < MaxAuto
  /\ fit[j] /\ OthersInactive(j)

RetryableRetried == \A j \in Job : AwaitsRetry(j) ~> ~AwaitsRetry(j)

\* "Il limite di 3 auto-recovery consecutivi senza progresso": the batches and
\* the operator's actions being finitely many, so are the launches.
ResumesEnd == <>[](\A j \in Job : row[j].status # "launching")

\* "Generazione Excel in corso": a job waiting for its export gets it.
ExportPendingResolves ==
  \A j \in Job : row[j].status = "export_pending" ~> row[j].status # "export_pending"
=============================================================================
