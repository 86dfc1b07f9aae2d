---------------------------- MODULE QogitaBootstrap ----------------------------
(***************************************************************************)
(* The Qogita production bootstrap: one process under launchd that works   *)
(* in windows, two worker threads that lease products from the store, and  *)
(* the serving snapshot that readers see.  Its state is in three places:   *)
(*   - the run row and the product rows (qogita_bootstrap.py);             *)
(*   - the duty row and the serving pointer (qogita_serving.py);           *)
(*   - the memory of the process (qogita_production_bootstrap.py), which a *)
(*     crash loses.                                                        *)
(* The weekly refresh asks for the catalog by its intent lock and then     *)
(* waits for the writer lock (supplier_catalog_coordination.py), and the   *)
(* supplier archive takes the writer lock when nobody else does.           *)
(***************************************************************************)
EXTENDS Integers, FiniteSets, FiniteSetsExt

CONSTANTS
    Products,         \* the products, 1..n in the order of the queue
    Workers,          \* the worker threads
    CheckpointEvery,  \* products between two checkpoints
    ErrorLimit,       \* consecutive global errors that stop the run
    MaxAutoResumes,   \* automatic resumes without progress
    MaxWindows,       \* bound on windows
    MaxTroubles,      \* bound on deaths, on store calls that raise, on SIGTERM and on
                      \* leases that end while their worker lives, together
    MaxWeekly         \* bound on weekly refreshes

ASSUME QogitaAssumption ==
    /\ Products = 1..Cardinality(Products) /\ Workers = 1..Cardinality(Workers)
    /\ {Cardinality(Products), Cardinality(Workers), CheckpointEvery, ErrorLimit}
           \subseteq Nat \ {0}
    /\ {MaxAutoResumes, MaxWindows, MaxTroubles, MaxWeekly} \subseteq Nat

VARIABLES
    item,      \* [Products -> [status, fid, rows]]
    claim,     \* [Products -> [by, expired]]; by is a worker, Nobody or Dead
    run,       \* [status, stop, streak, done, left], the run row
    duty,      \* [state, elapsed, window], the duty row and its clock
    served,    \* products of the active serving snapshot
    active,    \* a serving snapshot is active
    pc,        \* where the process is: "down", "exited" or a step of main
    inv,       \* memory of one invocation of the workers
    worker,    \* [Workers -> [pc, product, outcome]]
    shutdown,  \* SIGTERM was received
    writer,    \* holder of the writer lock
    intent,    \* the weekly refresh holds its intent lock
    count,     \* [troubles, weekly]
    resumed,   \* history: automatic resumes since the last finished product
    taken,     \* history: claims each worker made since the intent was published
    overrun    \* history: products whose lease ended while their worker was at them

storeVars == <<item, claim, run>>
dutyVars == <<duty, served, active>>
procVars == <<pc, inv, worker, shutdown>>
lockVars == <<writer, intent>>
history == <<resumed, taken, overrun>>
vars == <<storeVars, dutyVars, procVars, lockVars, count, history>>

Nobody == 0
Dead == -1
NoClaim == [by |-> Nobody, expired |-> FALSE]
Resting == [pc |-> "done", product |-> 1, outcome |-> "none"]
NoInvocation == [budget |-> 0, reason |-> "none", graceful |-> FALSE, processed |-> 0,
                 errors |-> 0, initial |-> 0, raised |-> "none"]

-----------------------------------------------------------------------------
(* The counters that triggers keep beside the product rows.                *)

Claimable == {"pending", "fid_resolved", "retryable"}
Completed == {p \in Products : item[p].status = "enriched"}
Remaining == {p \in Products : item[p].status \in Claimable}
Released(ps) == [p \in Products |-> IF p \in ps THEN NoClaim ELSE claim[p]]
\* Claims whose worker is gone stay until their lease ends.
Orphaned(ws) == [p \in Products |-> IF claim[p].by \in ws THEN [claim[p] EXCEPT !.by = Dead]
                                    ELSE claim[p]]

\* A checkpoint writes the counters into the run row.
Status == IF Remaining = {} THEN "awaiting_promotion_review"
          ELSE IF run.status = "auto_stopped" THEN "auto_stopped" ELSE "running"

Checkpointed == [run EXCEPT !.status = Status, !.done = Cardinality(Completed),
                            !.left = Cardinality(Remaining)]

\* Variant: the streak is forgotten at every checkpoint.
StreakForgotten == [Checkpointed EXCEPT !.streak = 0]

\* ProductionHealthGuard.checkpoint: progress of this invocation ends the streak.
HealthUpdated == [Checkpointed EXCEPT
    !.streak = IF Cardinality(Completed) > inv.initial THEN 0 ELSE @]

Complete == run.status = "awaiting_promotion_review" \/ run.left = 0

-----------------------------------------------------------------------------
Init ==
    /\ item = [p \in Products |-> [status |-> "pending", fid |-> FALSE, rows |-> 0]]
    /\ claim = [p \in Products |-> NoClaim]
    /\ run = [status |-> "running", stop |-> "none", streak |-> 0, done |-> 0,
              left |-> Cardinality(Products)]
    /\ duty = [state |-> "none", elapsed |-> FALSE, window |-> 0]
    /\ served = {} /\ active = FALSE
    /\ pc = "down" /\ inv = NoInvocation
    /\ worker = [w \in Workers |-> Resting]
    /\ shutdown = FALSE
    /\ writer = "free" /\ intent = FALSE
    /\ count = [troubles |-> 0, weekly |-> 0]
    /\ resumed = 0 /\ taken = [w \in Workers |-> 0] /\ overrun = {}

-----------------------------------------------------------------------------
(* The main loop.                                                          *)

Launch ==
    /\ pc = "down"
    /\ pc' = IF run.status = "awaiting_promotion_review" THEN "exited" ELSE "loop"
    /\ shutdown' = FALSE
    /\ UNCHANGED <<storeVars, dutyVars, inv, worker, lockVars, count, history>>

\* ensure_running_window: a rest is never shortened, a window never restarted.
NeedsWindow == duty.state = "none" \/ (duty.state = "resting" /\ duty.elapsed)

Window == IF NeedsWindow
          THEN [state |-> "running", elapsed |-> FALSE, window |-> duty.window + 1]
          ELSE duty

\* One turn of the loop up to the persisted duty state.  With an intent, a
\* missing admission or a busy writer lock the turn only sleeps.
EnsureWindow ==
    /\ pc = "loop" /\ ~intent /\ writer = "free"
    /\ NeedsWindow => duty.window < MaxWindows
    /\ duty' = Window
    /\ pc' = CASE duty'.state = "completed" -> "exited"
               [] duty'.state = "auto_stopped" -> "stopped"
               [] duty'.state = "checkpointing" -> "recover"
               [] duty'.state = "running" -> "preflight"
               [] OTHER -> "loop"
    /\ UNCHANGED <<storeVars, served, active, inv, worker, shutdown, lockVars, count, history>>

\* A recoverable stop with resumes left waits for its cooldown; the rest alerts
\* the operator.
Stopped ==
    /\ pc = "stopped"
    /\ pc' = IF run.stop = "recoverable" /\ run.streak < MaxAutoResumes /\ ~shutdown
             THEN "reconcile" ELSE "exited"
    /\ UNCHANGED <<storeVars, dutyVars, inv, worker, shutdown, lockVars, count, history>>

\* An exception leaves every lock; what it says decides whether it recovers.
Fail(kind) == pc' = IF kind = "recoverable" THEN "failRecoverable" ELSE "failFatal"

\* reconcile_interrupted_window, without the writer lock.
Reconcile ==
    /\ pc = "reconcile"
    /\ IF run.status = "auto_stopped"
       THEN run' = Checkpointed /\ pc' = "resume"
       ELSE Fail("fatal") /\ UNCHANGED run
    /\ UNCHANGED <<item, claim, dutyVars, inv, worker, shutdown, lockVars, count, history>>

MayResume == active /\ run.status = "auto_stopped" /\ \A p \in Products : claim[p] = NoClaim

\* auto_resume_window, without the writer lock.
AutoResume ==
    /\ pc = "resume"
    /\ IF MayResume
       THEN /\ run' = [run EXCEPT !.status = "running", !.stop = "none", !.streak = @ + 1]
            /\ duty.elapsed => duty.window < MaxWindows
            /\ duty' = [state |-> "running", elapsed |-> FALSE,
                        window |-> IF duty.elapsed THEN duty.window + 1 ELSE duty.window]
            /\ resumed' = resumed + 1
            /\ pc' = "loop"
       ELSE Fail("fatal") /\ UNCHANGED <<run, duty, resumed>>
    /\ UNCHANGED <<item, claim, served, active, inv, worker, shutdown, lockVars, count, taken, overrun>>

\* A window that a crash left in checkpointing is closed first.
Recover ==
    /\ pc = "recover"
    /\ IF writer = "free" THEN writer' = "qogita" /\ pc' = "snapshot"
       ELSE pc' = "loop" /\ UNCHANGED writer
    /\ UNCHANGED <<storeVars, dutyVars, inv, worker, shutdown, intent, count, history>>

\* A new ProductionHealthGuard counts from the progress at the start.
NewGuard == [NoInvocation EXCEPT !.initial = run.done]

\* It checks the source and the disk, and the turn yields to a weekly refresh.
Preflight ==
    /\ pc = "preflight"
    /\ \/ pc' = (IF intent THEN "loop" ELSE "enter") /\ inv' = NewGuard
          /\ UNCHANGED count
       \/ /\ count.troubles < MaxTroubles /\ count' = [count EXCEPT !.troubles = @ + 1]
          /\ Fail("fatal") /\ UNCHANGED inv
    /\ UNCHANGED <<storeVars, dutyVars, worker, shutdown, lockVars, history>>

\* run_qogita_bootstrap_concurrent up to its pool: a fresh budget, no stop, and
\* every worker at the head of its loop.
StartPool ==
    /\ inv' = [inv EXCEPT !.budget = Cardinality(Products)]
    /\ worker' = [w \in Workers |-> [Resting EXCEPT !.pc = "top"]]

\* resume_production and the start of the worker pool.
Enter ==
    /\ pc = "enter"
    /\ IF writer = "free"
       THEN /\ writer' = "qogita"
            /\ run' = IF run.status = "awaiting_promotion_review" THEN run
                      ELSE [run EXCEPT !.status = "running", !.stop = "none"]
            /\ StartPool
            /\ pc' = "run"
       ELSE pc' = "loop" /\ UNCHANGED <<writer, run, inv, worker>>
    /\ UNCHANGED <<item, claim, dutyVars, shutdown, intent, count, history>>

-----------------------------------------------------------------------------
(* The worker threads.                                                     *)

Goto(w, at) == worker' = [worker EXCEPT ![w].pc = at]
Outcome(w, kind) == worker' = [worker EXCEPT ![w].pc = "report", ![w].outcome = kind]

StopEvent == inv.reason # "none" \/ inv.graceful

\* Variant: a worker that does not look at the intent.
DeafToIntent == shutdown \/ duty.elapsed

GracefulStop == shutdown \/ duty.elapsed \/ intent

\* The head of a worker's loop: stop, or reserve one unit of the budget.
Top(w) ==
    /\ worker[w].pc = "top"
    /\ IF StopEvent \/ (~GracefulStop /\ inv.budget = 0)
       THEN Goto(w, "finish") /\ UNCHANGED inv
       ELSE IF GracefulStop
       THEN Goto(w, "finish") /\ inv' = [inv EXCEPT !.graceful = TRUE]
       ELSE Goto(w, "claim") /\ inv' = [inv EXCEPT !.budget = @ - 1]
    /\ UNCHANGED <<storeVars, dutyVars, pc, shutdown, lockVars, count, history>>

\* Claims that may be leased again.
Expired == {p \in Remaining : claim[p].expired}

\* Variant: leases in force are taken, too.
UnleasedOrLeased == Remaining

Unleased == {p \in Remaining : claim[p] = NoClaim \/ claim[p].expired}

\* claim_batch of one product: the first of the queue nobody leases; expired
\* leases are cleared before.  With nothing to claim the worker ends.
Claim(w) ==
    /\ worker[w].pc = "claim"
    /\ IF Unleased = {}
       THEN /\ inv' = [inv EXCEPT !.budget = @ + 1]
            /\ Goto(w, "finish")
            /\ UNCHANGED <<claim, taken>>
       ELSE LET p == Min(Unleased) IN
            /\ claim' = [Released(Expired) EXCEPT ![p] = [by |-> w, expired |-> FALSE]]
            /\ worker' = [worker EXCEPT ![w].product = p,
                                        ![w].pc = IF item[p].fid THEN "offers" ELSE "resolve"]
            /\ taken' = IF intent THEN [taken EXCEPT ![w] = @ + 1] ELSE taken
            /\ UNCHANGED inv
    /\ UNCHANGED <<item, run, dutyVars, pc, shutdown, lockVars, count, resumed, overrun>>

Write(p, status) == item' = [item EXCEPT ![p].status = status]

\* persist_fid keeps the lease; a failure gives it up (persist_failure).  Nobody
\* asks whether the lease is still this worker's.
Resolve(w) ==
    /\ worker[w].pc = "resolve"
    /\ LET p == worker[w].product IN
       \/ /\ item' = [item EXCEPT ![p].status = "fid_resolved", ![p].fid = TRUE]
          /\ Goto(w, "offers")
          /\ UNCHANGED claim
       \/ Write(p, "retryable") /\ claim' = Released({p}) /\ Outcome(w, "recoverable")
       \/ Write(p, "permanent") /\ claim' = Released({p}) /\ Outcome(w, "product")
    /\ UNCHANGED <<run, dutyVars, pc, inv, shutdown, lockVars, count, history>>

\* persist_offers replaces the scenarios of the product in one transaction.
Offers(w) ==
    /\ worker[w].pc = "offers"
    /\ LET p == worker[w].product IN
       \/ /\ \E n \in {0, 1} :
                /\ item' = [item EXCEPT ![p].status = "enriched", ![p].rows = n]
                /\ Outcome(w, IF n = 0 THEN "product" ELSE "none")
          /\ resumed' = 0
       \/ Write(p, "retryable") /\ Outcome(w, "recoverable") /\ UNCHANGED resumed
       \/ Write(p, "permanent") /\ Outcome(w, "fatal") /\ UNCHANGED resumed
    /\ claim' = Released({worker[w].product})
    /\ UNCHANGED <<run, dutyVars, pc, inv, shutdown, lockVars, count, taken, overrun>>

\* _process_claimed_product: the resolver, unless the product has its fid, then
\* the offers; retries within an attempt touch no row.
Process(w) == Resolve(w) \/ Offers(w)

Errors(kind) == IF kind \in {"none", "product"} THEN 0 ELSE inv.errors + 1

Reason(kind) == IF kind = "fatal" THEN "fatal"
                ELSE IF kind = "recoverable" /\ Errors(kind) >= ErrorLimit THEN "recoverable"
                ELSE "none"

\* ProductionHealthGuard.product, under the progress lock.
Report(w) ==
    /\ worker[w].pc = "report"
    /\ LET kind == worker[w].outcome
           reason == Reason(kind)
       IN  inv' = [inv EXCEPT
                !.processed = @ + 1,
                !.errors = Errors(kind),
                !.reason = IF reason # "none" /\ @ = "none" THEN reason ELSE @,
                !.graceful = @ \/ ((reason = "none" \/ inv.reason # "none") /\ GracefulStop)]
    /\ Goto(w, IF (inv.processed + 1) % CheckpointEvery = 0 THEN "checkpoint" ELSE "top")
    /\ UNCHANGED <<storeVars, dutyVars, pc, shutdown, lockVars, count, history>>

Checkpoint(w) ==
    /\ worker[w].pc = "checkpoint"
    /\ run' = HealthUpdated
    /\ Goto(w, "top")
    /\ UNCHANGED <<item, claim, dutyVars, pc, inv, shutdown, lockVars, count, history>>

\* release_worker_claims, at the end of a worker.
Finish(w) ==
    /\ worker[w].pc = "finish"
    /\ claim' = Released({p \in Products : claim[p].by = w})
    /\ worker' = [worker EXCEPT ![w] = Resting]
    /\ UNCHANGED <<item, run, dutyVars, pc, inv, shutdown, lockVars, count, history>>

\* A store call raises: SQLite stays busy, or a checkpoint finds the disk full.
\* The claims are released, or that raises, too; the other worker goes on.
WorkerRaises(w) ==
    /\ worker[w].pc \in {"claim", "resolve", "offers", "checkpoint"}
    /\ count.troubles < MaxTroubles
    /\ count' = [count EXCEPT !.troubles = @ + 1]
    /\ inv' = [inv EXCEPT !.raised = IF @ # "none" THEN @
                                     ELSE IF worker[w].pc = "checkpoint" THEN "fatal" ELSE "recoverable"]
    /\ claim' \in {Orphaned({w}), Released({p \in Products : claim[p].by = w})}
    /\ worker' = [worker EXCEPT ![w] = Resting]
    /\ UNCHANGED <<item, run, dutyVars, pc, shutdown, lockVars, history>>

WorkerStep(w) == Top(w) \/ Claim(w) \/ Process(w) \/ Report(w) \/ Checkpoint(w) \/ Finish(w)

-----------------------------------------------------------------------------
(* The end of an invocation.                                               *)

Free(by) == IF writer = by THEN "free" ELSE writer

\* The pool is joined; an exception of a worker surfaces only now.
Join ==
    /\ pc = "run"
    /\ \A w \in Workers : worker[w].pc = "done"
    /\ IF inv.raised # "none"
       THEN Fail(inv.raised) /\ writer' = Free("qogita") /\ UNCHANGED <<run, count>>
       ELSE \/ run' = HealthUpdated /\ pc' = "joined" /\ UNCHANGED <<writer, count>>
            \/ /\ count.troubles < MaxTroubles /\ count' = [count EXCEPT !.troubles = @ + 1]
               /\ Fail("recoverable") /\ writer' = Free("qogita") /\ UNCHANGED run
    /\ UNCHANGED <<item, claim, dutyVars, inv, worker, shutdown, intent, history>>

MarkStopped(kind) ==
    /\ run' = [run EXCEPT !.status = "auto_stopped", !.stop = kind]
    /\ claim' = [p \in Products |-> NoClaim]

\* A stop reason comes first, then SIGTERM, then the end of the window; an
\* invocation that found nothing more to claim returns and is not restarted.
Joined ==
    /\ pc = "joined"
    /\ CASE inv.reason # "none" ->
              MarkStopped(inv.reason) /\ pc' = "autoStop" /\ UNCHANGED <<duty, writer>>
         [] inv.reason = "none" /\ shutdown ->
              MarkStopped("signal") /\ pc' = "autoStop" /\ UNCHANGED <<duty, writer>>
         [] inv.reason = "none" /\ ~shutdown /\ (inv.graceful \/ Complete) ->
              /\ duty' = [duty EXCEPT !.state = "checkpointing"]
              /\ pc' = "snapshot"
              /\ UNCHANGED <<run, claim, writer>>
         [] OTHER ->
              pc' = "exited" /\ writer' = Free("qogita") /\ UNCHANGED <<run, claim, duty>>
    /\ UNCHANGED <<item, served, active, inv, worker, shutdown, intent, count, history>>

AutoStop ==
    /\ pc = "autoStop"
    /\ duty' = [duty EXCEPT !.state = "auto_stopped"]
    /\ pc' = IF run.stop = "signal" THEN "exited" ELSE "loop"
    /\ writer' = Free("qogita")
    /\ UNCHANGED <<storeVars, served, active, inv, worker, shutdown, intent, count, history>>

\* The assertions of build_snapshot: every scenario of the source belongs to an
\* enriched product, and there is one.
Unfinished == {p \in Products : item[p].rows > 0 /\ item[p].status # "enriched"}
Consistent == Unfinished = {}

BuildSnapshot ==
    /\ pc = "snapshot"
    /\ IF Consistent /\ Completed # {}
       THEN served' = Completed /\ active' = TRUE /\ pc' = "close" /\ UNCHANGED writer
       ELSE Fail("fatal") /\ writer' = Free("qogita") /\ UNCHANGED <<served, active>>
    /\ UNCHANGED <<storeVars, duty, inv, worker, shutdown, intent, count, history>>

\* Variant: the rest begins with the lock still held.
CloseKeepsLock ==
    /\ pc = "close"
    /\ duty' = [duty EXCEPT !.state = IF Complete THEN "completed" ELSE "resting", !.elapsed = FALSE]
    /\ pc' = IF Complete THEN "exited" ELSE "loop"
    /\ UNCHANGED <<storeVars, served, active, inv, worker, shutdown, lockVars, count, history>>

\* mark_completed or begin_rest.
Close ==
    /\ pc = "close"
    /\ duty' = [duty EXCEPT !.state = IF Complete THEN "completed" ELSE "resting", !.elapsed = FALSE]
    /\ pc' = IF Complete THEN "exited" ELSE "loop"
    /\ writer' = Free("qogita")
    /\ UNCHANGED <<storeVars, served, active, inv, worker, shutdown, intent, count, history>>

\* The handler of main: both stops are written without the writer lock, each may
\* fail, and a recoverable failure exits so that launchd starts again.
Handler ==
    /\ pc \in {"failRecoverable", "failFatal"}
    /\ LET kind == IF pc = "failRecoverable" THEN "recoverable" ELSE "fatal" IN
       /\ \/ MarkStopped(kind) /\ UNCHANGED count
          \/ /\ count.troubles < MaxTroubles /\ count' = [count EXCEPT !.troubles = @ + 1]
             /\ UNCHANGED <<run, claim>>
       /\ pc' = IF kind = "recoverable" THEN "stopRecoverable" ELSE "stopFatal"
    /\ UNCHANGED <<item, dutyVars, inv, worker, shutdown, lockVars, history>>

HandlerStopsDuty ==
    /\ pc \in {"stopRecoverable", "stopFatal"}
    /\ \/ duty' = [duty EXCEPT !.state = "auto_stopped"] /\ UNCHANGED count
       \/ /\ count.troubles < MaxTroubles /\ count' = [count EXCEPT !.troubles = @ + 1]
          /\ UNCHANGED duty
    /\ pc' = IF pc = "stopRecoverable" THEN "down" ELSE "exited"
    /\ UNCHANGED <<storeVars, served, active, inv, worker, shutdown, lockVars, history>>

-----------------------------------------------------------------------------
(* Around the process.                                                     *)

Die ==
    /\ pc \notin {"down", "exited"}
    /\ count.troubles < MaxTroubles
    /\ count' = [count EXCEPT !.troubles = @ + 1]
    /\ pc' = "down" /\ inv' = NoInvocation
    /\ worker' = [w \in Workers |-> Resting]
    /\ claim' = Orphaned(Workers)
    /\ writer' = Free("qogita")
    /\ UNCHANGED <<item, run, dutyVars, shutdown, intent, history>>

\* A lease ends after a crash, or while its worker is still at the product.
LeaseExpires(p) ==
    /\ claim[p].by # Nobody /\ ~claim[p].expired
    /\ claim[p].by # Dead => count.troubles < MaxTroubles
    /\ claim' = [claim EXCEPT ![p].expired = TRUE]
    /\ IF claim[p].by = Dead THEN UNCHANGED <<count, overrun>>
       ELSE /\ count' = [count EXCEPT !.troubles = @ + 1]
            /\ overrun' = overrun \cup {p}
    /\ UNCHANGED <<item, run, dutyVars, procVars, lockVars, resumed, taken>>

\* The deadline of the window or the end of the rest.
TimePasses ==
    /\ duty.state # "none" /\ ~duty.elapsed
    /\ duty' = [duty EXCEPT !.elapsed = TRUE]
    /\ UNCHANGED <<storeVars, served, active, procVars, lockVars, count, history>>

Terminate ==
    /\ pc \notin {"down", "exited"} /\ ~shutdown
    /\ count.troubles < MaxTroubles
    /\ count' = [count EXCEPT !.troubles = @ + 1]
    /\ shutdown' = TRUE
    /\ UNCHANGED <<storeVars, dutyVars, pc, inv, worker, lockVars, history>>

WeeklyBegins ==
    /\ ~intent /\ writer # "weekly"
    /\ count.weekly < MaxWeekly
    /\ count' = [count EXCEPT !.weekly = @ + 1]
    /\ intent' = TRUE
    /\ taken' = [w \in Workers |-> 0]
    /\ UNCHANGED <<storeVars, dutyVars, procVars, writer, resumed, overrun>>

WeeklyTakes ==
    /\ intent /\ writer = "free"
    /\ writer' = "weekly"
    /\ UNCHANGED <<storeVars, dutyVars, procVars, intent, count, history>>

\* The refresh is done, or it dies: the kernel frees its locks.
WeeklyEnds ==
    /\ writer = "weekly"
    /\ writer' = "free" /\ intent' = FALSE
    /\ taken' = [w \in Workers |-> 0]
    /\ UNCHANGED <<storeVars, dutyVars, procVars, count, resumed, overrun>>

\* The hand-off takes more than its fifteen minutes.
WeeklyGivesUp ==
    /\ intent /\ writer \notin {"free", "weekly"}
    /\ intent' = FALSE
    /\ taken' = [w \in Workers |-> 0]
    /\ UNCHANGED <<storeVars, dutyVars, procVars, writer, count, resumed, overrun>>

ArchiveTakes ==
    /\ ~intent /\ writer = "free"
    /\ writer' = "archive"
    /\ UNCHANGED <<storeVars, dutyVars, procVars, intent, count, history>>

ArchiveEnds ==
    /\ writer = "archive"
    /\ writer' = "free"
    /\ UNCHANGED <<storeVars, dutyVars, procVars, intent, count, history>>

-----------------------------------------------------------------------------
MainStep ==
    \/ EnsureWindow \/ Stopped \/ Reconcile \/ AutoResume \/ Recover \/ Preflight \/ Enter
    \/ Join \/ Joined \/ AutoStop \/ BuildSnapshot \/ Close \/ Handler \/ HandlerStopsDuty

Next ==
    \/ Launch \/ MainStep
    \/ \E w \in Workers : WorkerStep(w) \/ WorkerRaises(w)
    \/ Die \/ Terminate \/ TimePasses
    \/ \E p \in Products : LeaseExpires(p)
    \/ WeeklyBegins \/ WeeklyTakes \/ WeeklyEnds \/ WeeklyGivesUp
    \/ ArchiveTakes \/ ArchiveEnds

Spec == Init /\ [][Next]_vars

FairSpec ==
    /\ Spec
    /\ WF_vars(Launch) /\ WF_vars(MainStep)
    /\ \A w \in Workers : WF_vars(WorkerStep(w))
    /\ WF_vars(WeeklyTakes) /\ WF_vars(WeeklyEnds) /\ WF_vars(ArchiveEnds)

-----------------------------------------------------------------------------
Statuses == {"pending", "fid_resolved", "retryable", "permanent", "enriched"}
UpTo == 0..Cardinality(Products)
Places == {"down", "exited", "loop", "stopped", "reconcile", "resume", "recover", "preflight",
           "enter", "run", "joined", "autoStop", "snapshot", "close", "failRecoverable",
           "failFatal", "stopRecoverable", "stopFatal"}
Steps == {"top", "claim", "resolve", "offers", "report", "checkpoint", "finish", "done"}

TypeOK ==
    /\ item \in [Products -> [status : Statuses, fid : BOOLEAN, rows : {0, 1}]]
    /\ claim \in [Products -> [by : Workers \cup {Nobody, Dead}, expired : BOOLEAN]]
    /\ run \in [status : {"running", "auto_stopped", "awaiting_promotion_review"},
                stop : {"none", "recoverable", "fatal", "signal"},
                streak : 0..MaxAutoResumes, done : UpTo, left : UpTo]
    /\ duty \in [state : {"none", "running", "checkpointing", "resting", "auto_stopped",
                          "completed"},
                 elapsed : BOOLEAN, window : 0..MaxWindows]
    /\ served \subseteq Products /\ active \in BOOLEAN
    /\ pc \in Places
    /\ inv \in [budget : UpTo, reason : {"none", "recoverable", "fatal"}, graceful : BOOLEAN,
                processed : UpTo, errors : Nat, initial : UpTo,
                raised : {"none", "recoverable", "fatal"}]
    /\ worker \in [Workers -> [pc : Steps, product : Products,
                               outcome : {"none", "product", "recoverable", "fatal"}]]
    /\ shutdown \in BOOLEAN
    /\ writer \in {"free", "qogita", "weekly", "archive"} /\ intent \in BOOLEAN
    /\ count \in [troubles : 0..MaxTroubles, weekly : 0..MaxWeekly]
    /\ resumed \in Nat /\ taken \in [Workers -> Nat] /\ overrun \subseteq Products

\* Scenarios of the source generation belong to enriched products, as build_snapshot
\* asserts, and a finished product stays finished, however two workers, crashes,
\* leases of the dead and retries meet; the one exception is a product whose lease
\* ended under its own worker, because persist_fid, persist_offers and
\* persist_failure do not ask who holds it.  Even then a reader never loses a product
\* or the snapshot: every new snapshot holds the products of the one before, and
\* they stay enriched.
SnapshotsOnlyGrow ==
    [][/\ Unfinished' \subseteq overrun' /\ Completed \subseteq Completed' \cup overrun'
       /\ served' \subseteq Completed' /\ served \subseteq served' /\ (active => active')]_vars

\* Automatic resumes without a finished product in between stay within
\* --max-auto-resumes, although the streak is kept in a JSON column that
\* checkpoints, stops and resumes rewrite each in its own way.
ResumesAreBounded == resumed <= MaxAutoResumes

\* Once the weekly refresh has published its intent each worker leases at most
\* the one product it was about to lease (graceful_stop_callback).
HandOffIsBounded == intent => \A w \in Workers : taken[w] <= 1

\* A weekly refresh that waits gets the writer lock, without its time-out and
\* without a death: windows, rests, snapshots, failures and the supplier archive
\* all give it way.
WeeklyGetsItsTurn == intent ~> ~intent

=============================================================================
