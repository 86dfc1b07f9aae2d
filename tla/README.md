# Verification of the Glowup Scout servers

TLA+ models of the parts of this repository where several processes share
persistent state, the TLC runs that check them on small instances, and proofs
that TLAPS checks for every size.  All definitions are translated from the
Python sources; `PROJECT.json` maps each of them to the lines it stands for.

Run a model with `tlc -config JobsOwnership.cfg MCDiscoveryJobs` (each module `M`
has its instance definitions in `MCM`), a proof with `tlapm DiscoveryJobsProofs.tla`.

## 1. The system and its parts

One macOS host runs a Streamlit page, a few launchd agents (`launchd/*.plist`)
and the child processes they start.  They do not talk to each other: they meet in
SQLite databases (WAL, `BEGIN IMMEDIATE` for the writes that must not
interleave), in lock files (`flock`), and in JSON state files replaced by rename.
A process may be killed at any instruction and is started again by launchd, by
the page or by the supervisor.

| Component (source) | State it keeps | Operations | Meets | What is hard | What makes it correct |
|---|---|---|---|---|---|
| Discovery job registry (`discovery_jobs.py`) | table `discovery_job_runtime`: status, worker pid, launch lease, resumable, counters of automatic resumes, last progress fingerprint | register, claim, heartbeat, finish, fail, pauses, reconcile, launch, prepare/claim finalization | everybody below | launch, reconcile and the worker's own writes are separate transactions; some UPDATEs name only the job | a row names its worker; abandoned rows come back; no start or claim beside retention or beside another start's lease |
| Discovery worker (`discovery_worker.py`) | its process; through it the registry row and the store | admission, claim under the shared flock, run, pause, fail, hand off | registry, flock, incremental runner, finalizer | killed anywhere; a superseded worker still writes | an interruption costs at most the batch in flight; a retryable failure is retried |
| Discovery finalizer (`discovery_finalize_worker.py`) | its process | read status, prepare, claim, export, notify, finish | registry, store, notifications | takes no flock; may be started twice; a crash before its claim | completes only a whole job; `export_pending` is left |
| Recovery metadata (`discovery_recovery.py`) | fingerprints (phase, batch counts) | classify a failure, compare fingerprints | registry | two sources of progress in one counter | no endless automatic resumes |
| Recovery supervisor (`discovery_recovery_supervisor.py`, `discovery_autoresume.py`) | a flock of its own, the last recovery fingerprint | every 60 s choose one stopped job and launch it | registry, storage admission | its choice is re-decided inside `launch()` | a retryable job is relaunched, within the limit of the counter |
| Maintenance lock (`storage_maintenance.py`) | flock on one file | shared guard for starts, exclusive for retention | registry, retention | the guard does not cover the worker's run | no start while data is deleted |
| Retention (`storage_retention.py`) | plan, audit files, cycle state | inventory, plan, authorise, apply, terminal maintenance | flock, registry, stores, archives | check then delete; crash between database and files | never deletes what an active or resumable job needs |
| Discovery page (`app_glowup.py`, `discovery_ui.py`) | Streamlit session | start, resume, resume export | registry | several sessions, double clicks | no second worker |
| Resource governor (`discovery_resources.py`) | none | memory and disk verdicts | worker, finalizer | - | - |
| Incremental store and runner (`discovery_incremental.py`, `discovery_incremental_runner.py`) | per-job SQLite: catalog batches, queues, Pass A/B results, attempts, aggregates | step-wise pipeline with resumable batches | Amazon client, rotation store, freshness cache | restart between two commits; retries | every eligible item is decided once; counts agree with rows |
| Rotation store (`discovery_rotation.py`) | SQLite: per supplier and partition, evaluation cycle of each identity | select the next candidates, commit evaluations | incremental runner | the job store commits first, the rotation store second | nothing starves, no identity skipped for ever |
| Freshness cache and Amazon client (`discovery_freshness.py`, `discovery_amazon.py`, `product_fees.py`) | SQLite observations with expiry | reserve, fetch, store | incremental runner | quota, expiry | a stale answer is not used |
| Notifications (`notifications.py`) | SQLite outbox: one row per event, status, attempts, attachment | reserve, mark_sending, send, mark_sent, mark_failed | page, worker, finalizer, bootstrap | crash between SMTP and the mark; two senders of one event | a bounded number of copies; a row that says sent was sent |
| Weekly supplier refresh (`supplier_weekly.py`, `supplier_weekly_adapters.py`, `weekly_supplier_sync.py`) | SQLite: runs, items with leases, checkpoints | plan, claim item, checkpoint, complete, retry, finalise | catalog, coordination | reference store and active generation committed apart; other writers of the generation | the reference follows the active generation; the run ends |
| Supplier catalog and coordination (`supplier_catalog.py`, `supplier_catalog_coordination.py`) | SQLite generations, active pointer; lock files | stage, validate, promote, roll back | collectors, Discovery, weekly refresh | readers while promoting; lock timeouts; the command line takes no lock | the active generation is complete; nothing is dropped or carried stale unaccounted |
| Supplier collectors and preparation | HTTP, files | collect, normalise | catalog | partial pages | - |
| Qogita bootstrap and serving (`qogita_*.py`) | SQLite product rows with leases, run row with counters, duty row, serving snapshots | open a window, claim, resolve, persist, checkpoint, stop, resume, build snapshot, hand the writer lock to the weekly refresh | weekly refresh, archive, notifications | workers' threads, SIGTERM, deaths with leases held | windows and resumes are bounded; a snapshot never loses or serves unfinished products; the refresh gets its turn |
| Archives (`discovery_archive*.py`, `supplier_archive*.py`) | archive files with manifests | pack, verify, mark verified, delete source | retention | crash between copy and delete | a source is deleted only after a verified copy |
| Storage accounting (`storage_gc.py`) | none (reads the disk), cache state | budgets, watermarks, admission | supervisor, worker, retention | boundaries | admission implies room |
| Homeserver watchdog (`homeserver_watchdog.py`) | JSON state of attempts, failures and cooldowns | connect Tailscale, probe the public webhook, re-create its route | launchd, installer | the state is written at the end of a run only; flapping, cooldown | acts are bounded; a recovery is earned |
| Legacy pipeline, export, taxonomy, manual tools | files | pure calculations | - | - | - |

## 2. Modules, and what is left

The order was that of the damage an error does: first who may work on a job, then
what the work leaves behind after a crash, then what may be deleted, then the
satellites.

| Module | Models | Sees of the others |
|---|---|---|
| `JobContract` | abstract: what the registry promises its processes | implemented by `DiscoveryJobs` |
| `DiscoveryJobs` | registry, launchers, workers, finalizers, supervisor, flock, retention's window | the run as a counter of committed batches |
| `IncrementalRun` | one job's steps over the job store and the rotation store | the registry as one of a few states |
| `CheckpointRun` | the Discovery kept in one JSON checkpoint, two jobs over one rotation scope | - |
| `StorageTier` | jobs' rows between internal file, archive volume, retention and compaction | the registry as a job that runs or not |
| `SupplierArchive` | generations and snapshots between internal file and archive volume | weekly refresh and bootstrap as writers |
| `WeeklyCatalog` | weekly refresh of one supplier, its reference store, active generation, command line sync | - |
| `QogitaBootstrap` | windows, workers, leases, serving snapshots of the production bootstrap | weekly refresh and archive as users of the writer lock |
| `NotificationOutbox` | the outbox and its senders | callers as processes that die |
| `Watchdog` | reconnection and the public route's recovery | the machine as a changing environment |

Composition.  The components meet in a database or a lock, so a module that needs
another component includes that component's transactions on the shared state as
actions of its own (retention in `DiscoveryJobs`, Discovery in `StorageTier`, the weekly
refresh in `QogitaBootstrap` and `SupplierArchive`) and nothing else of it.  The theorems
about `M` are in `MProofs`; those about `Watchdog` and `NotificationOutbox`, which have
nothing to do with each other, share `OperationsProofs`, and those about `JobContract`
are part of `DiscoveryJobsProofs`.

Left, in order of use: a `WriterLock` abstraction that `QogitaBootstrap`,
`SupplierArchive` and the weekly commands all implement (`supplier_catalog_coordination.py`);
compaction of the supplier database; Qogita's membership refresh inside the weekly run;
several incremental jobs over one rotation scope after a new cycle.

## 3. DiscoveryJobs: who may work on a job

State, and the code it stands for:

| Variable | Code |
|---|---|
| `row` | table `discovery_job_runtime`.  `lease` is "`lease_expires_at` is in the future", kept while launching only, since no other state is judged by it |
| `prog`, `computed` | the incremental store: batches committed so far, and status `computed` |
| `fit` | what `evaluate_autoresume` asks outside the registry: the job's store, the supplier snapshots, the resource governor.  It changes at any time, and is false for ever of a job without a store (`Legacy`) |
| `pc`, `task` | worker and finalizer processes: the next step, and `--job-id` |
| `lpc`, `ljob`, `lmode`, `lpid`, `lseen` | a process that runs `launch()` or `reconcile()`: a page session or the supervisor; its local variables, `lseen` being the rows that a `reconcile()` has selected and not yet judged |
| `rpc` | the holder of `LOCK_EX`: `storage_retention`'s executor |
| `helped` | history: how often the operator started or resumed a job (bound `MaxHelp`) |

Each SQLite transaction is one action; so is each read whose answer is used later.
`launch()` is `EnterGuard` (flock, or the handler that calls `maintenance_blocked`),
`ReconcileGuarded` (its own `reconcile()` and that of `latest_active`), `CheckActive`,
`CommitLaunch` (the `BEGIN IMMEDIATE` transaction), `SpawnWorker`/`SpawnFails` (Popen) and
`RecordPid` (the last UPDATE).  Every `reconcile()`, in `launch()` or in a page or a
supervisor that polls (`Poll`), is two steps: `Look`, the SELECT, and `Tidy`, the test of
the pids and the UPDATEs.  A worker is `Admitted`/`AdmissionBlocked`, `ClaimJob`, `Advance`,
`Heartbeat`, then one of the pauses, `FinishResumable`, `RunFails`, `LegacyFinish` (a job
without an incremental store is exported and finished by its own worker), or `MarkComputed`,
`PrepareFinalization`, `LaunchFinalizer`; `RunFails` may also follow Popen of the finalizer,
since the audit after it is in the same `try`.  A finalizer is `FinalizerReads`,
`FinalizerPrepares`, `FinalizerClaims`, `ExportComplete`, `FinishJob`, or `ExportPaused`,
`ExportFails`; after `finish()` the audit and the start of the archive maintenance are still
in the `try`, and `ClosingFails` fails the completed row.  `Ends` is a process with nothing
left to do.  `Crash` stops a process at any step, `LauncherDies` a launcher at any step of
its call.

`JobContract` is what the registry promises in every interleaving: the jobs registered as
launching or running, those of them whose launch lease runs, and whether retention deletes.
A launch finds nothing registered, a claim finds no other job's lease, retention begins when
nothing is registered, and neither a launch nor a claim happens while it deletes.
`KeepsContract` maps the rows to these; sweeps, heartbeats, failures, late writes and crashes
must be stutters or `Leave`.

Abstractions.  `prog` counts committed batches and stands for the whole pipeline.
`Heartbeat` tells the registry any position up to `prog`: a resumed run repeats phases and
counts from lower ones, and some phases have no rank in `_PHASE_ORDER` (`Null`).  So a
fingerprint may fall and look advanced again without a new batch, as in the code.  The
positions of the export phases are not told apart.  Memory, disk and storage admission answer
nondeterministically.  Time is two booleans: a lease or a cooldown may end at any moment.  A
pid that is written in a row or remembered by a launcher is not given to another process
(`Free`).  Columns no guard reads are left out.

## 4. IncrementalRun: what the work on a job leaves behind

One job from its selection to its workbook, with one worker at a time (that is
DiscoveryJobs' business).  State, and the code it stands for:

| Variable | Code |
|---|---|
| `phase`, `selected`, `completed`, `prepared` | the job's row in `discovery_incremental_jobs`; `prepared` is `preparation_complete` in its metadata |
| `seq`, `cat` | `discovery_job_items`: `sequence_no`, and `catalog_status` as null, incomplete, or one of the four terminal ones (definitive) |
| `listing`, `priced` | `discovery_listings`: `evaluation_status`, and whether `pricing_status` is there |
| `fee` | `discovery_observations`: `fee_status`, one observation per page |
| `evaluated` | identities whose economics are written |
| `frozen`, `analyzed` | `discovery_rotation_selections` of the job |
| `reg` | the registry's row, as far as it decides whether a worker or the finalizer runs |
| `pc`, `queue`, `todo`, `batch`, `asins` | the worker's memory, lost with it |
| `answered`, `quoted`, `trouble` | history, and the bound on what goes wrong |

`pc` says which transaction the worker runs next.  Every SQLite transaction is one
action, so a death (`Dies`, at any `pc`) falls between any two of them: between the
commit to the job store and that to the rotation store (`CommitCatalog`,
`CommitRotation`), between the observations and the listings that name them
(`ObserveBatch`, `SettleBatch`), between the last fee and the phase
(`FeeWave`, `FeesDone`), between the store's `export_pending` and the registry's
(`SaveComputed`, `PrepareFinalization`).  `Pause` is the `ResourcePause` handler; it is
possible where the code calls `before_next_batch()` (`PausePoint`).  A resume is
`Resume`, `Begin`, `ReplayRotation`, `RequeueIncomplete`, an empty Catalog loop, and
`Gate`, which goes on in the loop of the persisted phase.

Abstractions.  An identity is a number in canonical order, a page is a number in ASIN
order; `Order` is the priority order in which `select_current_universe` returns the first
selection, while a resumed preparation reads it in canonical order; what decides about a
page (rank, price, sellers, the caches) is a constant.  A page has one price, so one
observation.  The sizes 500, 250 and 20 of batches are one constant `Batch`.  The column
`status` repeats what `phase` and the worker's result say and is dropped.  The finalizer
is two actions, since DiscoveryJobs has its steps: it completes the job if
`finalization_state` lets it, or fails.  A listing that is filtered out may get an
observation, and a fee, when the cache gave it a price (`Priced`); nothing depends on it.
`trouble` counts what goes wrong, at most `MaxTrouble` times in all.

## 5. What the registry promises, and what it does not

The steps of `launch()`, `reconcile()` and the workers are transactions of their own, and the
model lets any process step, stop or die between any two of them; nothing assumes that a
window is too short to be hit.  What holds then:

- `WorkNamesItsOwner`: a row has an owner exactly while its status says that somebody works.
- `KeepsContract`: the flock keeps launches and claims out of retention's deletions (a
  launcher inside its guard excludes the exclusive side; a claim takes the guard), and the
  launch lease keeps claims of other jobs out.
- `DeadOwnerFreed` and `RetryableRetried`, under the fairness of section 14.

What does not hold, and why nothing below states it:

- Two workers may compute the same job (`OneOwner`, refuted by JobsTwoWorkers, a finding).
  `reconcile()` selects rows, tests pids outside a transaction and updates by job id
  (`src/discovery_jobs.py:760`).  The trace: an operator's launch is delayed past its 60 s
  lease, a second launcher's `reconcile()` has selected the row without an owner, the first
  launch's child claims it, and then the late UPDATE makes the claimed row resumable and
  unowned, so that it can be launched and claimed once more.
- A live worker's row may lose its owner: `launch()` calls `maintenance_blocked()` on the row
  as it is when the flock is refused (`src/discovery_jobs.py:879`), and the UPDATE after Popen
  (`src/discovery_jobs.py:901`) is guarded by status but not by launch, so a late one writes
  the pid of an earlier child over the owner of a later launch.
- A superseded worker's `fail()`, `finish()` or pause is applied to its successor's row, since
  these name the job only.
- A completed row is not final: the audit and the start of the archive maintenance come after
  `finish()` in the same `try` (`src/discovery_finalize_worker.py:219`), and an exception there
  makes the row resumable; a finalizer that read the status earlier, started by a second press
  of the export button, prepares and claims the row again.
- Retention may delete while a process works that the registry has forgotten.
- Automatic resumes need not end (`ResumesEnd`, refuted by JobsResumesForEver, section 17).

## 6. CheckpointRun: the Discovery kept in one checkpoint

`run_discovery` (`src/discovery.py`) keeps its whole state in one JSON file per job; the
incremental pipeline falls back to it for old checkpoints and when no supplier is selected.

| Variable | Code |
|---|---|
| `saved`, `mem`, `runner` | the files; the checkpoint in the memory of the one run alive, and whose it is |
| `pc`, `work` | the step within a phase; the fee rows of the wave being asked, and its attempt |
| `universe` | identifiers of the suppliers' active generations |
| `items`, `history`, `cycle`, `sel` | the rotation store: `discovery_rotation_items`, order of `last_discovery_at`, current cycle, frozen selections |
| `cache` | the Qogita cache that a run without suppliers refreshes |

A save of the checkpoint is one action and a commit of the rotation store another
(`CatalogCommit`, `CatalogSettle`), so `Die` and `Raise` fall between them; `Reconcile`
is `commit_catalog_results` called again by the next start.  `FeeWave` asks the pending
rows, `FeeRequestFails` is a request that raises, `Outage` the systemic failure that
leaves the job in `fees_pending`.  `PublishGeneration`, `Expire`, `StartNewCycle` are the
rest of the world.

Abstractions.  A product has one listing and one observation; the economics of the
combinations are data.  `last_discovery_at` is a sequence of identifiers.  Inheritance
between scopes and `status()` are left out.  The two pipelines share the rotation store's
code: `Select` and `Commit` are the same methods as IncrementalRun's `FreezeSelection`
and `CommitRotation`, here with several jobs and cycles.

What the model allows, and no property forbids: a job of an old cycle, resumed after
`start_new_cycle`, writes the old cycle over the new one, so its identifiers are
selected again; an incomplete identifier with the first rank is selected again and again
under a budget; a completed job with unavailable fees that is started again goes back to
the fees.

## 7. StorageTier: finished jobs between disk, archive and retention

| Variable | Code |
|---|---|
| `status`, `rows`, `refs` | a job in the internal SQLite file: its state, all rows, the final summary or none; its external references (cache, outbox, rotation), as a version |
| `segment`, `catalog` | the file on the X9 volume; the registered content of `discovery_archive_catalog` |
| `life` | `discovery-archive-lifecycle.json`: state and hash |
| `mounted`, `free` | the volume, free space of the disk |
| `guard` | the exclusive flock of `storage_maintenance.py` |
| `database` | the file around the two `os.replace` of compaction: live, moved aside, or an empty file that a reader created under the missing name |
| `arch`, `ret`, `cooling` | memory of the archive cycle and of the retention process, and retention's cooldown |

A cycle is `BeginCycle`, `PickCandidate`, then per job `Copy`, `Place`, `SaveCopied`,
`Verify`, `TakeGuard`, `Register`, `SaveRepointed`, `SaveCleanup`, `DeleteInternal`,
`SaveArchived`, and `FinishRun`, `CompactGuard`, `SwapOut`, `SwapIn`; every save of the
JSON is a step, since it may be the last.  Retention is `BeginRetention` (watermark and
plan), `LockRetention`, `Prune`.  The watermarks and the admission (`Watermark`,
`Admitted`, `FinalOnlyEligible`) are translated with their numbers, in GiB.

`Held` is the authority of a job (its registered segment, else its rows), `View` what a
reader of the live name gets: of every job nothing while the database is aside or empty,
since the registration of the archive is read from it too, and of an archived job nothing
while the volume is away.  `ReaderNeverLoses` names the three ways in which a view gets
poorer; `NewestAreWhole` speaks of the authority.

What the model allows, and no property forbids: a segment reused after a prune makes the
delete fail on its counts, and the job is `BLOCKED` for ever; a repointed job that meets a
busy lock or an unmounted volume becomes `RETRYABLE`, and in the next cycle `BLOCKED`; a
death between the two renames leaves no live file, the next open creates an empty one
(`OpenMissingDatabase`), and nothing puts the one that was moved aside back (what is then
written to the empty file is not modelled); the worker's recovery before admission has its own row
`launching`, so its compaction is always refused; an archived job still counts as full in
the preventive policy; a job in `MANUAL_REVIEW` keeps its place in the queue; a death between the
prune and the audit line loses the line; admission reserves nothing.

## 8. SupplierArchive: history of the supplier catalog

Objects are generations and serving snapshots, whole in the internal database, whole in
a registered segment, or in both.

| Variable | Code |
|---|---|
| `status`, `refs`, `source`, `internal` | `supplier_runs` and `qogita_serving_snapshots`; sources of carried rows; rows present |
| `active`, `serving`, `boot`, `base` | the two pointers, the bootstrap that a snapshot is made of, the weekly run's baseline |
| `registered`, `file` | archive records with a valid segment; the state file |
| `arch`, `launch`, `writer` | memory of the archive process, its launch after a publication, the writer lock |
| `frozen` | objects named by the provenance of Discovery jobs |

The archive is `Begin` (plan: `Candidates`, `Resumable`), `SaveCopying`, `Copy`,
`SaveCopied`, `Verify`, `Check` (hash under the writer lock), `Register`,
`SaveRepointed`, `SaveCleanup`, `Delete`/`Clean`, `SaveArchived`; `Entry` is where a
resumed object enters.  Beside it publish the weekly refresh, the unlocked command line
sync, the catalog pipeline and the bootstrap's windows.

What the model allows, and no property forbids: `waiting_retry` and
`awaiting_promotion_review` are not among the states that protect a bootstrap's source, so
the source of an unfinished one can be archived; a bootstrap created on a repointed
generation is deleted with it until a snapshot exists; a blocked or corrupt candidate that
sorts first starves the rest, since one object is taken per run; a resumed object compares
a fresh hash with itself.

## 9. WeeklyCatalog: the weekly refresh of one supplier

| Variable | Code |
|---|---|
| `kind` | the adapter: abw, umma (offers by product), qudo (identifier from the active generation) |
| `index`, `week` | what the supplier lists, as a version; the clock |
| `active` | the active generation of `supplier_catalog.py` |
| `reference` | the reference generation of `supplier_incremental.py`, and the run that seeded it |
| `baseline`, `unseen` | the active generation as the handler read it; history: synchronisations published between the comparison with it and the commit |
| `stage`, `current`, `queue`, `attempts`, `spent` | the handler: the composed index, work items, attempts, request budget |

`Begin` seeds the reference, composes the current index with each product's state
(`Compose`, `StateOf`) and queues (`Selections`: what is urgent, and what is `Due` within the
reconciliation budget); `Claim` and the outcomes of `Handle` are the loop of
`supplier_weekly.py`; `QueueIncomplete` and `QueueComplete` end it; `CheckBaseline` compares
the active generation with the one the run began from (`src/supplier_weekly_adapters.py:368`),
and `Promote` replaces it unless `GateRefuses`.  `Abandon` is a run that fails or dies at any
stage.  `CliSync` is `sync_supplier_catalog.py`, which takes no lock and publishes at any
stage, between `CheckBaseline` and `Promote` too.  `PromotedOverBaseline` says that these
synchronisations (`unseen`) are all that can separate the generation a promotion replaces
from the one it compared with, and `PromotionAccounts` explains losses against the baseline.

What the model allows, and no property forbids: the reference of umma and qudo is seeded
with the current index, so only reconciliation notices a change there; an abw product that
was removed and returns is not queued; a product without offers is not asked again by umma and
abw; products that are always carried may use up the reconciliation budget; a sync between
the comparison of the baseline and the commit is undone (`SyncsKept`, refuted by
WeeklySyncUndone, section 17).

## 10. QogitaBootstrap: windows, workers, snapshots

| Variable | Code |
|---|---|
| `item`, `claim`, `run` | `qogita_bootstrap.py`: product rows, their leases, the run row with its checkpointed counters and the streak of automatic resumes |
| `duty`, `served`, `active` | `qogita_serving.py`: duty row, serving snapshot |
| `pc`, `inv`, `worker`, `shutdown` | the process: step of `main`, memory of one invocation, each thread's step |
| `writer`, `intent` | the locks of `supplier_catalog_coordination.py` |
| `resumed`, `taken`, `overrun` | history; `overrun` is the products whose lease ended while their worker was at them |

`main` is `EnsureWindow`, `Reconcile`, `AutoResume`, `Preflight`, `Enter`, the workers,
`Join`, `Joined`, `AutoStop`, `BuildSnapshot`, `Close`, and `Handler` for what was raised.
A worker is `Top` (stop event and `GracefulStop`), `Claim`, `Resolve`, `Offers`,
`Report`, `Checkpoint`, `Finish`.  `WorkerRaises` is a store call that raises, `Terminate`
SIGTERM, `Die` the end of the process with its leases left behind.

What the model allows, and no property forbids: SIGTERM's reason `signal_interrupt` is
taken for a structural stop; a recoverable stop before any snapshot is a KeyError, one
with nothing left a ValueError, both fatal; a death between the last checkpoint and the
snapshot leaves it unbuilt; a death with all products leased makes the next process exit
0 with nothing claimed, and launchd does not restart it; a death between `mark_stopped` and
`mark_auto_stopped` forgets a structural stop; a window that closes with nothing enriched
is fatal; the handler writes without the writer lock; a retryable product is leased again
at once; one worker's exception is seen when the other ends.

A lease may end under its live worker (one of the troubles): `persist_*` do not check the
worker's name, so a late answer is written over the next holder's.  `SnapshotsOnlyGrow` says
what remains true of the other products, and of the served ones in any case; a product that
was overrun may be left with scenarios and a retryable status, on which `build_snapshot`
raises (`Consistent`, QogitaSlowLease, section 17).

Limits.  `checkpoint_concurrent` and the health update are one step; `waiting_retry` is folded
into "running"; admission, `requeue_expired_auth_failures`, conflicting fids, tokens and
pacing are left out; so is the shared lock of `weekly_intent_active`, which for a moment can make the
refresh's own non-blocking intent fail.

## 11. NotificationOutbox: at most a few copies

`row` is `notification_outbox`, one per event; `at`, `event`, `attached` are the senders
in `send_notification`; `mail` is what the SMTP server accepted, by content.
`send_discovery_terminal_notification` is `Look`; `reserve` is `Reserve`;
`mark_sending`, `mark_sent`, `mark_failed` and the fallback without the workbook are
actions of their own, so that a death or an exception falls between the server's
acceptance and `mark_sent`.  `SenderDies` is the end of a sender: the process dies, or a
store call outside every `try` (`src/notifications.py:979`, `:997`) raises out of
`send_notification` while the process lives; the row and the mailbox are the same.  A row that a dead process reserved stays `pending` or
`sending`: nothing reclaims it, which `RowSettles` states as its exception.
Configuration that cannot be read raises out of `EmailConfig.from_runtime` into the
finalizer, although the docstring says "Attempt one terminal notification without ever
changing job outcome."; configuration is not modelled.

## 12. Watchdog: reconnecting, and the public route

`file` is the JSON state, `mem` the copy a run changes and `_finish` writes back; `net`,
`up`, `edge`, `route` are the machine, `phase` the accepted configuration; `opened`,
`tried`, `good` remember what was done to the machine whatever the file says.  A run is
the holder of the non-blocking lock; `Die` ends it with its actions done and its memory
lost.  `Tick` moves the clock between runs (a run is shorter than the unit).  A death, or
a failing configuration, after the route was turned off leaves it off: no run restores a
route it does not find, so it waits for the operator.
Dry runs, reports and the probe of the manager are left out.

## 13. What the runs check

| Run | Instance | Shows |
|---|---|---|
| JobsOwnership | 2 jobs, one of them legacy, 1 batch, 2 pids, 2 launchers, 1 operator action per job, manual launches, retention | `WorkNamesItsOwner`, `KeepsContract` |
| JobsRecovery | 1 job, 2 pids, 1 launcher, MaxAuto 2, every mode, the export button, fair | `TypeOK`, `WorkNamesItsOwner`, `RetryableRetried`, `DeadOwnerFreed` |
| JobsTwoWorkers | 1 job, 2 pids, 2 launchers, 2 operator actions | a finding of section 17 (`OneOwner`) |
| RunSafety | 5 identities in priority order, 5 pages, Batch 2, 7 troubles of any kind, fair | `TypeOK`, `WorkbookWhole`, `CatalogWhole`, `RotationCatchesUp`, `AskedOnce`, `PhasesWhole`, `SettledFeeKept`, `RunComputedUnlessPaused` |
| LegacyRun | 2 jobs, 2 products, 1 trouble, 2 cycles | `StoresAgree`, `CompletedIsWhole`, `AnsweredFeesAreKept` |
| StorageTiers | 3 jobs in 2 scopes, 2 archive cycles, 1 death, 2 levels of free space | `NothingLost`, `NewestAreWhole`, `CompactionAlone`, `ReaderNeverLoses` |
| SupplierArchiving | 3 weekly and 1 pipeline generation, 2 snapshots, 1 trouble | `NothingLost`, `PointersStayInternal`, `StateFileAgrees` |
| WeeklyRefresh | 3 adapters, 2 products, 2 weeks, a run begins at generation 2 at the latest, a sync at any stage, fair | `ReferenceFollowsActive`, `PromotedOverBaseline`, `PromotionAccounts`, `RunEnds` |
| QogitaWindows | 2 products, 2 workers, 2 windows, 1 trouble, 1 refresh, fair | `HandOffIsBounded`, `ResumesAreBounded`, `SnapshotsOnlyGrow`, `WeeklyGetsItsTurn` |
| OutboxDelivery | 2 senders, 4 events, 3 attempts, 2 deaths, fair | `BoundedMail`, `RowTellsTheMail`, `RowSettles` |
| WatchdogIncident | threshold 3, 2 attempts, 1 death, fair | `ActsAreBounded`, `RecoveryIsEarned`, `PersistentFailureRecovered` |
| RunPreparedTwice | 1 death in preparation, selection by priority | a finding of section 17 (`PreparedWhole`) |

Nine more configurations keep instances that refute a statement; they are described in
section 17: JobsLostFinalizer, JobsResumesForEver, RunPaused, RunHandOffDies,
RunNothingSold, WeeklyRecheck, WeeklySyncUndone, SupplierRepointed, QogitaSlowLease.

Why the bounds are enough.

- DiscoveryJobs.  Two jobs are the least with "another job is active"; one of them is a legacy
  job, so that both ways to finish occur.  Two pids allow a dead or a superseded owner beside
  a live worker, and a worker beside the finalizer it starts.  Two launchers are the page and
  the supervisor; a third adds no new pair of interfering transactions.  One batch lets a
  fingerprint advance.  In JobsRecovery `MaxAuto = 2` tells a counter below its limit from one
  at it, and every position is that of an empty store, where a failure after a failure shows
  no progress.  The export button is pressed in JobsRecovery only, any number of times: it
  starts finalizers, of one job.  JobsOwnership and JobsTwoWorkers use manual launches; the
  proofs all modes.
- IncrementalRun.  Five identities with batches of two give two full batches and a shorter
  last one, so that a death falls inside a pass, between two batches and before the tail.
  Page 1 is shared by three identities of which one has a cached price; page 2 is filtered
  out, page 4 does not sell, one identity has no page.  Seven troubles allow one of each
  kind, or several of one phase.  The selection is in priority order 4, 1, 2, 5, 3: after one
  batch and a death the canonical rest is 3, 4, 5, so that an identity which the cache knows
  is prepared twice and another never.
- CheckpointRun.  Two products make a batch that is answered in part; two jobs and two
  cycles are the least for a resume of an old cycle; `MaxRetries = 1` gives a first wave
  and a retry.
- StorageTier.  Three jobs are the least in which one is the newest of its scope, one is the
  newest of all and one may be pruned; two cycles are one that dies and one that resumes.  Of 350
  GiB, 62 free are PREVENTIVE and admit a job, 45 are PRESSURE and refuse it, each by its
  percentage, so a plan can be stale when the lock is granted.
- SupplierArchive.  Three weekly generations give an active one, its carried source and a
  plain history; a snapshot needs a predecessor to be history, so there are two.
- WeeklyCatalog.  One product with and one without a usable code; a budget and an age of one
  let an offer be due and be cut off.  With `MaxGeneration = 2` there are the first generation,
  a refresh of it, a sync before, between or after, and one more promotion.
- QogitaBootstrap.  Two workers with two products can both hold a lease, or one can find
  nothing; `CheckpointEvery = 2` puts a checkpoint inside and at the end; one automatic
  resume tells the limit from no limit.  One trouble is a death, a raise, a SIGTERM or an overrun
  lease; without the liveness property the instance also passes with two.
- NotificationOutbox.  Two senders make the only race, on one row; three is the code's own
  limit of attempts.
- Watchdog.  Threshold 3 with a gap of 1 needs failures over two units; ages stop at the
  longest interval, past which nothing is compared.

All runs switch deadlock checking off: every module has bounds after which the operator,
the environment or the clock does nothing more, and a system with nothing to do rightly
stops.  Type invariants that no listed run checks are stated in their modules (`TypeOK`, and
`OutboxTypeOK`).

## 14. Fairness

`DiscoveryJobs!FairSpec` asks for weak fairness of each launcher's call or poll in progress
(`LauncherAdvances`: it waits for no lock, `LOCK_NB`) and of its restart, of each process that
is not killed, of the supervisor's choice of a stopped job that `evaluate_autoresume` admits
(launchd runs it every 60 s, `StartInterval` in `launchd/`; a job whose snapshots or resources
come and go is promised nothing), of the end of leases and cooldowns (time passes), and of
retention's end.  A poll is the supervisor's and the page's `reconcile()`.  Launchers are not
killed for ever (`<>[][...~LauncherDies...]`): a launcher killed on every call proves nothing
about the code.  Workers may be killed for ever.  No fairness is asked of the operator, of
retention's start or of crashes.

`IncrementalRun!FairSpec` asks for weak fairness of `Resume` (the supervisor or the
operator resumes a stopped job), of the worker's own steps, and of the finalizer when it
can complete.  Nothing is asked of what goes wrong.

`WeeklyCatalog!FairSpec`: the handler is a loop of one process that goes on.
`NotificationOutbox!OutboxFairSpec`: a sender that lives takes its next step (the SMTP client
has a timeout).  `QogitaBootstrap!FairSpec`: launchd starts the process (`KeepAlive`), its
steps and its threads' go on, a refresh that can take the writer lock takes it and ends, and
so does the archive.  `Watchdog!FairSpec`: launchd starts a run every 300 s and the clock
moves; `Start` and `Tick` are enabled again and again rather than always, since a run is
between them, so their fairness is strong.

## 15. What is proved

Every safety invariant and action property of the runs is a theorem, and so is the
refinement `KeepsContract`.  No proof bounds anything: the
theorems hold for all values that the assumptions of the modules (`JobsAssumption`,
`RunAssumption` and so on) admit, and no theorem has another hypothesis.

Each proof module has the same shape.  `IInv` (or a few invariants, one on top of the
other) is the inductive invariant, a conjunction of named parts; TLC confirmed each on an
instance of a run before it was proved.  Lemmas say which action touches which variable, a
`Step...` lemma proves one part with a step per action that can disturb it, and the theorems
follow from `IInv` by definition.

### DiscoveryJobsProofs

For any sets of jobs, pids and launchers, any limits, modes and legacy jobs, in every
interleaving:

- `TypeCorrect`: `Spec => []TypeOK`.  It includes `consecutive <= MaxAuto`, so no
  interleaving of launches, failures and heartbeats passes the limit, and that a
  launcher that is about to record a pid has one.
- `OwnerNamed`: `Spec => []WorkNamesItsOwner`.  `reconcile()` can tell an abandoned
  row from a stopped one by owner and status alone.
- `ContractKept`: `Spec => KeepsContract`, the refinement of `JobContract`.

The first invariant is `TypeOK /\ WorkNamesItsOwner`.  `RowStep` lists what one step may do
to one row (one disjunct per UPDATE statement; `Loosens` are those that take a row back or
leave its status), `NextRowStep` shows that every action does that and nothing else, and
`StatusAndOwner` says of each UPDATE what it leaves in status and owner; the theorem is then
a fact about rows.

The refinement needs one part more, `LockKept`: a launcher inside its guard keeps retention
out.  Without it a launch could commit while retention deletes.  `LoosensLeaves` maps all
steps that only loosen rows to `Leave`; the steps that strengthen one have a lemma each:
`LaunchContract` (the commit of a launch, inside the guard), `ClaimContract` (which tests the
lease of the others and the flock in its own step), `RetentionContract` and `TimeContract`.

### IncrementalRunProofs

For any number of identities, any order of their selection, any pages and caches, any batch size and any number of
troubles of any kind:

- `RunTypeCorrect`: `Spec => []TypeOK`.  `selected <= Count` is the part that needs an
  argument: while a worker prepares, its queue holds exactly the positions from
  `selected` on (`QueueFits`), so a resume prepares no candidate too many.
- `RunAsksOnce`, `RunRotationCatchesUp`, `RunPhasesWhole`: the invariants of RunSafety of
  the same meaning; the latter two stand on lemmas for their parts.
- `RunKeepsSettledFees`: `Spec => SettledFeeKept`, an action property.
- `RunCatalogWhole`: `Spec => []CatalogWhole`.  A torn preparation makes `completed` larger
  than the definitive items by at most the identities it prepared twice, and still no item
  that is stored leaves Catalog unanswered.
- `RunWorkbookWhole`: `Spec => []WorkbookWhole`.

They assume `RunAssumption` only.  None of the properties is inductive: each speaks of a
phase, and says nothing of the worker that is about to save that phase.  The invariant
`IInv` adds what the worker knows at each `pc`:

| Part | Says | Without it |
|---|---|---|
| `QueueFits` | the queue is what is left to prepare | `selected` could pass `Count` |
| `PhaseFits` | `pc` and persisted phase agree, and a worker runs only while `reg` says so | a loop could run in a foreign phase |
| `AnswersKept` | answers stay definitive; the batch in flight has none; before the job is prepared all answers are from the cache | preparing an identity twice could lose an answer |
| `Rotated` | results may be missing in the rotation store only before the replay, or in the batch in flight | the phase could be saved with results missing |
| `CatalogSettled` | only the batch in flight holds incomplete answers, so a worker past Catalog has all | a later Catalog commit could delete prices |
| `QuotesKept` | a quoted page keeps a price; a request names unpriced pages | a page could be quoted again after a resume |
| `Judged` | items the filter pass has left behind are judged | a listing could come to Pricing unjudged |
| `PricesShared` | after the reconciliation no unpriced listing has a priced twin | "no page is pending" would not mean "all are priced" |
| `FeesKept` | a passed listing has an observation, also one about to be saved | "no fee is pending" would not mean "all are settled" |
| `WaveAsks` | a wave asks for unsettled fees only | a retry could take a settled fee back |
| `EconomicsKept` | what the economics pass has left behind is written | the job could be computed with a gap |

`CacheReuse` is the lemma about the plan of the freshness cache: what `Reused` gives for
an identity is a definitive answer.  TLC confirmed `IInv` on the instance of RunSafety before
it was proved.  Lemmas `...Steps` say which actions touch a variable at all; `Step...` proves
one part, with one step per action that can disturb it.

The counts stand on a second invariant, `CInv`:

| Part | Says | Without it |
|---|---|---|
| `QueueDistinct` | the queue of a preparation names nobody twice | one batch could count an identity twice |
| `AllSelected` | a prepared job has counted as many candidates as were selected | Catalog could end early |
| `Counted` | the counter is at least the number of definitive items, and exceeds it by at most the candidates that overwrote an identity already stored; past Catalog every stored item is definitive | `CatalogWhole`, before the last step |
| `Finished` | the finalizer completed a job only with as many definitive items as selected | `WorkbookWhole`: a torn job has too few rows for ever |

### CheckpointRunProofs

For any sets of jobs and products, any budget, batch size, retries, cycles, changes of the
universe and troubles, from `CheckpointAssumption` only:

- `RunTypeCorrect`: `Spec => []TypeOK`.
- `StoresNeverDisagree`: `Spec => []StoresAgree`.
- `CompletedRunsAreWhole`: `Spec => []CompletedIsWhole`.
- `AnsweredFeesStay`: `Spec => AnsweredFeesAreKept`, an action property.

| Part | Says | Without it |
|---|---|---|
| `Sound(c, s)`, of each saved checkpoint and of the memory | which answers and prices a phase can have; what the rotation store calls analyzed has a definitive answer; past Catalog all candidates are answered and the definitive ones analyzed; at `fees_complete` no fee is pending | the next phase would be saved on top of a gap |
| `Selected` | a job analyzes what it selected, in a cycle | a resume in a new cycle could commit for products it never took |
| `Memory` | the run's memory differs from its file in the candidates of an early phase only | a death could lose an answer that the rotation store already counts |
| `Whereabouts` | the phase at each place of the code; between commit and save the rotation store has all | `CatalogSettle` would save a phase its commit did not reach |
| `Waves` | fee rows asked and to be asked differ, and none is answered | a retry could take an answered fee back |
| `ItemsAreBacked` | an item that the rotation store calls done in a cycle was analyzed by a job | the two stores could disagree through a third job |

### StorageTierProofs

For any number of jobs, any scopes, sizes and levels of free space, any number of cycles,
deaths and changes of references:

- `StorageTypeCorrect`: `Spec => []TypeOK`.
- `StorageLosesNothing`, `StorageCompactsAlone`, `StorageKeepsNewest`: `NothingLost`,
  `CompactionAlone` and `NewestAreWhole` are invariants.
- `StorageReaderNeverLoses`: `Spec => ReaderNeverLoses`, an action property.  `HeldStep` says
  that only a prune makes the authority of a job poorer; `AwaySteps`, which steps change the
  name of the file or the volume.

| Part | Says | Without it |
|---|---|---|
| `RowsFollow` | the registered file is the file on the volume, and no file is poorer than the rows left | a delete could follow a registration of something else |
| `GuardHeld` | who holds the maintenance lock at each step, and that no job runs while the file is compacted | the fresh hash could be of rows that change before the delete |
| `SegmentThere` | what the archive is about to verify or register is there, whatever cycle wrote it | a resumed cycle could register a file that a death left unplaced |
| `PrunedIsOld` | what is pruned, or about to be, has a newer job in its scope and `KeepPressure` newer ones of all | retention's plan, made before the lock, could prune the newest |

### SupplierArchiveProofs

For any sets of generations and snapshots and any number of deaths, removals of the volume
and frozen objects, from `ArchiveAssumption` only:

- `ArchiveTypeCorrect`: `Spec => []TypeOK`.
- `ArchiveLosesNothing`, `ArchiveKeepsPointers`, `ArchiveFileAgrees`: `NothingLost`,
  `PointersStayInternal` and `StateFileAgrees` are invariants.

| Part | Says | Without it |
|---|---|---|
| `Unstarted` | what no writer has begun has no rows and no record, and generations are begun in order | a new generation could be born registered |
| `StagedIsWhole` | a staged generation and the sources of its rows are internal and unregistered | the promotion could point to deleted rows |
| `PointersUnregistered` | what the active pointer needs is not registered, nor about to be: the check was under the lock that a writer would need | a delete after a promotion could take the active generation |
| `BootIsInternal` | the source of an unfinished bootstrap is internal | its next snapshot would lack its source |
| `ArchiveKnows` | what the archive process knows of its object at each step | rows could be deleted without a record |
| `FileKnows` | what the state file says can be resumed past registration is registered | a new process would skip the registration |

### QogitaBootstrapProofs

For any number of products and workers and any limits, from `QogitaAssumption` only:

- `BootstrapTypeCorrect`: `Spec => []TypeOK`.  The budget, the processed products and the
  counters of the run row stay within the number of products.
- `HandOffBounded`, `ResumesBounded`: `HandOffIsBounded` and `ResumesAreBounded` are invariants.
- `WindowsHoldTheLock`: while a worker is at a product, and while the window closes, no
  weekly refresh and no archive is inside the catalog.
- `SnapshotsGrow`: `Spec => SnapshotsOnlyGrow`, an action property.

| Part | Says | Without it |
|---|---|---|
| `Idle` | workers exist only inside a window | a worker could outlive `Join` and write into a snapshot |
| `Spent` | budget, processed products and units in the workers' hands are at most the products | two threads that return a unit could make budget out of nothing |
| `Announced` | a worker about to lease has leased nothing since the intent | a worker could lease once more after its look at the intent |
| `StreakKept` | until a product is finished after a resume the run row says how many are | a checkpoint would clear the streak without progress |
| `UnderLock` | a window holds the writer lock from its entry to its end | - (it is `WindowsHoldTheLock`) |
| `Leased`, `Held` | what is leased is not finished, and a worker at a product has its lease unless that ended under it (`overrun`) | a second worker's failure could make a finished product retryable |
| `Apart` | no worker is at a product that readers see | a late answer could take a served product back |
| `Whole` | only finished or overrun products have scenarios, and what is served is finished | a snapshot could serve a product without its scenarios |

### WeeklyCatalogProofs

For any finite set of products, any subset of them without a usable bar code, any adapters
and any reconciliation age, budget and number of retries, from `WeeklyAssumption`:

- `WeeklyTypeCorrect`: `Spec => []TypeOK`.
- `WeeklyFollowsActive`: `Spec => []ReferenceFollowsActive`.
- `WeeklyPromotesOverBaseline`: `Spec => PromotedOverBaseline`, an action property.
- `WeeklyPromotionAccounts`: `Spec => PromotionAccounts`, an action property.

All four hold whenever the synchronisations land.
`ReferenceFollowsActive` is inductive once the numbers of the generations only grow
(`Numbered`): a synchronisation publishes under a number no reference names yet.  The action
properties look at the one step that promotes, and at what the whole run has done to a row;
the invariant carries that knowledge from `Begin` through every answer, retry and failure.

| Part | Says | Without it |
|---|---|---|
| `Behind` | a run compares with the generation it began from; no reference and no baseline is ahead of the active generation | a promotion's number could meet a reference that exists already |
| `Attempted` | what may be claimed again has an attempt left | the attempts would have no bound |
| `Ended` | past the queue nothing is open; at the commit only the synchronisations counted in `unseen` separate the active generation from the baseline | an item that was never answered could be promoted |
| `Composed` | the reference of a run has the offers of the generation it began from | a loss could come from the reference instead of an answer |
| `Enqueued` | what is queued is in the generation that is composed | an answer could be written to a row that is not there |
| `StaleExplained` | a composed row whose offer is due is open in the queue, was carried forward, or was left out when the budget was used up | `PromotionAccounts`, its first half, before the last step |
| `LossExplained` | a listed row that has lost the offers it was served with is open, answered or quarantined | `PromotionAccounts`, its second half, before the last step |

`SelectionsAccount` is where finiteness of the products is used: what is left out of the
queue although due is left out by a choice of as many as the budget.

### OperationsProofs

Two arguments that share nothing: `Spec` and `IInv` are those of `Watchdog`, `OutboxSpec` and
`OutboxInv` those of `NotificationOutbox`, whose definitions carry names of their own so that
one module can extend both.

The watchdog, for any threshold, intervals, attempts and phases, from
`WatchdogAssumption` only:

- `WatchdogTypeCorrect`: `Spec => []TypeOK`.
- `WatchdogBoundsItsActs`: `Spec => []ActsAreBounded`.  `RecoveriesCounted` and
  `AttemptsCounted` say of each action on the machine whether the file, a run that died or
  the run in progress has it; `Remembered`, what the run has not changed of the file.
- `WatchdogEarnsRecovery`: `Spec => RecoveryIsEarned`, an action property.  By
  `FailuresSpread`, `n` counted failures and the age of the last reach back `(n - 1)` sampling
  gaps, but not behind the last run that counted none; `PhaseKept` is its other half.

The outbox, for any set of senders, any number of deaths and any limits, from
`OutboxAssumption` only:

- `OutboxTypeCorrect`: `OutboxSpec => []OutboxTypeOK`.
- `OutboxBoundsMail`: `OutboxSpec => []BoundedMail`.
- `OutboxTellsTheMail`: `OutboxSpec => []RowTellsTheMail`.

Both properties speak of the outbox and the mailbox and say nothing of the sender between
them.  `OneOwnerEach` (only alerts have two senders at work), `FinalsUntold` (who looked
and found no final announcement is still right when it reserves) and `RowsHeld` (a
reserved row is open and in one sender's hands) say that senders do not meet on a row;
`MailCounted` (one message less than attempts while one is being made) and `MailTold` (what is
attached is what the row says) carry the properties.

## 16. Only model-checked

What the runs check and no theorem states is liveness: `RetryableRetried`, `DeadOwnerFreed`,
`RunComputedUnlessPaused`, `RunEnds`, `WeeklyGetsItsTurn`, `RowSettles`,
`PersistentFailureRecovered`.  Liveness under fairness and ENABLED are out of the prover's
reach.

Induction over data and RECURSIVE operators are out of its reach too; no theorem needs
them, since the modules count with cardinalities and choose with least elements.

## 17. Findings

Refuted by listed runs:

- RunPreparedTwice (`PreparedWhole`): the first preparation of a job works in priority order,
  a resumed one in canonical order, and both skip by position
  (`src/discovery_incremental.py:2245`).  With one batch committed of an order that differs,
  identities are written twice and others never, and the job can never be finalized:
  `WorkbookWhole`, checked by RunSafety in the same order and proved, says that at least no
  partial workbook is completed.
- JobsTwoWorkers (`OneOwner`): a `reconcile()` that judged a row before its child claimed it
  gives the row back afterwards (`src/discovery_jobs.py:760`), and the job is launched and
  claimed a second time while the first worker computes, although "running job cannot be
  claimed or resumed twice" (`src/tests/testsuite_discovery_jobs.py:65`).  Section 5 has the
  trace.

Refuted by a configuration that is kept beside it:

- RunPaused (`RunComputed`): a resource pause after Catalog replaces the phase by
  `resource_paused` (`src/discovery_worker.py:422`).  Only a Catalog commit sets a phase
  again, so when none is pending no branch of the runner applies and every resume returns
  at once, although `src/discovery_incremental_runner.py:150` wants a resume from a later
  phase not to "regress its persisted phase".  RunSafety shows that this is the only way
  in which a run is not computed (`RunComputedUnlessPaused`).
- JobsLostFinalizer (`ExportPendingResolves`): `export_pending` has no owner and no one
  gives it back; a death between `prepare_finalization` and `claim_finalization`
  (`src/discovery_worker.py:354`) leaves it, and it blocks every other launch.
- JobsResumesForEver (`ResumesEnd`): the page says "Il limite di 3 auto-recovery consecutivi
  senza progresso è stato raggiunto. Nessun ulteriore riavvio automatico verrà eseguito."
  (`src/app_glowup.py:1145`), but automatic relaunches may go on for ever without an operator:
  a failure writes the phase the run had reached, a resumed run repeats lower ones, a heartbeat
  counts no batches, and each fingerprint that looks advanced clears the counter
  (`src/discovery_jobs.py:598`, `src/discovery_recovery.py:97`).
- RunHandOffDies (`ComputedFinalized`): the store says `export_pending` before the registry
  does (`src/discovery_worker.py:352`).  After a death in between, or a failed finalizer,
  the worker that a resume starts finds nothing to do and ends resumable, for ever.
- RunNothingSold (`ComputedFinalized`): a job in which no listing passes may have no
  observation; the runner completes it and `finalization_state` refuses it
  (`src/discovery_finalize_worker.py:85`), leaving `export_pending` for ever.
- WeeklyRecheck (`CarriedIsRechecked`): the mark `carry_forward` is lost when the
  generation is published (the columns of `src/supplier_catalog.py:507` have no place for
  it), so the next run does not queue the product again; the test of
  `src/tests/testsuite_qudo_weekly_policy.py:79` uses a store that still has the mark.
- SupplierRepointed (`RepointedResumes`): an object whose record is registered and whose rows
  are still there must resume, says the comment at `src/supplier_archive_lifecycle.py:501`
  ("Such a boundary must resume").  If the process dies between the registration and the save
  of REPOINTED, the file still says VERIFIED, and the next process's check blocks the object.
- WeeklySyncUndone (`SyncsKept`): the command line synchronisation takes no lock, although
  `src/supplier_catalog_coordination.py` serialises the other writers; one that publishes
  between the comparison of the baseline (`src/supplier_weekly_adapters.py:368`) and the
  commit is replaced by a generation that never saw it.
- QogitaSlowLease (`Consistent`): "expired claims are recoverable by another worker"
  (`src/qogita_bootstrap.py:1287`), but the first worker, if it lives, still writes: one
  of the two enriches the product, the other's failure makes it retryable again with its
  scenarios in place, and a snapshot that is built then refuses the generation.

## 18. Not modelled

Calculations in one process: workbook export, taxonomy, fees' and combinations' economics,
the manual tools.  Input and output: HTTP clients, collectors, normalisation of prices,
rendering of messages and pages, the tokens and the pacing of Qogita's client, the
webhook's parsing, the pilot bootstrap.  Operated by hand: restoring an archive, the
dry-run reports of storage, migrations of old checkpoints and tables.  Left for lack of
room, not of reach: compaction of the supplier database, membership versions (they take
the path of snapshots through the archive), Qogita's Korean beauty membership, the storage fingerprint
that suppresses a repeated recovery, a listing's exclusion reason after a later fee.  The
kernel's reuse of a pid that somebody remembers is excluded (`Free`); `maintenance_blocked` waits for the operator by design.
