----------------------------- MODULE CheckpointRun -----------------------------
(***************************************************************************)
(* The Discovery that keeps its whole state in one JSON checkpoint         *)
(* (discovery.py, run_discovery), resumed from the last saved phase after  *)
(* a death, an exception or a fee outage, and the rotation store it shares *)
(* with every other run (discovery_rotation.py), another database that no  *)
(* transaction joins to the checkpoint.  A product has one listing and one *)
(* observation; what Amazon and the suppliers answer is nondeterministic.  *)
(***************************************************************************)
EXTENDS Integers, Sequences, FiniteSets, SequencesExt

CONSTANTS
    Products,      \* identifiers, in the order of their hash
    Jobs,          \* runs
    Budget,        \* run_budget
    Batch,         \* MAX_BATCH_SIZE
    MaxRetries,    \* FEE_ELEMENT_MAX_RETRIES
    MinFailed,     \* FEE_SYSTEMIC_MIN_FAILED_ITEMS
    MaxTroubles,   \* bound on deaths, exceptions and outages
    MaxCycles,     \* bound on rotation cycles
    MaxUniverses,  \* bound on changes of the suppliers' catalogs
    MaxExpiries    \* bound on expiries of the Qogita cache

ASSUME CheckpointAssumption ==
    /\ Products \subseteq Nat /\ IsFiniteSet(Jobs) /\ 0 \notin Jobs
    /\ {Budget, Batch, MaxRetries, MinFailed, MaxCycles} \subseteq Nat \ {0}
    /\ {MaxTroubles, MaxUniverses, MaxExpiries} \subseteq Nat

VARIABLES
    saved,     \* [Jobs -> checkpoint], the JSON files
    runner,    \* the job whose run is alive, or 0
    mem,       \* its checkpoint in memory
    pc,        \* where it is within a phase
    work,      \* [todo, wave, attempt], the fee rows it goes through
    universe,  \* identifiers the suppliers' active generations hold
    items,     \* [known, active, fresh : SUBSET Products, cycle, count : [Products -> Nat]]
    history,   \* identifiers by last_discovery_at
    cycle,     \* current_cycle_id
    sel,       \* [Jobs -> [ids, cycle, analyzed]], the selections
    cache,     \* [version, fresh], the Qogita cache
    count      \* [troubles, universes, expiries]

runVars == <<saved, runner, mem, pc, work>>
rotationVars == <<items, history, cycle, sel>>
vars == <<runVars, universe, rotationVars, cache, count>>

\* A definitive answer is "resolved"; one without listing is excluded later on.
CatalogStatuses == {"catalog_incomplete", "resolved"}
\* A fee is answered when it is valid, invalid or given up for another reason than an
\* internal error of Amazon, which is "unavailable".
Fees == {"none", "fee_pending", "retryable_error", "answered", "unavailable"}

Preparing == {"initialized", "supplier_preparing", "supplier_preparation_failed"}
Checking == {"initialized", "qogita_checking", "qogita_refresh_required", "qogita_refreshing",
             "qogita_refresh_failed"}
Loaded == {"qogita_loaded", "suppliers_loaded"}
Settled == {"catalog_complete", "bsr_filtered", "pricing_complete", "competition_filtered",
            "fees_pending", "fees_complete", "completed"}

All(value) == [p \in Products |-> value]
\* A checkpoint: its phase, whether suppliers were selected, the candidates, what the
\* catalog said of them, those that passed the filters so far, those with a price,
\* their fees, and the Qogita cache before the refresh.
New(suppliers) ==
    [phase |-> "initialized", suppliers |-> suppliers, cand |-> {}, catalog |-> All("none"),
     passed |-> {}, priced |-> {}, fee |-> All("none"), before |-> 0]
Nobody == New(TRUE)
Idle == [todo |-> {}, wave |-> {}, attempt |-> 0]

\* The first n of S in the order of their hash.
First(S, n) == {p \in S : Cardinality({q \in S : q < p}) < n}

Definitive(status) == status \notin {"none", "catalog_incomplete"}

-----------------------------------------------------------------------------
Init ==
    /\ saved \in [Jobs -> {New(TRUE), New(FALSE)}]
    /\ runner = 0 /\ mem = Nobody /\ pc = "go" /\ work = Idle
    /\ universe = Products
    /\ items = [known |-> {}, active |-> {}, fresh |-> {}, cycle |-> All(0), count |-> All(0)]
    /\ history = <<>>
    /\ cycle = 1
    /\ sel = [j \in Jobs |-> [ids |-> {}, cycle |-> 0, analyzed |-> {}]]
    /\ cache = [version |-> 0, fresh |-> FALSE]
    /\ count = [troubles |-> 0, universes |-> 0, expiries |-> 0]

-----------------------------------------------------------------------------
(* What surrounds a run.                                                   *)

PublishGeneration ==
    /\ count.universes < MaxUniverses /\ count' = [count EXCEPT !.universes = @ + 1]
    /\ universe' \in SUBSET Products
    /\ UNCHANGED <<runVars, rotationVars, cache>>

Expire ==
    /\ cache.fresh /\ count.expiries < MaxExpiries /\ count' = [count EXCEPT !.expiries = @ + 1]
    /\ cache' = [cache EXCEPT !.fresh = FALSE]
    /\ UNCHANGED <<runVars, universe, rotationVars>>

\* The page offers a new cycle while no run is active.
StartNewCycle ==
    /\ runner = 0 /\ items.known # {} /\ cycle < MaxCycles
    /\ cycle' = cycle + 1
    /\ UNCHANGED <<runVars, universe, items, history, sel, cache, count>>

-----------------------------------------------------------------------------
(* Resuming.                                                               *)

FeePending(c) == {p \in c.passed : c.fee[p] \in {"none", "fee_pending", "retryable_error"}}

\* Variant: every observation is asked again.
FeeResumedAll(c) ==
    IF c.phase \in {"fees_pending", "completed"}
    THEN [c EXCEPT !.phase = "competition_filtered",
                   !.fee = [p \in Products |-> IF p \in c.passed THEN "fee_pending" ELSE @[p]]]
    ELSE c

\* _prepare_fee_resume: the rows that lack a fee, and of a completed run those
\* Amazon failed on internally, go back to the fees.
FeeResumed(c) ==
    LET rows == CASE c.phase = "fees_pending" -> FeePending(c)
                  [] c.phase = "completed" -> {p \in c.passed : c.fee[p] \in {"fee_pending", "retryable_error", "unavailable"}}
                  [] OTHER -> {}
    IN  IF rows = {} THEN c
        ELSE [c EXCEPT !.phase = "competition_filtered",
                       !.fee = [p \in Products |-> IF p \in rows THEN "fee_pending" ELSE @[p]]]

Start(j) ==
    /\ runner = 0
    /\ FeeResumed(saved[j]).phase # "completed"
    /\ runner' = j
    /\ mem' = FeeResumed(saved[j])
    /\ saved' = [saved EXCEPT ![j] = mem']
    /\ pc' = "go" /\ work' = Idle
    /\ UNCHANGED <<universe, rotationVars, cache, count>>

Save == saved' = [saved EXCEPT ![runner] = mem']

\* _checkpoint: the phase with everything in memory.
Checkpoint(m, phase, at) == mem' = [m EXCEPT !.phase = phase] /\ Save /\ pc' = at

\* The run returns.
Return(m, phase) ==
    /\ saved' = [saved EXCEPT ![runner] = [m EXCEPT !.phase = phase]]
    /\ runner' = 0 /\ mem' = Nobody /\ pc' = "go" /\ work' = Idle

At(at) == runner # 0 /\ pc = at
InPhase(phases) == At("go") /\ mem.phase \in phases
KeepRotation == UNCHANGED <<universe, rotationVars, cache, count>>

-----------------------------------------------------------------------------
(* Suppliers and rotation.                                                 *)

PrepareSuppliers ==
    /\ mem.suppliers /\ InPhase(Preparing)
    /\ Checkpoint(mem, "supplier_preparing", "select")
    /\ UNCHANGED <<runner, work>> /\ KeepRotation

\* sync_universe: the active items become the universe; an identifier that an
\* initialized scope has not seen is new.
Synced ==
    [items EXCEPT !.known = @ \cup universe, !.active = universe,
                  !.fresh = IF items.known = {} THEN @ ELSE @ \cup (universe \ items.known)]

\* The position of p in the order of select: new first, then never analyzed, then
\* least recently.
Before(p, q) ==
    LET rank(x) == IF x \in Synced.fresh THEN 0 ELSE 1
        age(x) == IF Contains(history, x) THEN CHOOSE i \in DOMAIN history : history[i] = x ELSE 0
    IN  \/ rank(p) < rank(q)
        \/ rank(p) = rank(q) /\ age(p) < age(q)
        \/ rank(p) = rank(q) /\ age(p) = age(q) /\ p < q

Remaining == {p \in universe : items.cycle[p] # cycle}

\* select: a selection the job has is kept; of it, what the suppliers still hold
\* becomes the candidates.
Select ==
    /\ At("select")
    /\ universe # {}
    /\ items' = Synced
    /\ LET kept == sel[runner].ids
           chosen == {p \in Remaining : Cardinality({q \in Remaining : Before(q, p)}) < Budget}
       IN  /\ sel' = IF kept # {} THEN sel
                     ELSE [sel EXCEPT ![runner].ids = chosen, ![runner].cycle = cycle]
           /\ mem' = [mem EXCEPT !.cand = sel'[runner].ids \cap universe]
    /\ pc' = "selected"
    /\ UNCHANGED <<saved, runner, work, universe, history, cycle, cache, count>>

SuppliersLoaded ==
    /\ At("selected")
    /\ Checkpoint(mem, "suppliers_loaded", "go")
    /\ UNCHANGED <<runner, work>> /\ KeepRotation

\* No supplier has an active generation with products.
NoSupplier ==
    /\ At("select") /\ universe = {}
    /\ Return(mem, "supplier_preparation_failed")
    /\ KeepRotation

-----------------------------------------------------------------------------
(* The Qogita cache.                                                       *)

\* A fresh cache is used, unless a refresh was found necessary before.
Usable == cache.fresh /\ mem.phase \notin {"qogita_refresh_required", "qogita_refresh_failed"}

CheckCache ==
    /\ ~mem.suppliers /\ InPhase(Checking)
    /\ LET m == [mem EXCEPT !.before = IF @ = 0 THEN cache.version + 1 ELSE @] IN
       IF Usable THEN mem' = [m EXCEPT !.cand = Products] /\ pc' = "loaded" /\ UNCHANGED saved
       ELSE Checkpoint(m, "qogita_refresh_required", "required")
    /\ UNCHANGED <<runner, work>> /\ KeepRotation

Refreshing ==
    /\ At("required")
    /\ Checkpoint(mem, "qogita_refreshing", "refresh")
    /\ UNCHANGED <<runner, work>> /\ KeepRotation

\* The refresher publishes the cache and answers, or fails.
Refresh ==
    /\ At("refresh")
    /\ \/ /\ cache' = [version |-> cache.version + 1, fresh |-> TRUE]
          /\ pc' = "refreshed" /\ UNCHANGED <<saved, runner, mem, work, count>>
       \/ /\ count.troubles < MaxTroubles /\ count' = [count EXCEPT !.troubles = @ + 1]
          /\ Return(mem, "qogita_refresh_failed") /\ UNCHANGED cache
    /\ UNCHANGED <<universe, rotationVars>>

\* The refreshed cache is used if it is fresh and has advanced.
Refreshed ==
    /\ At("refreshed")
    /\ IF cache.fresh /\ cache.version + 1 > mem.before
       THEN mem' = [mem EXCEPT !.cand = Products] /\ pc' = "loaded" /\ UNCHANGED <<saved, runner, work>>
       ELSE Return(mem, "qogita_refresh_failed")
    /\ KeepRotation

QogitaLoaded ==
    /\ At("loaded")
    /\ Checkpoint(mem, "qogita_loaded", "go")
    /\ UNCHANGED <<runner, work>> /\ KeepRotation

-----------------------------------------------------------------------------
(* The catalog and the consumption of the selection.                       *)

\* Variant: what another job consumed in the cycle is not recorded for this one.
CommitFirst(S) ==
    LET mine == sel[runner]
        counted == {p \in S \cap mine.ids : Definitive(mem.catalog[p]) /\ items.cycle[p] # mine.cycle}
    IN  /\ sel' = [sel EXCEPT ![runner].analyzed = @ \cup counted]
        /\ items' = [items EXCEPT
               !.cycle = [p \in Products |-> IF p \in counted THEN mine.cycle ELSE @[p]],
               !.count = [p \in Products |-> IF p \in counted THEN @[p] + 1 ELSE @[p]],
               !.fresh = @ \ counted]
        /\ history' = SelectSeq(history, LAMBDA p : p \notin counted) \o SetToSortSeq(counted, <)
        /\ UNCHANGED cycle

\* commit_catalog_results: the definitive statuses of S consume their items, one
\* time a job and one time a cycle.
Commit(S) ==
    LET mine == sel[runner]
        done == {p \in S \cap (mine.ids \ mine.analyzed) : Definitive(mem.catalog[p])}
        counted == {p \in done : items.cycle[p] # mine.cycle}
    IN  /\ sel' = [sel EXCEPT ![runner].analyzed = @ \cup done]
        /\ items' = [items EXCEPT
               !.cycle = [p \in Products |-> IF p \in counted THEN mine.cycle ELSE @[p]],
               !.count = [p \in Products |-> IF p \in counted THEN @[p] + 1 ELSE @[p]],
               !.fresh = @ \ counted]
        /\ history' = SelectSeq(history, LAMBDA p : p \notin counted) \o SetToSortSeq(counted, <)
        /\ UNCHANGED cycle

KeepRun == UNCHANGED <<saved, runner, work, universe, cache, count>>

\* Answers a crashed run saved are committed first.
Reconcile ==
    /\ InPhase(Loaded)
    /\ Commit(mem.cand) /\ pc' = "catalog"
    /\ UNCHANGED mem /\ KeepRun

Unanswered == {p \in mem.cand : mem.catalog[p] = "none"}
Answers(S) == {a \in [Products -> {"none"} \cup CatalogStatuses] :
                   \A p \in Products : IF p \in S THEN a[p] # "none" ELSE a[p] = mem.catalog[p]}

CatalogBatch ==
    /\ At("catalog") /\ Unanswered # {}
    /\ \E a \in Answers(First(Unanswered, Batch)) : mem' = [mem EXCEPT !.catalog = a]
    /\ Save /\ pc' = "commit"
    /\ UNCHANGED <<runner, work>> /\ KeepRotation

CatalogCommit ==
    /\ At("commit")
    /\ Commit(mem.cand) /\ pc' = "catalog"
    /\ UNCHANGED mem /\ KeepRun

\* Once more, and the phase is saved.
CatalogSettle ==
    /\ At("catalog") /\ Unanswered = {}
    /\ Commit(mem.cand) /\ pc' = "settled"
    /\ UNCHANGED mem /\ KeepRun

CatalogComplete ==
    /\ At("settled")
    /\ Checkpoint(mem, "catalog_complete", "go")
    /\ UNCHANGED <<runner, work>> /\ KeepRotation

-----------------------------------------------------------------------------
(* The filters and the fees.                                               *)

FilterBsr ==
    /\ InPhase({"catalog_complete"})
    /\ \E passed \in SUBSET {p \in mem.cand : mem.catalog[p] = "resolved"} :
           Checkpoint([mem EXCEPT !.passed = passed], "bsr_filtered", "go")
    /\ UNCHANGED <<runner, work>> /\ KeepRotation

Unpriced == mem.passed \ mem.priced

PricingBatch ==
    /\ InPhase({"bsr_filtered"}) /\ Unpriced # {}
    /\ mem' = [mem EXCEPT !.priced = @ \cup First(Unpriced, Batch)]
    /\ Save
    /\ UNCHANGED <<runner, pc, work>> /\ KeepRotation

PricingComplete ==
    /\ InPhase({"bsr_filtered"}) /\ Unpriced = {}
    /\ Checkpoint(mem, "pricing_complete", "go")
    /\ UNCHANGED <<runner, work>> /\ KeepRotation

FilterCompetition ==
    /\ InPhase({"pricing_complete"})
    /\ \E passed \in SUBSET mem.passed :
           Checkpoint([mem EXCEPT !.passed = passed, !.priced = {}], "competition_filtered", "go")
    /\ UNCHANGED <<runner, work>> /\ KeepRotation

\* The rows without a fee are cut into batches.
FeesBegin ==
    /\ InPhase({"competition_filtered"})
    /\ work' = [Idle EXCEPT !.todo = FeePending(mem)] /\ pc' = "fees"
    /\ UNCHANGED <<saved, runner, mem>> /\ KeepRotation

FeeBatch ==
    /\ At("fees") /\ work.wave = {} /\ work.todo # {}
    /\ LET rows == First(work.todo, Batch) IN
       work' = [todo |-> work.todo \ rows, wave |-> rows, attempt |-> 1]
    /\ UNCHANGED <<saved, runner, mem, pc>> /\ KeepRotation

MayRetry == work.attempt <= MaxRetries

\* At least four fifths of the wave, and enough of them.
Systemic(failed) == Cardinality(failed) >= MinFailed /\ 5 * Cardinality(failed) >= 4 * Cardinality(work.wave)

\* _process_fee_batch, one wave: transient rows are asked again, in the end given
\* up; if nearly all are, the run pauses with all of them retryable.
FeeWave ==
    /\ At("fees") /\ work.wave # {}
    /\ \E transient \in SUBSET work.wave : \E internal \in SUBSET transient :
       LET outage == ~MayRetry /\ Systemic(transient)
           as(p) == IF p \notin transient THEN "answered"
                    ELSE IF MayRetry \/ outage THEN "retryable_error"
                    ELSE IF p \in internal THEN "unavailable" ELSE "answered"
       IN  /\ mem' = [mem EXCEPT !.fee = [p \in Products |-> IF p \in work.wave THEN as(p) ELSE @[p]]]
           /\ pc' = IF outage THEN "outage" ELSE "fees"
           /\ work' = IF MayRetry /\ transient # {}
                      THEN [work EXCEPT !.wave = transient, !.attempt = @ + 1]
                      ELSE [work EXCEPT !.wave = {}, !.attempt = 0]
    /\ Save
    /\ UNCHANGED runner /\ KeepRotation

\* The request itself failed four times.
FeeRequestFails ==
    /\ At("fees") /\ work.wave # {}
    /\ count.troubles < MaxTroubles /\ count' = [count EXCEPT !.troubles = @ + 1]
    /\ pc' = "outage"
    /\ UNCHANGED <<saved, runner, mem, work, universe, rotationVars, cache>>

\* Variant: after an outage the run goes on to its evaluation.
OutageForgotten == At("outage") /\ Checkpoint(mem, "fees_complete", "go") /\ UNCHANGED <<runner, work>> /\ KeepRotation

Outage == At("outage") /\ Return(mem, "fees_pending") /\ KeepRotation

FeesEnd ==
    /\ At("fees") /\ work.wave = {} /\ work.todo = {}
    /\ IF FeePending(mem) = {}
       THEN Checkpoint(mem, "fees_complete", "go") /\ UNCHANGED <<runner, work>>
       ELSE Return(mem, "fees_pending")
    /\ KeepRotation

Evaluate ==
    /\ InPhase({"fees_complete"})
    /\ Return(mem, "completed")
    /\ KeepRotation

-----------------------------------------------------------------------------
(* An exception saves the checkpoint as it is; a death saves nothing.      *)

Raise ==
    /\ runner # 0 /\ pc \in {"select", "refresh", "catalog", "fees"}
    /\ count.troubles < MaxTroubles /\ count' = [count EXCEPT !.troubles = @ + 1]
    /\ Return(mem, mem.phase)
    /\ UNCHANGED <<universe, rotationVars, cache>>

Die ==
    /\ runner # 0
    /\ count.troubles < MaxTroubles /\ count' = [count EXCEPT !.troubles = @ + 1]
    /\ runner' = 0 /\ mem' = Nobody /\ pc' = "go" /\ work' = Idle
    /\ UNCHANGED <<saved, universe, rotationVars, cache>>

-----------------------------------------------------------------------------
RunStep ==
    \/ PrepareSuppliers \/ Select \/ SuppliersLoaded \/ NoSupplier
    \/ CheckCache \/ Refreshing \/ Refresh \/ Refreshed \/ QogitaLoaded
    \/ Reconcile \/ CatalogBatch \/ CatalogCommit \/ CatalogSettle \/ CatalogComplete
    \/ FilterBsr \/ PricingBatch \/ PricingComplete \/ FilterCompetition
    \/ FeesBegin \/ FeeBatch \/ FeeWave \/ Outage \/ FeesEnd \/ Evaluate

Next ==
    \/ PublishGeneration \/ Expire \/ StartNewCycle
    \/ \E j \in Jobs : Start(j)
    \/ RunStep
    \/ FeeRequestFails \/ Raise \/ Die

Spec == Init /\ [][Next]_vars

-----------------------------------------------------------------------------
Phases == Preparing \cup Checking \cup Loaded \cup Settled
Answer == {"none"} \cup CatalogStatuses
Checkpoints ==
    [phase : Phases, suppliers : BOOLEAN, cand : SUBSET Products, catalog : [Products -> Answer],
     passed : SUBSET Products, priced : SUBSET Products, fee : [Products -> Fees], before : Nat]
Places == {"go", "select", "selected", "required", "refresh", "refreshed", "loaded", "catalog",
           "commit", "settled", "fees", "outage"}

\* The type of every variable; history is a sequence no property reads.
TypeOK ==
    /\ saved \in [Jobs -> Checkpoints] /\ mem \in Checkpoints
    /\ runner \in Jobs \cup {0} /\ pc \in Places
    /\ work \in [todo : SUBSET Products, wave : SUBSET Products, attempt : Nat]
    /\ universe \subseteq Products
    /\ items \in [known : SUBSET Products, active : SUBSET Products, fresh : SUBSET Products,
                  cycle : [Products -> Nat], count : [Products -> Nat]]
    /\ items.active \cup items.fresh \subseteq items.known
    /\ cycle \in 1 .. MaxCycles
    /\ sel \in [Jobs -> [ids : SUBSET Products, cycle : Nat, analyzed : SUBSET Products]]
    /\ cache \in [version : Nat, fresh : BOOLEAN]
    /\ count \in [troubles : 0 .. MaxTroubles, universes : 0 .. MaxUniverses, expiries : 0 .. MaxExpiries]

\* An identifier leaves the rotation only by an answer that survives: whatever a job
\* has analyzed has its definitive answer in the checkpoint on disk, so that a run
\* that dies between the two stores never loses an identifier (run_discovery,
\* commit_catalog_results).
ConsumedIsDurable ==
    \A j \in Jobs : \A p \in sel[j].analyzed : Definitive(saved[j].catalog[p])

\* The other way round: once the catalog phase is saved as complete, every definitive
\* answer of the selection has consumed its identifier, whatever died before.
AnsweredIsConsumed ==
    \A j \in Jobs : saved[j].suppliers /\ saved[j].phase \in Settled =>
        \A p \in saved[j].cand : Definitive(saved[j].catalog[p]) => p \in sel[j].analyzed

\* What the rotation says of an item is backed by selections: its cycle is that of a
\* job which analyzed it, and it is counted at least one and at most as many times as
\* jobs analyzed it, also when a job of an older cycle is resumed in a newer one.
ItemsAreBacked ==
    \A p \in Products :
        LET by == {j \in Jobs : p \in sel[j].analyzed} IN
        /\ (by = {}) <=> (items.count[p] = 0)
        /\ items.count[p] <= Cardinality(by)
        /\ items.cycle[p] # 0 => \E j \in by : sel[j].cycle = items.cycle[p]

\* The checkpoint and the rotation store, which no transaction covers together, never
\* disagree about what was done.
StoresAgree == ConsumedIsDurable /\ AnsweredIsConsumed /\ ItemsAreBacked

\* A job that ends has nothing left to ask: every candidate was answered by the
\* catalog and every observation that passed has a final fee status, after any
\* outage, retry and resume.
CompletedIsWhole ==
    \A j \in Jobs : saved[j].phase \in {"fees_complete", "completed"} =>
        /\ \A p \in saved[j].cand : saved[j].catalog[p] # "none"
        /\ FeePending(saved[j]) = {}

\* A fee that Amazon has answered is never asked or lost again.
AnsweredFeesAreKept ==
    [][\A j \in Jobs : \A p \in Products : saved[j].fee[p] = "answered" => saved'[j].fee[p] = "answered"]_vars

=============================================================================
