-------------------------- MODULE IncrementalRun ---------------------------
(***************************************************************************)
(* One Discovery job, from its selection to its workbook: the worker's      *)
(* preparation (discovery_incremental.py), the phases of                    *)
(* run_incremental_discovery (discovery_incremental_runner.py), the rotation *)
(* store (discovery_rotation.py) and the hand-off to the finalizer.         *)
(*                                                                         *)
(* The worker may be killed, paused by the resource governor, or given up   *)
(* on by a provider between any two SQLite transactions; each transaction   *)
(* is one step.  DiscoveryJobs shows when a job has one worker at a time;   *)
(* here it always does.                                                     *)
(***************************************************************************)
EXTENDS Integers, FiniteSets, Sequences

CONSTANTS
  Count,        \* number of identities selected; 1..Count is canonical order
  Order,        \* the order in which the rotation store first selects them
  Asin,         \* Amazon pages, as integers in the order of their names
  Listing,      \* [Item -> SUBSET Asin]: the pages a Catalog answer lists
  Cached,       \* items whose Catalog result the freshness cache still has
  PriceCached,  \* those of them whose prices it has as well
  Ranked,       \* pages that pass the Beauty and BSR filters
  Sellable,     \* pages whose price and seller counts pass
  FeeCached,    \* pages whose fee the freshness cache has; it may expire
  Batch,        \* records per transaction (250, 500), items per request (20)
  Troubles,     \* what may go wrong, a subset of TroubleKind
  MaxTrouble    \* bound: how many times something goes wrong

Item == 1..Count
Null == -1

\* "preparation" lets a death or a pause interrupt the preparation too.
TroubleKind == {"death", "pause", "preparation", "incomplete", "transient", "outage",
                "finalizer"}

ASSUME RunAssumption ==
  /\ Count \in Nat \ {0}
  /\ Batch \in Nat \ {0}
  /\ MaxTrouble \in Nat
  /\ Asin \subseteq Nat
  /\ Listing \in [Item -> SUBSET Asin]
  /\ Order \in [Item -> Item]
  /\ \A i \in Item : \E k \in Item : Order[k] = i
  /\ PriceCached \subseteq Cached /\ Cached \subseteq Item
  /\ Ranked \subseteq Asin /\ Sellable \subseteq Asin /\ FeeCached \subseteq Asin
  /\ Troubles \subseteq TroubleKind

Phase == {"none", "preparing", "suppliers_loaded", "catalog_complete",
          "bsr_filtered", "pricing_complete", "competition_filtered",
          "fees_pending", "fees_complete", "completed", "export_pending",
          "resource_paused"}

\* How far a phase says the job is.  "none" is a job that has no row yet.
Rank == [p \in Phase |->
  CASE p = "preparing" -> 1
    [] p = "suppliers_loaded" -> 2
    [] p = "catalog_complete" -> 3
    [] p = "bsr_filtered" -> 4
    [] p = "pricing_complete" -> 5
    [] p \in {"competition_filtered", "fees_pending"} -> 6
    [] p = "fees_complete" -> 7
    [] p \in {"completed", "export_pending"} -> 8
    [] OTHER -> 0]

Verdict == {"none", "found", "bsr_filtered", "bsr_passed",
            "competition_filtered", "competition_passed"}

VARIABLES
  \* the job store (discovery_incremental.py)
  phase,      \* phase of the job
  selected,   \* selected_count: how many candidates are prepared
  completed,  \* catalog_completed_count
  prepared,   \* preparation_complete in the job's metadata
  seq,        \* sequence_no of each item, Null if the item has no row
  cat,        \* catalog_status: null, incomplete (to be retried), definitive
  listing,    \* evaluation_status of each listing, "none" if there is no row
  priced,     \* pairs <<item, asin>> whose listing has a pricing_status
  fee,        \* fee_status of each page's observation, "none" without a row
  evaluated,  \* items whose economics are written
  \* the rotation store (discovery_rotation.py)
  frozen,     \* the job's selection exists
  analyzed,   \* selections with status "analyzed"
  \* the registry's word on the job (discovery_jobs.py)
  reg,
  \* the worker's memory, lost with it
  pc,         \* what it does next, "off" without a worker
  queue,      \* candidates still to be prepared
  todo,       \* items a pass over iter_candidates has yet to visit
  batch,      \* items in flight
  asins,      \* pages in flight
  \* history
  answered,   \* items for which a definitive Catalog answer was stored
  quoted,     \* pages for which a price was stored
  trouble     \* how many things went wrong

itemVars == <<seq, cat, listing, priced, fee, evaluated>>
countVars == <<selected, completed, prepared>>
rotationVars == <<frozen, analyzed>>
memory == <<queue, todo, batch, asins>>
history == <<answered, quoted>>
vars == <<phase, countVars, itemVars, rotationVars, reg, pc, memory, history, trouble>>

Pc == {"off", "freeze", "create", "prepare", "begin", "replay", "requeue",
       "catalog", "commit", "rotate", "giveup", "gate", "filter", "reconcile", "pricing",
       "prices", "observe", "settle", "fees", "wave", "outage", "economics",
       "handoff", "publish", "return"}

TypeOK ==
  /\ phase \in Phase
  /\ selected \in 0..Count /\ completed \in Nat
  /\ prepared \in BOOLEAN
  /\ seq \in [Item -> {Null} \cup Nat]
  /\ cat \in [Item -> {"null", "incomplete", "definitive"}]
  /\ listing \in [Item -> [Asin -> Verdict]]
  /\ priced \subseteq Item \X Asin
  /\ fee \in [Asin -> {"none", "pending", "retryable", "settled"}]
  /\ evaluated \subseteq Item
  /\ frozen \in BOOLEAN /\ analyzed \subseteq Item
  /\ reg \in {"resumable", "running", "export", "completed"}
  /\ pc \in Pc
  /\ queue \in Seq(Item)
  /\ todo \subseteq Item /\ batch \subseteq Item /\ asins \subseteq Asin
  /\ answered \subseteq Item /\ quoted \subseteq Asin
  /\ trouble \in 0..MaxTrouble

Init ==
  /\ phase = "none" /\ selected = 0 /\ completed = 0 /\ prepared = FALSE
  /\ seq = [i \in Item |-> Null]
  /\ cat = [i \in Item |-> "null"]
  /\ listing = [i \in Item |-> [a \in Asin |-> "none"]]
  /\ priced = {} /\ evaluated = {}
  /\ fee = [a \in Asin |-> "none"]
  /\ frozen = FALSE /\ analyzed = {}
  /\ reg = "resumable" /\ pc = "off"
  /\ queue = <<>> /\ todo = {} /\ batch = {} /\ asins = {}
  /\ answered = {} /\ quoted = {} /\ trouble = 0

-----------------------------------------------------------------------------
(* What the store answers.                                                  *)

Stored == {i \in Item : seq[i] # Null}
Definitive == {i \in Stored : cat[i] = "definitive"}
PendingItems == {i \in Stored : cat[i] = "null"}

\* LIMIT: the first records in the order of their sequence_no or name.
FirstItems(S) == {i \in S : Cardinality({j \in S : seq[j] < seq[i]}) < Batch}
FirstAsins(S) == {a \in S : Cardinality({b \in S : b < a}) < Batch}

Unpriced == {l \in Item \X Asin : listing[l[1]][l[2]] = "bsr_passed" /\ l \notin priced}
HasPrice(a) == \E i \in Item : <<i, a>> \in priced
Twins == {l \in Unpriced : HasPrice(l[2])}
PendingAsins == {a \in Asin : ~HasPrice(a) /\ \E i \in Item : <<i, a>> \in Unpriced}
UnaskedFees == {a \in Asin : fee[a] = "pending"}  \* variant
PendingFees == {a \in Asin : fee[a] \in {"pending", "retryable"}}

Goes(step) == /\ pc' = step
              /\ UNCHANGED <<reg, trouble>>

\* A pass over all candidates starts afresh, also after a resume.
Enters(step) == /\ Goes(step)
                /\ todo' = IF step \in {"filter", "observe", "economics"}
                           THEN Stored ELSE {}
                /\ UNCHANGED <<queue, batch, asins>>

Forgets == queue' = <<>> /\ todo' = {} /\ batch' = {} /\ asins' = {}

\* The worker leaves; the registry holds the job for a resume.
Leaves == /\ pc' = "off" /\ reg' = "resumable"
          /\ Forgets

Trouble(kind) == /\ kind \in Troubles
                 /\ trouble < MaxTrouble
                 /\ trouble' = trouble + 1

-----------------------------------------------------------------------------
(* Preparation: prepare_incremental_job and create_job.                     *)

\* launch(), admission and claim are DiscoveryJobs; execute() then looks
\* whether the job is prepared.
Resume ==
  /\ pc = "off" /\ reg = "resumable"
  /\ reg' = "running"
  /\ pc' = IF prepared THEN "begin" ELSE "freeze"
  /\ UNCHANGED <<phase, countVars, itemVars, rotationVars, memory, history, trouble>>

\* The first time select_current_universe returns the candidates in the order
\* of their priority and freezes them, later frozen_selection returns them in
\* canonical order.
Selection == IF frozen THEN [i \in Item |-> i] ELSE Order

\* Variant: a resume prepares the whole selection again.
FreezeWhole ==
  /\ pc = "freeze"
  /\ queue' = Selection
  /\ frozen' = TRUE
  /\ Goes("create")
  /\ UNCHANGED <<phase, countVars, itemVars, analyzed, todo, batch, asins, history>>

\* prepare_incremental_job: the candidates of the selection, without the first
\* prepared_current of them.
FreezeSelection ==
  /\ pc = "freeze"
  /\ queue' = SubSeq(Selection, selected + 1, Count)
  /\ frozen' = TRUE
  /\ Goes("create")
  /\ UNCHANGED <<phase, countVars, itemVars, analyzed, todo, batch, asins, history>>

CreateJob ==
  /\ pc = "create"
  /\ phase' = "preparing"
  /\ Goes("prepare")
  /\ UNCHANGED <<countVars, itemVars, rotationVars, memory, history>>

\* get_many: what the freshness cache holds of an item; too old counts as none.
CacheRow(i) == [found |-> i \in Cached,
                listings |-> IF i \in Cached THEN Listing[i] ELSE {},
                priced |-> i \in PriceCached]

\* plan_cached_product, as far as the preparation reads it.
Plan(i) == IF ~CacheRow(i).found THEN {"NEW_LOOKUP"}
           ELSE IF ~CacheRow(i).priced THEN {"REFRESH_PRICING"}
           ELSE {"CACHE_REUSE"}

\* candidates(): items that take the cached answer, and those that keep its prices.
Reused == {i \in Item : "NEW_LOOKUP" \notin Plan(i)}
Repriced == {i \in Reused : "REFRESH_PRICING" \notin Plan(i)}

\* An item that is prepared again is overwritten (ON CONFLICT DO UPDATE).
PrepareBatch ==
  /\ pc = "prepare" /\ queue # <<>>
  /\ LET n == IF Len(queue) < Batch THEN Len(queue) ELSE Batch
         place(i) == {k \in 1..n : queue[k] = i}
         new == {i \in Item : place(i) # {}}
     IN /\ queue' = SubSeq(queue, n + 1, Len(queue))
        /\ selected' = selected + n
        /\ completed' = completed + Cardinality(new \cap Reused)
        /\ seq' = [i \in Item |-> IF i \in new
                     THEN selected - 1 + (CHOOSE k \in place(i) : TRUE) ELSE seq[i]]
        /\ cat' = [i \in Item |-> IF i \notin new THEN cat[i]
                     ELSE IF i \in Reused THEN "definitive" ELSE "null"]
        /\ listing' = [i \in Item |-> [a \in Asin |->
                         IF i \in new \cap Reused /\ a \in CacheRow(i).listings
                         THEN "found" ELSE listing[i][a]]]
        /\ priced' = priced \cup {l \in Item \X Asin : /\ l[1] \in new \cap Repriced
                                                       /\ l[2] \in CacheRow(l[1]).listings}
        /\ answered' = answered \cup (new \cap Reused)
  /\ Goes("prepare")
  /\ UNCHANGED <<phase, prepared, fee, evaluated, rotationVars, todo, batch, asins, quoted>>

CompletePreparation ==
  /\ pc = "prepare" /\ queue = <<>> /\ selected = Count
  /\ phase' = "suppliers_loaded"
  /\ prepared' = TRUE
  /\ Goes("begin")
  /\ UNCHANGED <<selected, completed, itemVars, rotationVars, memory, history>>

-----------------------------------------------------------------------------
(* run_incremental_discovery: what a resume does first.                     *)

\* Variant: fees_pending is not reset.
BeginAsIs ==
  /\ pc = "begin"
  /\ Goes("replay")
  /\ UNCHANGED <<phase, countVars, itemVars, rotationVars, memory, history>>

Begin ==
  /\ pc = "begin"
  /\ phase' = IF phase = "fees_pending" THEN "competition_filtered" ELSE phase
  /\ Goes("replay")
  /\ UNCHANGED <<countVars, itemVars, rotationVars, memory, history>>

\* Variant: nothing is replayed.
SkipReplay ==
  /\ pc = "replay"
  /\ Goes("requeue")
  /\ UNCHANGED <<phase, countVars, itemVars, rotationVars, memory, history>>

\* Results stored by a worker that died before it told the rotation store.
ReplayRotation ==
  /\ pc = "replay"
  /\ analyzed' = analyzed \cup Definitive
  /\ Goes("requeue")
  /\ UNCHANGED <<phase, countVars, itemVars, frozen, memory, history>>

\* Variant: every item is queued again.
RequeueAll ==
  /\ pc = "requeue"
  /\ cat' = [i \in Item |-> "null"]
  /\ Goes("catalog")
  /\ UNCHANGED <<phase, countVars, seq, listing, priced, fee, evaluated,
                 rotationVars, memory, history>>

RequeueIncomplete ==
  /\ pc = "requeue"
  /\ cat' = [i \in Item |-> IF cat[i] = "incomplete" THEN "null" ELSE cat[i]]
  /\ Goes("catalog")
  /\ UNCHANGED <<phase, countVars, seq, listing, priced, fee, evaluated,
                 rotationVars, memory, history>>

-----------------------------------------------------------------------------
(* Catalog.                                                                 *)

FetchCatalog ==
  /\ pc = "catalog" /\ PendingItems # {}
  /\ batch' = FirstItems(PendingItems)
  /\ Goes("commit")
  /\ UNCHANGED <<phase, countVars, itemVars, rotationVars, queue, todo, asins, history>>

\* Any of the answers may be incomplete; the others are definitive.
CommitCatalog ==
  /\ pc = "commit"
  /\ \E incomplete \in SUBSET batch :
       LET known == batch \ incomplete
       IN /\ \/ incomplete = {} /\ UNCHANGED trouble
             \/ incomplete # {} /\ Trouble("incomplete")
          /\ cat' = [i \in Item |-> IF i \in known THEN "definitive"
                                    ELSE IF i \in incomplete THEN "incomplete" ELSE cat[i]]
          /\ listing' = [i \in Item |-> IF i \notin batch THEN listing[i] ELSE
                          [a \in Asin |-> IF i \in known /\ a \in Listing[i]
                                          THEN "found" ELSE "none"]]
          /\ priced' = {l \in priced : l[1] \notin batch}
          /\ completed' = completed + Cardinality(known \ Definitive)
          /\ answered' = answered \cup known
  /\ phase' = IF completed' = selected THEN "catalog_complete" ELSE "suppliers_loaded"
  /\ pc' = "rotate"
  /\ UNCHANGED <<reg, selected, prepared, seq, fee, evaluated, rotationVars, memory, quoted>>

\* Variant: the run goes on after an incomplete answer.
RotateAndGoOn ==
  /\ pc = "rotate"
  /\ analyzed' = analyzed \cup {i \in batch : cat[i] = "definitive"}
  /\ batch' = {}
  /\ Goes("catalog")
  /\ UNCHANGED <<phase, countVars, itemVars, frozen, queue, todo, asins, history>>

\* With an incomplete answer in the batch the run stops, to be resumed later:
\* set_phase(suppliers_loaded, waiting_retry).
CommitRotation ==
  /\ pc = "rotate"
  /\ analyzed' = analyzed \cup {i \in batch : cat[i] = "definitive"}
  /\ batch' = {}
  /\ Goes(IF \E i \in batch : cat[i] = "incomplete" THEN "giveup" ELSE "catalog")
  /\ UNCHANGED <<phase, countVars, itemVars, frozen, queue, todo, asins, history>>

GiveUp ==
  /\ pc = "giveup"
  /\ phase' = "suppliers_loaded"
  /\ Leaves
  /\ UNCHANGED <<countVars, itemVars, rotationVars, history, trouble>>

CatalogDone ==
  /\ pc = "catalog" /\ PendingItems = {}
  /\ Goes("gate")
  /\ UNCHANGED <<phase, countVars, itemVars, rotationVars, memory, history>>

\* Which loop a phase resumes in.
Loop == [p \in Phase |->
  CASE p = "catalog_complete" -> "filter"
    [] p = "bsr_filtered" -> "reconcile"
    [] p = "pricing_complete" -> "observe"
    [] p = "competition_filtered" -> "fees"
    [] p = "fees_complete" -> "economics"
    [] p = "completed" -> "handoff"
    [] OTHER -> "return"]

\* The Catalog queue is empty also for a resume from a later phase.
Gate ==
  /\ pc = "gate"
  /\ phase' = IF phase \in {"suppliers_loaded", "catalog_complete"}
              THEN "catalog_complete" ELSE phase
  /\ Enters(Loop[phase'])
  /\ UNCHANGED <<countVars, itemVars, rotationVars, history>>

-----------------------------------------------------------------------------
(* Beauty and BSR filters.                                                  *)

FilterBatch ==
  /\ pc = "filter" /\ todo # {}
  /\ LET page == FirstItems(todo)
     IN /\ listing' = [i \in Item |-> IF i \notin page THEN listing[i] ELSE
                        [a \in Asin |-> IF listing[i][a] = "none" THEN "none"
                           ELSE IF a \in Ranked THEN "bsr_passed" ELSE "bsr_filtered"]]
        /\ todo' = todo \ page
  /\ Goes("filter")
  /\ UNCHANGED <<phase, countVars, seq, cat, priced, fee, evaluated, rotationVars,
                 queue, batch, asins, history>>

FilterDone ==
  /\ pc = "filter" /\ todo = {}
  /\ phase' = "bsr_filtered"
  /\ Enters("reconcile")
  /\ UNCHANGED <<countVars, itemVars, rotationVars, history>>

-----------------------------------------------------------------------------
(* Product Pricing.                                                         *)

\* A listing takes the price of a listing of the same page, without a request.
ReconcileDuplicates ==
  /\ pc = "reconcile"
  /\ \E some \in SUBSET Twins :
       /\ Cardinality(some) = IF Cardinality(Twins) < Batch
                              THEN Cardinality(Twins) ELSE Batch
       /\ priced' = priced \cup some
  /\ Goes(IF Twins = {} THEN "pricing" ELSE "reconcile")
  /\ UNCHANGED <<phase, countVars, seq, cat, listing, fee, evaluated, rotationVars,
                 memory, history>>

FetchPrices ==
  /\ pc = "pricing" /\ PendingAsins # {}
  /\ asins' = FirstAsins(PendingAsins)
  /\ Goes("prices")
  /\ UNCHANGED <<phase, countVars, itemVars, rotationVars, queue, todo, batch, history>>

CommitPrices ==
  /\ pc = "prices"
  /\ priced' = priced \cup {l \in Unpriced : l[2] \in asins}
  /\ quoted' = quoted \cup asins
  /\ asins' = {}
  /\ Goes("pricing")
  /\ UNCHANGED <<phase, countVars, seq, cat, listing, fee, evaluated, rotationVars,
                 queue, todo, batch, answered>>

PricingDone ==
  /\ pc = "pricing" /\ PendingAsins = {}
  /\ phase' = "pricing_complete"
  /\ Enters("observe")
  /\ UNCHANGED <<countVars, itemVars, rotationVars, history>>

-----------------------------------------------------------------------------
(* Competition.  The observations are written before the listings that name  *)
(* them, in a transaction of their own; an observation that exists keeps its  *)
(* fee unless the cache has a fresh one.  A listing that is filtered out gets  *)
(* an observation too when the cache gave it a price and no verdict against it. *)

Competition(i, a) ==
  IF listing[i][a] # "bsr_passed" THEN listing[i][a]
  ELSE IF <<i, a>> \in priced /\ a \in Sellable
       THEN "competition_passed" ELSE "competition_filtered"

\* The pages of a batch that _build_amazon_observations must and may name.
Passed(page) == {a \in Asin : \E i \in page : Competition(i, a) = "competition_passed"}
Priced(page) == {a \in Asin : \E i \in page : /\ listing[i][a] = "bsr_filtered"
                                              /\ <<i, a>> \in priced}

\* Variant: an observation is written anew.
ObserveAnew ==
  /\ pc = "observe" /\ todo # {}
  /\ batch' = FirstItems(todo)
  /\ todo' = todo \ batch'
  /\ \E seen \in SUBSET Asin, fresh \in SUBSET FeeCached :
       /\ Passed(batch') \subseteq seen /\ seen \subseteq Passed(batch') \cup Priced(batch')
       /\ fresh \subseteq seen
       /\ fee' = [a \in Asin |-> IF a \in fresh THEN "settled"
                                 ELSE IF a \in seen THEN "pending" ELSE fee[a]]
  /\ Goes("settle")
  /\ UNCHANGED <<phase, countVars, seq, cat, listing, priced, evaluated, rotationVars,
                 queue, asins, history>>

ObserveBatch ==
  /\ pc = "observe" /\ todo # {}
  /\ batch' = FirstItems(todo)
  /\ todo' = todo \ batch'
  /\ \E seen \in SUBSET Asin, fresh \in SUBSET FeeCached :
       /\ Passed(batch') \subseteq seen /\ seen \subseteq Passed(batch') \cup Priced(batch')
       /\ fresh \subseteq seen
       /\ fee' = [a \in Asin |-> IF a \in fresh THEN "settled"
                     ELSE IF a \in seen /\ fee[a] = "none" THEN "pending" ELSE fee[a]]
  /\ Goes("settle")
  /\ UNCHANGED <<phase, countVars, seq, cat, listing, priced, evaluated, rotationVars,
                 queue, asins, history>>

SettleBatch ==
  /\ pc = "settle"
  /\ listing' = [i \in Item |-> IF i \notin batch THEN listing[i]
                                ELSE [a \in Asin |-> Competition(i, a)]]
  /\ batch' = {}
  /\ Goes("observe")
  /\ UNCHANGED <<phase, countVars, seq, cat, priced, fee, evaluated, rotationVars,
                 queue, todo, asins, history>>

CompetitionDone ==
  /\ pc = "observe" /\ todo = {}
  /\ phase' = "competition_filtered"
  /\ Enters("fees")
  /\ UNCHANGED <<countVars, itemVars, rotationVars, history>>

-----------------------------------------------------------------------------
(* Product Fees: _process_fee_batch retries transient failures of single     *)
(* rows, saving the batch after each wave, and stops when the API is out.    *)

FetchFees ==
  /\ pc = "fees" /\ PendingFees # {}
  /\ asins' = FirstAsins(PendingFees)
  /\ Goes("wave")
  /\ UNCHANGED <<phase, countVars, itemVars, rotationVars, queue, todo, batch, history>>

\* A row is settled when it is valid, invalid, or unavailable after its last
\* retry; the others are saved as retryable and asked for again.
FeeWave ==
  /\ pc = "wave"
  /\ \E again \in SUBSET asins :
       /\ \/ again = {} /\ UNCHANGED trouble
          \/ again # {} /\ Trouble("transient")
       /\ fee' = [a \in Asin |-> IF a \in again THEN "retryable"
                                 ELSE IF a \in asins THEN "settled" ELSE fee[a]]
       /\ asins' = again
       /\ pc' = IF again = {} THEN "fees" ELSE "wave"
  /\ UNCHANGED <<phase, countVars, seq, cat, listing, priced, evaluated, rotationVars,
                 reg, queue, todo, batch, history>>

\* FeeSystemicOutage, after a request (nothing is saved) or after a wave that
\* lost too many rows (they are saved as retryable).
FeeOutage ==
  /\ pc = "wave"
  /\ Trouble("outage")
  /\ \E lost \in SUBSET asins :
       fee' = [a \in Asin |-> IF a \in lost THEN "retryable"
                              ELSE IF a \in asins /\ lost # {} THEN "settled" ELSE fee[a]]
  /\ asins' = {}
  /\ pc' = "outage"
  /\ UNCHANGED <<phase, countVars, seq, cat, listing, priced, evaluated, rotationVars,
                 reg, queue, todo, batch, history>>

FeesPending ==
  /\ pc = "outage"
  /\ phase' = "fees_pending"
  /\ Leaves
  /\ UNCHANGED <<countVars, itemVars, rotationVars, history, trouble>>

FeesDone ==
  /\ pc = "fees" /\ PendingFees = {}
  /\ phase' = "fees_complete"
  /\ Enters("economics")
  /\ UNCHANGED <<countVars, itemVars, rotationVars, history>>

-----------------------------------------------------------------------------
(* Economics, and the hand-off to the finalizer.                            *)

EconomicsBatch ==
  /\ pc = "economics" /\ todo # {}
  /\ evaluated' = evaluated \cup FirstItems(todo)
  /\ todo' = todo \ FirstItems(todo)
  /\ Goes("economics")
  /\ UNCHANGED <<phase, countVars, seq, cat, listing, priced, fee, rotationVars,
                 queue, batch, asins, history>>

EconomicsDone ==
  /\ pc = "economics" /\ todo = {}
  /\ phase' = "completed"
  /\ Enters("handoff")
  /\ UNCHANGED <<countVars, itemVars, rotationVars, history>>

SaveComputed ==
  /\ pc = "handoff"
  /\ phase' = "export_pending"
  /\ Goes("publish")
  /\ UNCHANGED <<countVars, itemVars, rotationVars, memory, history>>

\* prepare_finalization and launch_finalizer.
PrepareFinalization ==
  /\ pc = "publish"
  /\ reg' = "export" /\ pc' = "off"
  /\ Forgets
  /\ UNCHANGED <<phase, countVars, itemVars, rotationVars, history, trouble>>

\* No loop belongs to the phase: the run returns its summary, whose status is
\* resumable, and the worker calls finish().
ReturnSummary ==
  /\ pc = "return"
  /\ Leaves
  /\ UNCHANGED <<phase, countVars, itemVars, rotationVars, history, trouble>>

\* Variant: the finalizer believes the counter.
FinalizerBelieves ==
  /\ reg = "export"
  /\ completed = selected
  /\ \E a \in Asin : fee[a] # "none"
  /\ phase' = "completed"
  /\ reg' = "completed"
  /\ UNCHANGED <<countVars, itemVars, rotationVars, pc, memory, history, trouble>>

\* finalization_state counts the rows, and refuses a job with fewer answers than
\* selected identities, or with no observation.
\* The steps of the finalizer itself are in DiscoveryJobs.
FinalizerCompletes ==
  /\ reg = "export"
  /\ Cardinality(Definitive) = selected
  /\ \E a \in Asin : fee[a] # "none"
  /\ phase' = "completed"
  /\ reg' = "completed"
  /\ UNCHANGED <<countVars, itemVars, rotationVars, pc, memory, history, trouble>>

FinalizerFails ==
  /\ reg = "export"
  /\ Trouble("finalizer")
  /\ phase' = "export_pending"
  /\ reg' = "resumable"
  /\ UNCHANGED <<countVars, itemVars, rotationVars, pc, memory, history>>

-----------------------------------------------------------------------------
(* What may go wrong at any step.                                           *)

\* A crash, which reconcile() discovers, or an exception, which fail() records.
Dies ==
  /\ pc # "off"
  /\ pc \in {"create", "prepare"} => "preparation" \in Troubles
  /\ Trouble("death")
  /\ Leaves
  /\ UNCHANGED <<phase, countVars, itemVars, rotationVars, history>>

\* Where the code calls before_next_batch().
PausePoint ==
  \/ pc = "freeze"
  \/ pc = "prepare" /\ "preparation" \in Troubles
  \/ pc = "catalog" /\ PendingItems # {}
  \/ pc = "filter" /\ todo # Stored
  \/ pc = "pricing" /\ PendingAsins # {}
  \/ pc = "fees" /\ PendingFees # {}
  \/ /\ pc \in {"observe", "economics"} /\ todo # Stored
     /\ Cardinality(Stored \ todo) % Batch = 0

Pause ==
  /\ PausePoint
  /\ Trouble("pause")
  /\ phase' = IF phase = "none" THEN "none" ELSE "resource_paused"
  /\ Leaves
  /\ UNCHANGED <<countVars, itemVars, rotationVars, history>>

-----------------------------------------------------------------------------
Preparation == FreezeSelection \/ CreateJob \/ PrepareBatch \/ CompletePreparation
Recovery == Begin \/ ReplayRotation \/ RequeueIncomplete
Catalog == FetchCatalog \/ CommitCatalog \/ CommitRotation \/ GiveUp \/ CatalogDone \/ Gate
Filter == FilterBatch \/ FilterDone
Pricing == ReconcileDuplicates \/ FetchPrices \/ CommitPrices \/ PricingDone
CompetitionPass == ObserveBatch \/ SettleBatch \/ CompetitionDone
Fees == FetchFees \/ FeeWave \/ FeeOutage \/ FeesPending \/ FeesDone
Economics == EconomicsBatch \/ EconomicsDone
HandOff == SaveComputed \/ PrepareFinalization \/ ReturnSummary

Worker == \/ Preparation \/ Recovery \/ Catalog \/ Filter \/ Pricing
          \/ CompetitionPass \/ Fees \/ Economics \/ HandOff

Next == \/ Resume \/ Worker \/ Dies \/ Pause
        \/ FinalizerCompletes \/ FinalizerFails

Spec == Init /\ [][Next]_vars

\* Somebody resumes a stopped job, and processes that live go on.
FairSpec == Spec /\ WF_vars(Resume) /\ WF_vars(Worker) /\ WF_vars(FinalizerCompletes)

-----------------------------------------------------------------------------
(* Properties.                                                              *)

Past(p) == Rank[phase] >= Rank[p]

\* A prepared job holds every selected identity exactly once, however often
\* its preparation was interrupted.
PreparedWhole ==
  prepared => /\ Stored = Item
              /\ \A i, j \in Item : seq[i] = seq[j] => i = j

\* A preparation resumed in the other order may lose identities and prepare others
\* twice, but no workbook is completed without an answer and the economics of every
\* selected identity.
WorkbookWhole == reg = "completed" => Definitive = Item /\ evaluated = Item

\* No job leaves Catalog with an item that is unanswered, and the counter that
\* decides it, kept by increments over preparations, commits, requeues and resumes,
\* is the number of definitive items, but for the identities prepared twice.
CatalogWhole ==
  /\ completed \in Cardinality(Definitive) ..
                    (Cardinality(Definitive) + selected - Cardinality(Stored))
  /\ Past("catalog_complete") => Definitive = Stored

\* No identity whose definitive answer was stored is asked for again.
AnsweredOnce == pc = "commit" => batch \cap answered = {}

\* No page is quoted by Amazon twice, nor one the job has a price for.
QuotedOnce == pc = "prices" => \A a \in asins : a \notin quoted /\ ~HasPrice(a)

\* A request names nothing that was answered before, whatever died between the
\* answer and the resume.
AskedOnce == AnsweredOnce /\ QuotedOnce

\* When a worker is past Catalog the rotation store knows every definitive
\* result, also those a dead worker committed to the job store only.
RotationCatchesUp == Past("bsr_filtered") => Definitive \subseteq analyzed

\* Every listing judged by its price has one: a page shared by several
\* identities is quoted for all of them.
EveryPassedPriced ==
  Past("pricing_complete") =>
    \A i \in Item, a \in Asin :
      listing[i][a] \in {"bsr_passed", "competition_passed", "competition_filtered"}
        => <<i, a>> \in priced

\* Economics is written only when the fee of every page that passed is settled,
\* whatever outages, retries and resumes came before.
FeesSettled ==
  Past("fees_complete") =>
    \A i \in Item, a \in Asin :
      listing[i][a] = "competition_passed" => fee[a] = "settled"

\* No job is handed to the finalizer with an identity whose economics a pause or
\* a death left unwritten.
EveryoneEvaluated == Past("completed") => evaluated = Stored

\* What a phase says of the listings is true, whatever outages, pauses and
\* deaths came before: the later passes only visit what the earlier ones left.
PhasesWhole == EveryPassedPriced /\ FeesSettled /\ EveryoneEvaluated

\* A settled fee stays settled: no resume, rebuilt observation or retry of its
\* batch asks for it again.
SettledFeeKept ==
  [][\A a \in Asin : fee[a] = "settled" => fee'[a] = "settled"]_vars

\* When things stop going wrong the job is computed.
RunComputed == <>(phase \in {"completed", "export_pending"})

\* When things stop going wrong the job is computed, unless a pause has replaced
\* the phase that tells a resume where to go on.
RunComputedUnlessPaused == RunComputed \/ <>[](phase = "resource_paused")

\* "Restart-safe finalization": a computed job gets its workbook.
ComputedFinalized == phase = "export_pending" ~> reg = "completed"
=============================================================================
