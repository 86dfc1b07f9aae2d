--------------------------- MODULE WeeklyCatalog ---------------------------
(***************************************************************************)
(* The weekly incremental refresh of ONE supplier catalog: the handler of   *)
(* supplier_weekly.py, the adapters that seed and publish, the reference    *)
(* store of supplier_incremental.py and the active generation that          *)
(* supplier_catalog.py serves.  The command line synchronisation            *)
(* (sync_supplier_catalog.py) publishes to the same store without the       *)
(* weekly locks, at whatever stage the handler is, and is the second actor. *)
(*                                                                          *)
(* Data is reduced to what the decisions read: the index signal of a        *)
(* product is a version number (0: not listed), an offer remembers the      *)
(* version it priced and the week it was observed.                          *)
(***************************************************************************)
EXTENDS Naturals, FiniteSets

CONSTANTS
    Product,        \* products the supplier may list
    Unidentified,   \* those without a usable bar code in the index (umma, abw)
    Kinds,          \* the adapters considered: subset of {"abw", "umma", "qudo"}
    ReconWeeks,     \* reconciliation_days, in weeks
    ReconBudget,    \* reconciliation_budget
    MaxRetries,     \* max_retries
    MaxVersion, MaxWeek, MaxGeneration   \* bounds of the instance: the last generation
                    \* that a run may begin from, and the last of a synchronisation

ASSUME WeeklyAssumption ==
    /\ IsFiniteSet(Product) /\ Unidentified \subseteq Product
    /\ Kinds \subseteq {"abw", "umma", "qudo"}
    /\ ReconWeeks \in Nat \ {0} /\ ReconBudget \in Nat /\ MaxRetries \in Nat
    /\ MaxVersion \in Nat /\ MaxWeek \in Nat /\ MaxGeneration \in Nat

VARIABLES
    kind,       \* which adapter this behaviour runs
    index,      \* the supplier's index: version listed, 0 when not listed
    week,       \* the wall clock, in weeks
    active,     \* the active generation: id, and what it serves of each product
    reference,  \* the reference generation of the incremental store and its owner
    stage,      \* where the handler is
    baseline,   \* the active generation as the handler read it (previous_run_id)
    unseen,     \* history: synchronisations since that generation was compared
    current,    \* the generation being composed
    queue,      \* supplier_sync_work_items of the run
    attempts,   \* their attempts
    spent       \* the request budget of the run is exhausted

vars == <<kind, index, week, active, reference, stage, baseline, unseen, current,
          queue, attempts, spent>>

NoOffers == [seen |-> 0, at |-> 0]
Offers   == {NoOffers} \cup [seen : 1..MaxVersion, at : 0..MaxWeek]
Empty    == [p \in {} |-> NoOffers]
Nothing  == [run |-> 0, rows |-> Empty]

ProductStates == {"new", "changed", "unchanged", "removed",
                  "identifier_unresolved", "carry_forward", "quarantined"}
WorkStates == {"none", "pending", "claimed", "complete", "permanent_failure",
               "carry_forward", "quarantined"}
Stages == {"idle", "queue", "publish", "commit"}

ServedRow    == [gtin : BOOLEAN, offers : Offers, resolution : {"none", "carry_forward"}]
ReferenceRow == [fp : 0..MaxVersion, gtin : BOOLEAN, offers : Offers]
CurrentRow   == [state : ProductStates, fp : 0..MaxVersion, gtin : BOOLEAN, offers : Offers]
IsPartialMap(f, R) == DOMAIN f \subseteq Product /\ \A p \in DOMAIN f : f[p] \in R

Init ==
    /\ kind \in Kinds
    /\ index \in [Product -> 0..MaxVersion]
    /\ week = 0
    /\ active = Nothing
    /\ reference = [of |-> 0, rows |-> Empty]
    /\ stage = "idle"
    /\ baseline = Nothing /\ unseen = 0
    /\ current = Empty
    /\ queue = [p \in Product |-> "none"]
    /\ attempts = [p \in Product |-> 0]
    /\ spent = FALSE

Listed == {p \in Product : index[p] > 0}
Queued == {p \in Product : queue[p] # "none"}
Items(s) == {p \in Product : queue[p] = s}

(* A Qudo index carries no identifier: it is the one the active generation  *)
(* proved.  The other indexes carry the bar code themselves.                *)
Identified(p) ==
    IF kind = "qudo"
    THEN p \in DOMAIN active.rows /\ active.rows[p].gtin
    ELSE p \notin Unidentified

(***************************************************************************)
(* Composition.                                                             *)
(***************************************************************************)

(* _baseline_seed: the active products, with the payload of the CURRENT     *)
(* index where they are still listed; a stored row has no index field, so   *)
(* an unlisted one fingerprints like nothing the index can show (0).        *)
Seed ==
    [p \in DOMAIN active.rows |->
        [fp     |-> index[p],
         gtin   |-> active.rows[p].gtin,
         offers |-> active.rows[p].offers]]

(* has_generation(previous_reference): abw compares with the generation it  *)
(* published, umma and qudo with "<active>:<identity version>".             *)
HasReference == reference.of = active.run

(* Variant: any reference generation will do, whatever it was seeded from.   *)
ReferenceUnversioned == IF reference.rows # Empty THEN reference.rows ELSE Seed

Reference == IF HasReference THEN reference.rows ELSE Seed

StateOf(p, ref) ==
    CASE ~Identified(p)                -> "identifier_unresolved"
      [] Identified(p) /\ p \notin DOMAIN ref -> "new"
      [] OTHER -> IF ref[p].fp = index[p] THEN "unchanged" ELSE "changed"

(* compose_generation: one row per listed product, offers carried only by   *)
(* an unchanged one, and a "removed" row for every other reference product. *)
Compose(ref) ==
    [p \in Listed \cup DOMAIN ref |->
        IF p \in Listed
        THEN [state  |-> StateOf(p, ref),
              fp     |-> index[p],
              gtin   |-> Identified(p),
              offers |-> IF StateOf(p, ref) = "unchanged" THEN ref[p].offers ELSE NoOffers]
        ELSE [state |-> "removed", fp |-> ref[p].fp, gtin |-> ref[p].gtin,
              offers |-> NoOffers]]

(* Variant: an offer is due only after the reconciliation age.               *)
DueLater(row, w) ==
    row.state = "unchanged" /\ row.offers # NoOffers /\ row.offers.at + ReconWeeks < w

Due(row, w) ==
    /\ row.state = "unchanged"
    /\ row.offers # NoOffers
    /\ row.offers.at + ReconWeeks <= w

(* weekly_recheck_required: set on a Qudo product whose stored row still    *)
(* says it was carried forward.                                             *)
Recheck(p) ==
    /\ kind = "qudo"
    /\ p \in DOMAIN active.rows
    /\ active.rows[p].resolution = "carry_forward"

(* enrichment_queue and the selection of the handler: all new, changed,     *)
(* unresolved and recheck products, the due ones up to the budget.          *)
Urgent(rows) ==
    {p \in DOMAIN rows :
        /\ rows[p].state # "removed"
        /\ rows[p].state \in {"new", "changed", "identifier_unresolved"} \/ Recheck(p)}

Reconcilable(rows, w) == {p \in DOMAIN rows \ Urgent(rows) : Due(rows[p], w)}

Selections(rows, w) ==
    LET due == Reconcilable(rows, w)
    IN  {Urgent(rows) \cup chosen :
            chosen \in {d \in SUBSET due :
                \/ d = due /\ Cardinality(due) <= ReconBudget
                \/ Cardinality(d) = ReconBudget}}

(***************************************************************************)
(* The handler.                                                             *)
(***************************************************************************)

(* Enumerate, seed the reference if it is missing, compose and enqueue.     *)
Begin ==
    /\ stage = "idle"
    /\ active.run <= MaxGeneration
    /\ week' \in {week, week + 1} /\ week' <= MaxWeek
    /\ reference' = [of |-> active.run, rows |-> Reference]
    /\ current' = Compose(Reference)
    /\ \E selected \in Selections(Compose(Reference), week') :
            queue' = [p \in Product |-> IF p \in selected THEN "pending" ELSE "none"]
    /\ attempts' = [p \in Product |-> 0]
    /\ baseline' = active /\ unseen' = 0
    /\ spent' = FALSE
    /\ stage' = "queue"
    /\ UNCHANGED <<kind, index, active>>

(* Variant: a claim does not count as an attempt.                            *)
ClaimUncounted ==
    /\ stage = "queue" /\ Items("claimed") = {} /\ Items("pending") # {} /\ ~spent
    /\ queue' = [p \in Product |-> IF queue[p] = "pending" THEN "claimed" ELSE queue[p]]
    /\ UNCHANGED <<kind, index, week, active, reference, stage, baseline, unseen, current,
                   attempts, spent>>

(* claim: every pending item of the run (a batch holds them all).           *)
Claim ==
    /\ stage = "queue" /\ Items("claimed") = {} /\ Items("pending") # {} /\ ~spent
    /\ queue' = [p \in Product |-> IF queue[p] = "pending" THEN "claimed" ELSE queue[p]]
    /\ attempts' = [p \in Product |-> IF queue[p] = "pending" THEN attempts[p] + 1
                                                              ELSE attempts[p]]
    /\ UNCHANGED <<kind, index, week, active, reference, stage, baseline, unseen, current, spent>>

Settle(p, status, row) ==
    /\ stage = "queue" /\ ~spent
    /\ queue' = [queue EXCEPT ![p] = status]
    /\ current' = [current EXCEPT ![p] = row]
    /\ UNCHANGED <<kind, index, week, active, reference, stage, baseline, unseen, attempts, spent>>

(* A product is priced: abw from the export it enumerated, the others from  *)
(* a page read now.  Both writes commit before complete_item; a crash        *)
(* between them only leaves the run unfinished.                             *)
Priced(p) == IF kind = "abw" THEN current[p].fp ELSE index[p]

(* persist_product_update and persist_enrichment: the offers of the product  *)
(* are replaced as a whole, and a Qudo page has proved its identifier.       *)
Enriched(p, offers) ==
    [current[p] EXCEPT !.offers = offers,
                       !.gtin = IF kind = "qudo" THEN TRUE ELSE @]

Enrich(p) ==
    /\ queue[p] = "claimed" /\ Priced(p) > 0
    /\ Settle(p, "complete", Enriched(p, [seen |-> Priced(p), at |-> week]))

(* The supplier answers that it has no offer: the empty list is persisted.  *)
EnrichNothing(p) ==
    /\ queue[p] = "claimed"
    /\ Settle(p, "complete", Enriched(p, NoOffers))

(* fail_item: a retryable error goes back to the queue while attempts last, *)
(* any other unclassified error is permanent.                               *)
Retryable(p) == attempts[p] <= MaxRetries
RetryItem(p) == queue[p] = "claimed" /\ Retryable(p) /\ Settle(p, "pending", current[p])
FailItem(p)  == queue[p] = "claimed" /\ Settle(p, "permanent_failure", current[p])

(* resolve_product_failure: a classified Qudo failure.  The reference row   *)
(* is carried forward, a source conflict or an unknown product is           *)
(* quarantined.                                                             *)
Resolve(p, conflict) ==
    /\ kind = "qudo" /\ queue[p] = "claimed"
    /\ IF ~conflict /\ p \in DOMAIN reference.rows
       THEN Settle(p, "carry_forward",
                   [state |-> "carry_forward", fp |-> reference.rows[p].fp,
                    gtin |-> reference.rows[p].gtin, offers |-> reference.rows[p].offers])
       ELSE Settle(p, "quarantined",
                   [current[p] EXCEPT !.state = "quarantined", !.offers = NoOffers])

(* max_requests_per_run is reached: this item and the rest of the batch go  *)
(* back to the queue and the loop stops.                                    *)
BudgetSpent(p) ==
    /\ stage = "queue" /\ queue[p] = "claimed"
    /\ queue' = [queue EXCEPT ![p] = "pending"]
    /\ spent' = TRUE
    /\ UNCHANGED <<kind, index, week, active, reference, stage, baseline, unseen, current,
                   attempts>>

(* The rows of an ended run stay under a run_id that no later run reads:    *)
(* they are forgotten here.                                                 *)
Forget ==
    /\ stage' = "idle"
    /\ baseline' = Nothing /\ unseen' = 0
    /\ current' = Empty
    /\ attempts' = [p \in Product |-> 0]
    /\ spent' = FALSE

NoQueue == [p \in Product |-> "none"]

(* The loop ends when nothing is pending, or on the budget, or when an      *)
(* error threshold trips after a batch (any batch may trip one).  An        *)
(* incomplete queue preserves the baseline.                                 *)
QueueIncomplete ==
    /\ stage = "queue" /\ Items("claimed") = {}
    /\ Items("pending") \cup Items("permanent_failure") # {}
    /\ Forget
    /\ queue' = NoQueue
    /\ UNCHANGED <<kind, index, week, active, reference>>

QueueComplete ==
    /\ stage = "queue"
    /\ Items("claimed") \cup Items("pending") \cup Items("permanent_failure") = {}
    /\ stage' = "publish"
    /\ UNCHANGED <<kind, index, week, active, reference, baseline, unseen, current, queue,
                   attempts, spent>>

(* _catalog_generation: the active generation must be the one compared with. *)
AnyBaseline == TRUE   \* variant: the active generation is not looked at again
SameBaseline == active.run = baseline.run
CheckBaseline ==
    /\ stage = "publish"
    /\ \/ SameBaseline /\ stage' = "commit"
          /\ UNCHANGED <<baseline, unseen, current, queue, attempts, spent>>
       \/ ~SameBaseline /\ Forget /\ queue' = NoQueue
    /\ UNCHANGED <<kind, index, week, active, reference>>

(* generation_records *)
Publishable == {p \in DOMAIN current : current[p].state \notin {"removed", "quarantined"}}

(* SupplierCatalogStore.publish has no column for weekly_resolution.        *)
Stored(row) == [gtin |-> row.gtin, offers |-> row.offers, resolution |-> "none"]

GatePasses ==
    /\ Publishable # {}
    /\ \E p \in Publishable : current[p].offers # NoOffers

Promote ==
    /\ stage = "commit" /\ GatePasses
    /\ active' = [run |-> active.run + 1, rows |-> [p \in Publishable |-> Stored(current[p])]]
    /\ reference' = IF kind = "abw"
                    THEN [of |-> active.run + 1,
                          rows |-> [p \in DOMAIN current |->
                              [fp |-> current[p].fp, gtin |-> current[p].gtin,
                               offers |-> current[p].offers]]]
                    ELSE reference
    /\ Forget
    /\ UNCHANGED <<kind, index, week, queue>>

(* supplier_promotion_gate refuses: empty, without offers, or (qudo) with   *)
(* anomalous coverage ratios.  The generation is stored, not activated.     *)
GateRefuses ==
    /\ stage = "commit" /\ (~GatePasses \/ kind = "qudo")
    /\ Forget
    /\ queue' = NoQueue
    /\ UNCHANGED <<kind, index, week, active, reference>>

(* The process dies, or an exception of the enumeration or of SQLite is     *)
(* recorded as a failed supplier: the next run has a new run_id, so this    *)
(* queue and this generation are never read again.                          *)
Abandon ==
    /\ stage # "idle"
    /\ Forget
    /\ queue' = NoQueue
    /\ UNCHANGED <<kind, index, week, active, reference>>

(***************************************************************************)
(* The other actors.                                                        *)
(***************************************************************************)

(* A full collection: every listed option is a product, offered or not.     *)
CliRows(offered) ==
    [p \in Listed |->
        [gtin |-> TRUE, resolution |-> "none",
         offers |-> IF p \in offered THEN [seen |-> index[p], at |-> week] ELSE NoOffers]]

(* run_supplier_sync from the command line holds only the per-supplier      *)
(* file lock, which the weekly run does not take.                           *)
CliSync ==
    /\ active.run < MaxGeneration
    /\ \E offered \in SUBSET Listed \ {{}} :
         active' = [run |-> active.run + 1, rows |-> CliRows(offered)]
    /\ unseen' = unseen + (IF stage = "commit" THEN 1 ELSE 0)
    /\ UNCHANGED <<kind, index, week, reference, stage, baseline, current, queue,
                   attempts, spent>>

(* The supplier changes its index.                                          *)
Upstream(p) ==
    /\ \E v \in 0..MaxVersion : v # index[p] /\ index' = [index EXCEPT ![p] = v]
    /\ UNCHANGED <<kind, week, active, reference, stage, baseline, unseen, current, queue,
                   attempts, spent>>

Handle(p) ==
    \/ Enrich(p) \/ EnrichNothing(p)
    \/ RetryItem(p) \/ FailItem(p)
    \/ \E conflict \in BOOLEAN : Resolve(p, conflict)
    \/ BudgetSpent(p)

Handler == \/ Claim \/ \E p \in Product : Handle(p)
           \/ QueueIncomplete \/ QueueComplete
           \/ CheckBaseline \/ Promote \/ GateRefuses

Next == \/ Begin \/ Handler \/ Abandon
        \/ CliSync \/ \E p \in Product : Upstream(p)

Spec == Init /\ [][Next]_vars

(* The handler is an ordinary loop of one process: it keeps running.        *)
FairSpec == Spec /\ WF_vars(Handler)

(***************************************************************************)
(* Properties.                                                              *)
(***************************************************************************)

TypeOK ==
    /\ kind \in Kinds
    /\ index \in [Product -> 0..MaxVersion]
    /\ week \in 0..MaxWeek
    /\ active.run \in 0..(MaxGeneration + 1) /\ IsPartialMap(active.rows, ServedRow)
    /\ reference.of \in 0..(MaxGeneration + 1) /\ IsPartialMap(reference.rows, ReferenceRow)
    /\ stage \in Stages
    /\ baseline.run \in 0..MaxGeneration /\ IsPartialMap(baseline.rows, ServedRow)
    /\ unseen \in 0..MaxGeneration
    /\ IsPartialMap(current, CurrentRow)
    /\ queue \in [Product -> WorkStates]
    /\ attempts \in [Product -> 0..(MaxRetries + 1)]
    /\ spent \in BOOLEAN

(* While a run works, the reference it compares with carries exactly the    *)
(* offers of the generation it read as its baseline, whichever run or       *)
(* failed run seeded it: nothing older is carried into the next generation. *)
ReferenceFollowsActive ==
    HasReference =>
        \A p \in DOMAIN active.rows :
            /\ p \in DOMAIN reference.rows
            /\ reference.rows[p].offers = active.rows[p].offers

Promotes == stage = "commit" /\ stage' = "idle" /\ active'.run # active.run

(* A weekly promotion undoes no synchronisation but those that landed after *)
(* _catalog_generation compared the baseline: one of before the comparison,  *)
(* however late in the run, refuses the promotion.                           *)
PromotedOverBaseline == [][Promotes => active.run = baseline.run + unseen]_vars

(* A weekly promotion undoes no synchronisation at all: not so, for the      *)
(* store's transaction does not look at the baseline again.                  *)
SyncsKept == [][Promotes => active.run = baseline.run]_vars

(* An offer older than the reconciliation age is promoted only because its  *)
(* refresh failed in this run, or because the budget was used up by others. *)
StaleIsAccounted(p) ==
    LET offer == active'.rows[p].offers IN
    offer # NoOffers /\ offer.at + ReconWeeks <= week =>
        \/ queue[p] = "carry_forward"
        \/ queue[p] = "none" /\ Cardinality(Queued) >= ReconBudget

(* A product that had offers in the generation the run was composed from,   *)
(* and is still enumerated, loses them only to the supplier's own answer or *)
(* to a quarantine, never by being left out of the queue.                   *)
LossIsAccounted(p) ==
    /\ baseline.rows[p].offers # NoOffers
    /\ p \in DOMAIN current /\ current[p].state # "removed"
    /\ p \notin DOMAIN active'.rows \/ active'.rows[p].offers = NoOffers
    => queue[p] \in {"complete", "quarantined"}

(* Every stale offer that a promotion serves, and every offer it drops, is  *)
(* explained by what this run found out (persist_current_index, publish).   *)
PromotionAccounts ==
    [][Promotes => /\ \A p \in DOMAIN active'.rows : StaleIsAccounted(p)
                   /\ \A p \in DOMAIN baseline.rows : LossIsAccounted(p)]_vars

(* Every started run ends: an item that keeps failing is retried a bounded  *)
(* number of times, so the claim loop cannot go on for ever.                *)
RunEnds == (stage # "idle") ~> (stage = "idle")

(* A product the last promotion carried forward, and that is still listed,  *)
(* is queued again by the next run (testsuite_qudo_weekly_policy.py:79).    *)
CarriedIsRechecked ==
    [][stage = "idle" /\ stage' = "queue" =>
          \A p \in Listed \cap DOMAIN active.rows :
              queue[p] = "carry_forward" => queue'[p] # "none"]_vars
=============================================================================
