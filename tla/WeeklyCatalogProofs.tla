------------------------ MODULE WeeklyCatalogProofs ------------------------
(***************************************************************************)
(* Proofs about WeeklyCatalog, for any finite set of products and any       *)
(* reconciliation age, budget and number of retries.                        *)
(*                                                                          *)
(* The two action properties speak of the promotion only, the last step of  *)
(* a run; what they need is carried by an invariant from the moment a run   *)
(* composes its rows, through every answer, to the commit.                  *)
(***************************************************************************)
EXTENDS WeeklyCatalog, FiniteSetTheorems, TLAPS

\* A queue with one of these is not complete.
Unsettled == {"pending", "claimed", "permanent_failure"}

\* A run compares with the generation it began from, and the numbers of the
\* generations only grow.
Behind ==
    /\ reference.of <= active.run /\ baseline.run <= active.run
    /\ stage # "idle" => active.run <= MaxGeneration

\* What may be claimed again has an attempt left.
Attempted ==
    stage = "queue" /\ ~spent =>
        \A p \in Product : queue[p] = "pending" => attempts[p] <= MaxRetries

\* Past the queue nothing is open, and at the commit only what was published since
\* the comparison separates the active generation from the baseline.
Ended ==
    /\ stage \in {"publish", "commit"} => \A p \in Product : queue[p] \notin Unsettled
    /\ stage = "commit" => active.run = baseline.run + unseen
    /\ stage # "commit" => unseen = 0

\* The reference of a run carries the offers of the generation it began from.
Composed ==
    stage # "idle" => \A p \in DOMAIN baseline.rows :
        p \in DOMAIN reference.rows /\ reference.rows[p].offers = baseline.rows[p].offers

\* What is queued is in the generation that is composed.
Enqueued == stage # "idle" => \A p \in Product : queue[p] # "none" => p \in DOMAIN current

\* Why a composed row still has an offer that is due, or has lost the one it was
\* served with: the two parts of PromotionAccounts, as far as the run has come.
StaleExplained ==
    stage # "idle" => \A p \in DOMAIN current :
        LET offer == current[p].offers IN
        offer # NoOffers /\ offer.at + ReconWeeks <= week =>
            \/ queue[p] \in Unsettled \cup {"carry_forward"}
            \/ queue[p] = "none" /\ Cardinality(Queued) >= ReconBudget

LossExplained ==
    stage # "idle" =>
        \A p \in DOMAIN current \cap DOMAIN baseline.rows :
            /\ baseline.rows[p].offers # NoOffers
            /\ current[p].state # "removed"
            /\ current[p].state = "quarantined" \/ current[p].offers = NoOffers
            => queue[p] \in Unsettled \cup {"complete", "quarantined"}

\* What holds whenever a synchronisation lands.
WInv ==
    /\ TypeOK /\ ReferenceFollowsActive /\ Behind /\ Attempted /\ Ended
    /\ Enqueued /\ Composed /\ StaleExplained /\ LossExplained

-----------------------------------------------------------------------------

LEMMA Numbers ==
    /\ ReconWeeks \in Nat /\ ReconWeeks > 0 /\ ReconBudget \in Nat /\ MaxRetries \in Nat
    /\ MaxVersion \in Nat /\ MaxWeek \in Nat /\ MaxGeneration \in Nat
    /\ IsFiniteSet(Product)
BY WeeklyAssumption

LEMMA NoOffersTyped ==
    /\ NoOffers \in Offers
    /\ \A o \in Offers : o # NoOffers => o \in [seen : 1..MaxVersion, at : 0..MaxWeek]
BY DEF Offers

\* An offer of a row is none, or a number of a week with a version.
LEMMA RowsTyped ==
    ASSUME TypeOK
    PROVE  /\ DOMAIN current \subseteq Product /\ DOMAIN active.rows \subseteq Product
           /\ DOMAIN reference.rows \subseteq Product
           /\ \A p \in DOMAIN current : current[p] \in CurrentRow
           /\ \A p \in DOMAIN active.rows : active.rows[p] \in ServedRow
           /\ \A p \in DOMAIN reference.rows : reference.rows[p] \in ReferenceRow
BY DEF TypeOK, IsPartialMap

(* What the run compares with: the reference it has, or the active rows.       *)

LEMMA ReferenceCarries ==
    ASSUME ReferenceFollowsActive
    PROVE  \A p \in DOMAIN active.rows :
               p \in DOMAIN Reference /\ Reference[p].offers = active.rows[p].offers
<1>1. CASE HasReference
  BY <1>1 DEF Reference, ReferenceFollowsActive
<1>2. CASE ~HasReference
  BY <1>2 DEF Reference, Seed
<1> QED
  BY <1>1, <1>2

LEMMA ReferenceTyped ==
    ASSUME TypeOK
    PROVE  IsPartialMap(Reference, ReferenceRow)
<1>1. CASE HasReference
  BY <1>1 DEF Reference, TypeOK
<1>2. CASE ~HasReference
  <2>1. Reference = Seed /\ DOMAIN Seed = DOMAIN active.rows
    BY <1>2 DEF Reference, Seed
  <2>2. ASSUME NEW p \in DOMAIN active.rows PROVE Seed[p] \in ReferenceRow
    <3>1. p \in Product /\ active.rows[p] \in ServedRow /\ index[p] \in 0..MaxVersion
      BY RowsTyped DEF TypeOK
    <3> QED
      BY <3>1 DEF Seed, ServedRow, ReferenceRow
  <2> QED
    BY <2>1, <2>2, RowsTyped DEF IsPartialMap
<1> QED
  BY <1>1, <1>2

\* A composed row: removed, or with offers only if it is unchanged.
LEMMA ComposeRows ==
    ASSUME NEW ref
    PROVE  /\ DOMAIN Compose(ref) = Listed \cup DOMAIN ref
           /\ \A p \in Listed :
                 /\ Compose(ref)[p].state = StateOf(p, ref)
                 /\ Compose(ref)[p].fp = index[p]
                 /\ Compose(ref)[p].gtin = Identified(p)
                 /\ Compose(ref)[p].offers =
                        IF StateOf(p, ref) = "unchanged" THEN ref[p].offers ELSE NoOffers
           /\ \A p \in DOMAIN ref \ Listed :
                 /\ Compose(ref)[p].state = "removed"
                 /\ Compose(ref)[p].offers = NoOffers
BY DEF Compose

LEMMA StatesOf ==
    ASSUME NEW p, NEW ref
    PROVE  /\ StateOf(p, ref) \in {"new", "changed", "unchanged", "identifier_unresolved"}
           /\ StateOf(p, ref) = "unchanged" => p \in DOMAIN ref
           /\ StateOf(p, ref) = "new" => p \notin DOMAIN ref
BY DEF StateOf

LEMMA ComposeTyped ==
    ASSUME TypeOK, NEW ref, IsPartialMap(ref, ReferenceRow)
    PROVE  IsPartialMap(Compose(ref), CurrentRow)
<1>1. DOMAIN Compose(ref) \subseteq Product
  BY ComposeRows DEF Listed, IsPartialMap
<1>2. ASSUME NEW p \in Listed PROVE Compose(ref)[p] \in CurrentRow
  <2>1. p \in Product /\ index[p] \in 0..MaxVersion
    BY DEF Listed, TypeOK
  <2>2. Identified(p) \in BOOLEAN
    <3>1. CASE kind = "qudo"
      <4>1. p \in DOMAIN active.rows => active.rows[p].gtin \in BOOLEAN
        BY RowsTyped DEF ServedRow
      <4> QED
        BY <3>1, <4>1 DEF Identified
    <3>2. CASE kind # "qudo"
      BY <3>2 DEF Identified
    <3> QED
      BY <3>1, <3>2
  <2>3. StateOf(p, ref) \in ProductStates
    BY StatesOf DEF ProductStates
  <2>4. (IF StateOf(p, ref) = "unchanged" THEN ref[p].offers ELSE NoOffers) \in Offers
    BY StatesOf, NoOffersTyped DEF IsPartialMap, ReferenceRow
  <2> QED
    BY <2>1, <2>2, <2>3, <2>4 DEF Compose, CurrentRow
<1>3. ASSUME NEW p \in DOMAIN ref \ Listed PROVE Compose(ref)[p] \in CurrentRow
  <2>1. ref[p] \in ReferenceRow
    BY DEF IsPartialMap
  <2> QED
    BY <2>1, NoOffersTyped DEF Compose, CurrentRow, ReferenceRow, ProductStates
<1> QED
  BY <1>1, <1>2, <1>3, ComposeRows DEF IsPartialMap

\* A composed row that is not queued has no offer that is due, unless the budget
\* of the reconciliation is used up.
LEMMA SelectionsAccount ==
    ASSUME TypeOK, NEW w \in 0..MaxWeek, NEW rows, IsPartialMap(rows, CurrentRow),
           NEW selected \in Selections(rows, w)
    PROVE  /\ selected \subseteq DOMAIN rows
           /\ Urgent(rows) \subseteq selected
           /\ \A p \in DOMAIN rows : Due(rows[p], w) /\ p \notin selected =>
                  Cardinality(selected) >= ReconBudget
<1>1. PICK chosen \in SUBSET Reconcilable(rows, w) :
          /\ selected = Urgent(rows) \cup chosen
          /\ \/ chosen = Reconcilable(rows, w)
             \/ Cardinality(chosen) = ReconBudget
  BY DEF Selections
<1>2. Urgent(rows) \subseteq DOMAIN rows /\ Reconcilable(rows, w) \subseteq DOMAIN rows
  BY DEF Urgent, Reconcilable
<1>3. ASSUME NEW p \in DOMAIN rows, Due(rows[p], w), p \notin selected
      PROVE  Cardinality(selected) >= ReconBudget
  <2>1. p \in Reconcilable(rows, w)
    BY <1>1, <1>3 DEF Reconcilable
  <2>2. Cardinality(chosen) = ReconBudget
    BY <1>1, <1>3, <2>1
  <2>3. IsFiniteSet(selected) /\ chosen \subseteq selected
    BY <1>1, <1>2, Numbers, FS_Subset DEF IsPartialMap
  <2>4. Cardinality(chosen) \in Nat /\ Cardinality(selected) \in Nat
        /\ Cardinality(chosen) <= Cardinality(selected)
    BY <2>3, FS_Subset, FS_CardinalityType
  <2> QED
    BY <2>2, <2>4
<1> QED
  BY <1>1, <1>2, <1>3

(* The answers to one claimed item.                                            *)

\* What may be written of a claimed product.
Written(p, status, row) ==
    /\ status \in WorkStates \ {"none"} /\ row \in CurrentRow
    /\ \/ /\ status \in {"pending", "permanent_failure"} /\ row = current[p]
          /\ status = "pending" => attempts[p] <= MaxRetries
       \/ status = "complete" /\ (row.offers = NoOffers \/ row.offers.at = week)
       \/ /\ status = "carry_forward" /\ row.state = "carry_forward"
          /\ p \in DOMAIN reference.rows /\ row.offers = reference.rows[p].offers
       \/ status = "quarantined" /\ row.offers = NoOffers

LEMMA EnrichedTyped ==
    ASSUME NEW p \in Product, current[p] \in CurrentRow, NEW offers \in Offers
    PROVE  Enriched(p, offers) \in CurrentRow /\ Enriched(p, offers).offers = offers
BY DEF Enriched, CurrentRow

LEMMA HandleWrites ==
    ASSUME TypeOK, Enqueued, stage # "idle", NEW p \in Product, Handle(p), ~BudgetSpent(p)
    PROVE  /\ queue[p] = "claimed" /\ p \in DOMAIN current
           /\ \E status, row : Written(p, status, row) /\ Settle(p, status, row)
<1>1. queue[p] = "claimed"
  BY DEF Handle, Enrich, EnrichNothing, RetryItem, FailItem, Resolve
<1>2. p \in DOMAIN current /\ current[p] \in CurrentRow
  BY <1>1, RowsTyped DEF Enqueued
<1>3. CASE Enrich(p)
  <2> DEFINE o == [seen |-> Priced(p), at |-> week]
  <2>1. Priced(p) \in 1..MaxVersion /\ week \in 0..MaxWeek
    BY <1>2, <1>3, Numbers DEF Enrich, Priced, TypeOK, CurrentRow
  <2>2. o \in Offers /\ o.at = week
    BY <2>1 DEF Offers
  <2> HIDE DEF o
  <2>3. Written(p, "complete", Enriched(p, o))
    BY <1>2, <2>2, EnrichedTyped DEF Written, WorkStates
  <2>4. Settle(p, "complete", Enriched(p, o))
    BY <1>3 DEF Enrich, o
  <2> QED
    BY <1>1, <1>2, <2>3, <2>4
<1>4. CASE EnrichNothing(p)
  <2>1. Written(p, "complete", Enriched(p, NoOffers))
    BY <1>2, NoOffersTyped, EnrichedTyped DEF Written, WorkStates
  <2> QED
    BY <1>1, <1>2, <1>4, <2>1 DEF EnrichNothing
<1>5. CASE RetryItem(p)
  <2>1. Written(p, "pending", current[p])
    BY <1>2, <1>5 DEF Written, WorkStates, RetryItem, Retryable
  <2> QED
    BY <1>1, <1>2, <1>5, <2>1 DEF RetryItem
<1>6. CASE FailItem(p)
  <2>1. Written(p, "permanent_failure", current[p])
    BY <1>2 DEF Written, WorkStates
  <2> QED
    BY <1>1, <1>2, <1>6, <2>1 DEF FailItem
<1>7. ASSUME NEW conflict \in BOOLEAN, Resolve(p, conflict)
      PROVE  \E status, row : Written(p, status, row) /\ Settle(p, status, row)
  <2>1. CASE ~conflict /\ p \in DOMAIN reference.rows
    <3> DEFINE r == [state |-> "carry_forward", fp |-> reference.rows[p].fp,
                     gtin |-> reference.rows[p].gtin, offers |-> reference.rows[p].offers]
    <3>1. reference.rows[p] \in ReferenceRow
      BY <2>1, RowsTyped
    <3>2. /\ r \in CurrentRow /\ r.state = "carry_forward"
          /\ r.offers = reference.rows[p].offers
      BY <3>1 DEF CurrentRow, ReferenceRow, ProductStates
    <3>3. Settle(p, "carry_forward", r)
      BY <1>7, <2>1 DEF Resolve
    <3> HIDE DEF r
    <3>4. Written(p, "carry_forward", r)
      BY <2>1, <3>2 DEF Written, WorkStates
    <3> QED
      BY <3>3, <3>4
  <2>2. CASE ~(~conflict /\ p \in DOMAIN reference.rows)
    <3> DEFINE r == [current[p] EXCEPT !.state = "quarantined", !.offers = NoOffers]
    <3>1. r \in CurrentRow /\ r.offers = NoOffers
      BY <1>2, NoOffersTyped DEF CurrentRow, ProductStates
    <3>2. Settle(p, "quarantined", r)
      BY <1>7, <2>2 DEF Resolve
    <3> HIDE DEF r
    <3>3. Written(p, "quarantined", r)
      BY <3>1 DEF Written, WorkStates
    <3> QED
      BY <3>2, <3>3
  <2> QED
    BY <2>1, <2>2
<1> QED
  BY <1>1, <1>2, <1>3, <1>4, <1>5, <1>6, <1>7 DEF Handle

\* Only that product changes, and what is queued stays queued.
LEMMA SettleChanges ==
    ASSUME TypeOK, NEW p \in Product, queue[p] = "claimed", p \in DOMAIN current,
           NEW status \in WorkStates \ {"none"}, NEW row, Settle(p, status, row)
    PROVE  /\ queue' \in [Product -> WorkStates] /\ queue'[p] = status
           /\ \A q \in Product \ {p} : queue'[q] = queue[q]
           /\ DOMAIN current' = DOMAIN current /\ current'[p] = row
           /\ \A q \in DOMAIN current \ {p} : current'[q] = current[q]
           /\ Queued' = Queued
           /\ stage = "queue" /\ ~spent
           /\ UNCHANGED <<kind, index, week, active, reference, stage, baseline, unseen, attempts, spent>>
<1>1. /\ queue' \in [Product -> WorkStates] /\ queue'[p] = status
      /\ \A q \in Product \ {p} : queue'[q] = queue[q]
  BY DEF Settle, TypeOK
<1>2. Queued' = Queued
  BY <1>1 DEF Queued
<1> QED
  BY <1>1, <1>2 DEF Settle

LEMMA SpentChanges ==
    ASSUME TypeOK, NEW p \in Product, BudgetSpent(p)
    PROVE  /\ queue' \in [Product -> WorkStates]
           /\ queue[p] = "claimed" /\ queue'[p] = "pending"
           /\ \A q \in Product \ {p} : queue'[q] = queue[q]
           /\ Queued' = Queued
           /\ stage = "queue" /\ spent' = TRUE
           /\ UNCHANGED <<kind, index, week, active, reference, stage, baseline, unseen, current, attempts>>
<1>1. /\ queue' \in [Product -> WorkStates] /\ queue[p] = "claimed" /\ queue'[p] = "pending"
      /\ \A q \in Product \ {p} : queue'[q] = queue[q]
  BY DEF BudgetSpent, TypeOK, WorkStates
<1>2. Queued' = Queued
  BY <1>1 DEF Queued
<1> QED
  BY <1>1, <1>2 DEF BudgetSpent

LEMMA ClaimChanges ==
    ASSUME TypeOK, Attempted, Claim
    PROVE  /\ queue' \in [Product -> WorkStates]
           /\ \A q \in Product : queue'[q] = IF queue[q] = "pending" THEN "claimed" ELSE queue[q]
           /\ attempts' \in [Product -> 0..(MaxRetries + 1)]
           /\ Queued' = Queued
           /\ stage = "queue"
           /\ UNCHANGED <<kind, index, week, active, reference, stage, baseline, unseen, current, spent>>
<1>1. \A q \in Product : queue'[q] = IF queue[q] = "pending" THEN "claimed" ELSE queue[q]
  BY DEF Claim
<1>2. queue' \in [Product -> WorkStates]
  BY DEF Claim, TypeOK, WorkStates
<1>3. \A q \in Product : attempts[q] \in 0..(MaxRetries + 1)
                         /\ (queue[q] = "pending" => attempts[q] <= MaxRetries)
  BY DEF TypeOK, Attempted, Claim
<1>4. \A q \in Product : (IF queue[q] = "pending" THEN attempts[q] + 1 ELSE attempts[q])
                            \in 0..(MaxRetries + 1)
  BY <1>3, Numbers
<1>5. attempts' \in [Product -> 0..(MaxRetries + 1)]
  BY <1>4 DEF Claim
<1>6. Queued' = Queued
  BY <1>1 DEF Queued
<1> QED
  BY <1>1, <1>2, <1>5, <1>6 DEF Claim

(* The steps by what they do: begin a run, answer or claim an item, go on to   *)
(* the next stage, end the run, or change what is outside of it.               *)

GoesOn ==
    \/ QueueComplete
    \/ /\ stage = "publish" /\ SameBaseline /\ stage' = "commit"
       /\ UNCHANGED <<kind, index, week, active, reference, baseline, unseen, current, queue,
                      attempts, spent>>

\* The run ends and promotes nothing.
EndsRun ==
    /\ stage # "idle" /\ Forget /\ queue' = NoQueue
    /\ UNCHANGED <<kind, index, week, active, reference>>

LEMMA StepKinds ==
    ASSUME [Next]_vars
    PROVE  \/ Begin \/ Claim \/ \E p \in Product : Handle(p)
           \/ GoesOn \/ EndsRun \/ Promote
           \/ CliSync \/ \E p \in Product : Upstream(p)
           \/ UNCHANGED vars
BY DEF Next, Handler, GoesOn, EndsRun, QueueIncomplete, CheckBaseline, GateRefuses, Abandon

LEMMA ForgetTyped ==
    ASSUME Forget
    PROVE  /\ stage' \in Stages /\ stage' = "idle" /\ baseline' = Nothing /\ unseen' = 0
           /\ baseline'.run \in 0..MaxGeneration /\ IsPartialMap(baseline'.rows, ServedRow)
           /\ unseen' \in 0..MaxGeneration
           /\ IsPartialMap(current, CurrentRow)'
           /\ attempts' \in [Product -> 0..(MaxRetries + 1)]
           /\ spent' \in BOOLEAN
<1>1. attempts' \in [Product -> 0..(MaxRetries + 1)]
  <2>1. 0 \in 0..(MaxRetries + 1)
    BY Numbers
  <2> QED
    BY <2>1 DEF Forget
<1>2. DOMAIN current' = {}
  BY DEF Forget, Empty
<1>3. IsPartialMap(current', CurrentRow)
  BY <1>2 DEF IsPartialMap
<1>4. baseline'.run = 0 /\ DOMAIN baseline'.rows = {}
  BY DEF Forget, Nothing, Empty
<1>5. IsPartialMap(baseline'.rows, ServedRow)
  BY <1>4 DEF IsPartialMap
<1>6. 0 \in 0..MaxGeneration
  BY Numbers
<1> QED
  BY <1>1, <1>3, <1>4, <1>5, <1>6 DEF Forget, Stages

(* Types.                                                                      *)

LEMMA BeginTyped ==
    ASSUME TypeOK, Begin
    PROVE  TypeOK'
<1>1. IsPartialMap(Reference, ReferenceRow) /\ IsPartialMap(Compose(Reference), CurrentRow)
  BY ReferenceTyped, ComposeTyped
<1>2. /\ IsPartialMap(reference'.rows, ReferenceRow) /\ reference'.of = active.run
      /\ IsPartialMap(current', CurrentRow)
  BY <1>1 DEF Begin
<1>3. queue' \in [Product -> WorkStates]
  BY DEF Begin, WorkStates
<1>4. attempts' \in [Product -> 0..(MaxRetries + 1)]
  <2>1. 0 \in 0..(MaxRetries + 1)
    BY Numbers
  <2> QED
    BY <2>1 DEF Begin
<1>5. week' \in 0..MaxWeek
  BY Numbers DEF Begin, TypeOK
<1>6. active.run \in 0..MaxGeneration /\ 0 \in 0..MaxGeneration
  BY Numbers DEF Begin, TypeOK
<1> QED
  BY <1>2, <1>3, <1>4, <1>5, <1>6 DEF Begin, TypeOK, Stages

LEMMA PromoteTyped ==
    ASSUME TypeOK, Behind, Ended, Promote
    PROVE  TypeOK'
<1>1. active.run + 1 \in 0..(MaxGeneration + 1)
  BY Numbers DEF TypeOK, Behind, Promote
<1>2. active'.run = active.run + 1 /\ DOMAIN active'.rows = Publishable
      /\ \A p \in Publishable : active'.rows[p] = Stored(current[p])
  BY DEF Promote
<1>3. IsPartialMap(active'.rows, ServedRow)
  <2>1. \A p \in Publishable : p \in Product /\ current[p] \in CurrentRow
    BY RowsTyped DEF Publishable
  <2>2. \A p \in Publishable : Stored(current[p]) \in ServedRow
    BY <2>1 DEF Stored, CurrentRow, ServedRow
  <2> QED
    BY <1>2, <2>1, <2>2 DEF IsPartialMap
<1>4. reference'.of \in 0..(MaxGeneration + 1) /\ IsPartialMap(reference'.rows, ReferenceRow)
  <2>1. CASE kind = "abw"
    <3>1. /\ reference'.of = active.run + 1 /\ DOMAIN reference'.rows = DOMAIN current
          /\ \A p \in DOMAIN current : reference'.rows[p] =
                 [fp |-> current[p].fp, gtin |-> current[p].gtin, offers |-> current[p].offers]
      BY <2>1 DEF Promote
    <3>2. \A p \in DOMAIN current : p \in Product /\ current[p] \in CurrentRow
      BY RowsTyped
    <3>3. ASSUME NEW p \in DOMAIN current PROVE reference'.rows[p] \in ReferenceRow
      <4>1. current[p].fp \in 0..MaxVersion /\ current[p].gtin \in BOOLEAN /\ current[p].offers \in Offers
        BY <3>2 DEF CurrentRow
      <4>2. [fp |-> current[p].fp, gtin |-> current[p].gtin, offers |-> current[p].offers] \in ReferenceRow
        BY <4>1 DEF ReferenceRow
      <4> QED
        BY <3>1, <4>2, Zenon
    <3> QED
      BY <1>1, <3>1, <3>2, <3>3 DEF IsPartialMap
  <2>2. CASE kind # "abw"
    BY <2>2 DEF Promote, TypeOK
  <2> QED
    BY <2>1, <2>2
<1>5. Forget /\ UNCHANGED <<kind, index, week, queue>>
  BY DEF Promote
<1> QED
  BY <1>1, <1>2, <1>3, <1>4, <1>5, ForgetTyped DEF TypeOK

LEMMA CliSyncTyped ==
    ASSUME TypeOK, Behind, Ended, CliSync
    PROVE  TypeOK'
<1>1. PICK offered \in SUBSET Listed :
          active' = [run |-> active.run + 1, rows |-> CliRows(offered)]
  BY DEF CliSync
<1>2. active'.run \in 0..(MaxGeneration + 1)
  BY <1>1, Numbers DEF CliSync, TypeOK
<1>6. unseen' \in 0..MaxGeneration
  BY Numbers DEF CliSync, TypeOK, Behind, Ended
<1>3. DOMAIN CliRows(offered) = Listed /\ Listed \subseteq Product
  BY DEF CliRows, Listed
<1>4. ASSUME NEW p \in Listed PROVE CliRows(offered)[p] \in ServedRow
  <2>1. index[p] \in 1..MaxVersion /\ week \in 0..MaxWeek
    BY Numbers DEF Listed, TypeOK
  <2>2. [seen |-> index[p], at |-> week] \in Offers
    BY <2>1 DEF Offers
  <2> QED
    BY <2>2, NoOffersTyped DEF CliRows, ServedRow
<1>5. IsPartialMap(active'.rows, ServedRow)
  BY <1>1, <1>3, <1>4 DEF IsPartialMap
<1> QED
  BY <1>2, <1>5, <1>6 DEF CliSync, TypeOK

LEMMA AnswerTyped ==
    ASSUME TypeOK, Enqueued, NEW p \in Product, Handle(p)
    PROVE  TypeOK'
<1>0. stage # "idle"
  BY DEF Handle, Enrich, EnrichNothing, RetryItem, FailItem, Resolve, BudgetSpent, Settle
<1>1. CASE BudgetSpent(p)
  BY <1>1, SpentChanges DEF TypeOK
<1>2. CASE ~BudgetSpent(p)
  <2>1. PICK status, row : Written(p, status, row) /\ Settle(p, status, row)
    BY <1>0, <1>2, HandleWrites
  <2>2. queue[p] = "claimed" /\ p \in DOMAIN current /\ status \in WorkStates \ {"none"}
        /\ row \in CurrentRow
    BY <1>0, <1>2, <2>1, HandleWrites DEF Written
  <2>3. /\ queue' \in [Product -> WorkStates]
        /\ DOMAIN current' = DOMAIN current /\ current'[p] = row
        /\ \A q \in DOMAIN current \ {p} : current'[q] = current[q]
        /\ UNCHANGED <<kind, index, week, active, reference, stage, baseline, unseen, attempts, spent>>
    BY <2>1, <2>2, SettleChanges
  <2>4. IsPartialMap(current', CurrentRow)
    BY <2>2, <2>3, RowsTyped DEF IsPartialMap
  <2> QED
    BY <2>3, <2>4 DEF TypeOK
<1> QED
  BY <1>1, <1>2

LEMMA StepType ==
    ASSUME WInv, [Next]_vars
    PROVE  TypeOK'
<1> USE DEF WInv
<1>1. CASE Begin
  BY <1>1, BeginTyped
<1>2. CASE Claim
  BY <1>2, ClaimChanges DEF TypeOK
<1>3. ASSUME NEW p \in Product, Handle(p) PROVE TypeOK'
  BY <1>3, AnswerTyped
<1>4. CASE GoesOn
  BY <1>4 DEF GoesOn, QueueComplete, TypeOK, Stages
<1>5. CASE EndsRun
  <2>2. queue' \in [Product -> WorkStates]
    BY <1>5 DEF EndsRun, NoQueue, WorkStates
  <2> QED
    BY <1>5, <2>2, ForgetTyped DEF EndsRun, TypeOK
<1>6. CASE Promote
  BY <1>6, PromoteTyped
<1>7. CASE CliSync
  BY <1>7, CliSyncTyped
<1>8. ASSUME NEW p \in Product, Upstream(p) PROVE TypeOK'
  <2>1. PICK v \in 0..MaxVersion : index' = [index EXCEPT ![p] = v]
    BY <1>8 DEF Upstream
  <2>2. index' \in [Product -> 0..MaxVersion]
    BY <2>1 DEF TypeOK
  <2> QED
    BY <1>8, <2>2 DEF Upstream, TypeOK
<1>9. CASE UNCHANGED vars
  BY <1>9 DEF vars, TypeOK
<1> QED
  BY <1>1, <1>2, <1>3, <1>4, <1>5, <1>6, <1>7, <1>8, <1>9, StepKinds

(* The reference and the active generation.                                    *)

\* Of the numbers of the generations the next invariant needs only this.
Numbered == active.run \in Nat /\ reference.of \in Nat /\ reference.of <= active.run

LEMMA FollowsActive ==
    ASSUME Numbered, ReferenceFollowsActive, [Next]_vars
    PROVE  Numbered' /\ ReferenceFollowsActive'
<1> USE DEF Numbered, HasReference
<1>1. CASE Begin
  <2>1. active' = active /\ reference'.of = active.run /\ reference'.rows = Reference
    BY <1>1 DEF Begin
  <2> QED
    BY <2>1, ReferenceCarries DEF ReferenceFollowsActive
<1>2. CASE Promote
  <2>1. /\ active'.run = active.run + 1 /\ DOMAIN active'.rows = Publishable
        /\ \A p \in Publishable : active'.rows[p].offers = current[p].offers
    BY <1>2 DEF Promote, Stored
  <2>2. CASE kind = "abw"
    <3>1. /\ reference'.of = active.run + 1 /\ DOMAIN reference'.rows = DOMAIN current
          /\ \A p \in DOMAIN current : reference'.rows[p].offers = current[p].offers
      BY <1>2, <2>2 DEF Promote
    <3>2. Publishable \subseteq DOMAIN current
      BY DEF Publishable
    <3> QED
      BY <2>1, <3>1, <3>2 DEF ReferenceFollowsActive
  <2>3. CASE kind # "abw"
    <3>1. reference' = reference
      BY <1>2, <2>3 DEF Promote
    <3> QED
      BY <2>1, <3>1 DEF ReferenceFollowsActive
  <2> QED
    BY <2>2, <2>3
<1>3. CASE CliSync
  <2>1. active'.run = active.run + 1 /\ reference' = reference
    BY <1>3 DEF CliSync
  <2> QED
    BY <2>1 DEF ReferenceFollowsActive
<1>4. CASE \/ Claim \/ GoesOn \/ EndsRun \/ UNCHANGED vars
           \/ \E p \in Product : Handle(p) \/ Upstream(p)
  <2>1. active' = active /\ reference' = reference
    BY <1>4 DEF Claim, Handle, Enrich, EnrichNothing, RetryItem, FailItem, Resolve,
      BudgetSpent, Settle, GoesOn, QueueComplete, EndsRun, Upstream, vars
  <2> QED
    BY <2>1 DEF ReferenceFollowsActive
<1> QED
  BY <1>1, <1>2, <1>3, <1>4, StepKinds

LEMMA StepBehind ==
    ASSUME WInv, [Next]_vars
    PROVE  Behind'
<1>0. /\ active.run \in Nat /\ reference.of \in Nat /\ baseline.run \in Nat
      /\ reference.of <= active.run /\ baseline.run <= active.run
  BY DEF WInv, TypeOK, Behind
<1> USE DEF Behind
<1>1. CASE Begin
  BY <1>0, <1>1 DEF Begin
<1>2. CASE Claim
  BY <1>2 DEF WInv, Claim
<1>3. ASSUME NEW p \in Product, Handle(p) PROVE Behind'
  BY <1>3 DEF WInv, Handle, Enrich, EnrichNothing, RetryItem, FailItem, Resolve,
    BudgetSpent, Settle
<1>4. CASE GoesOn
  BY <1>4 DEF WInv, GoesOn, QueueComplete
<1>5. CASE EndsRun
  BY <1>0, <1>5 DEF EndsRun, Forget, Nothing
<1>6. CASE Promote
  <2>1. stage' = "idle" /\ baseline'.run = 0 /\ active'.run = active.run + 1
        /\ reference'.of \in {reference.of, active.run + 1}
    BY <1>6 DEF Promote, Forget, Nothing
  <2> QED
    BY <1>0, <2>1
<1>7. CASE CliSync
  BY <1>0, <1>7, Numbers DEF WInv, CliSync
<1>8. ASSUME NEW p \in Product, Upstream(p) PROVE Behind'
  BY <1>8 DEF WInv, Upstream
<1>9. CASE UNCHANGED vars
  BY <1>9 DEF WInv, vars
<1> QED
  BY <1>1, <1>2, <1>3, <1>4, <1>5, <1>6, <1>7, <1>8, <1>9, StepKinds

(* The queue.                                                                  *)

LEMMA StepQueue ==
    ASSUME WInv, [Next]_vars
    PROVE  Attempted' /\ Ended' /\ Enqueued'
<1> USE DEF Attempted, Ended, Enqueued, SameBaseline
<1>0. active.run \in Nat /\ baseline.run \in Nat /\ unseen \in Nat
  BY DEF WInv, TypeOK
<1>1. CASE Begin
  <2>1. PICK selected \in Selections(Compose(Reference), week') :
            queue' = [p \in Product |-> IF p \in selected THEN "pending" ELSE "none"]
    BY <1>1 DEF Begin
  <2>2. /\ stage' = "queue" /\ attempts' = [p \in Product |-> 0] /\ unseen' = 0
        /\ current' = Compose(Reference) /\ week' \in 0..MaxWeek
    BY <1>1, StepType DEF Begin, TypeOK
  <2>3. selected \subseteq DOMAIN current'
    BY <2>1, <2>2, SelectionsAccount, ReferenceTyped, ComposeTyped DEF WInv
  <2> QED
    BY <2>1, <2>2, <2>3, Numbers
<1>2. CASE Claim
  <2>1. Attempted'
    <3>1. \A q \in Product : queue'[q] # "pending"
      BY <1>2, ClaimChanges DEF WInv
    <3> QED
      BY <3>1
  <2> QED
    BY <1>2, <2>1, ClaimChanges DEF WInv
<1>3. ASSUME NEW p \in Product, Handle(p) PROVE Attempted' /\ Ended' /\ Enqueued'
  <2>1. CASE BudgetSpent(p)
    BY <2>1, SpentChanges DEF WInv
  <2>2. CASE ~BudgetSpent(p)
    <3>0. stage # "idle"
      BY <1>3 DEF Handle, Enrich, EnrichNothing, RetryItem, FailItem, Resolve, BudgetSpent,
        Settle
    <3>1. PICK status, row : Written(p, status, row) /\ Settle(p, status, row)
      BY <1>3, <2>2, <3>0, HandleWrites DEF WInv
    <3>2. queue[p] = "claimed" /\ p \in DOMAIN current /\ status \in WorkStates \ {"none"}
          /\ (status = "pending" => attempts[p] <= MaxRetries)
      BY <1>3, <2>2, <3>0, <3>1, HandleWrites DEF Written, WInv
    <3>3. /\ queue'[p] = status /\ \A q \in Product \ {p} : queue'[q] = queue[q]
          /\ DOMAIN current' = DOMAIN current /\ stage = "queue" /\ ~spent
          /\ UNCHANGED <<stage, active, baseline, unseen, attempts, spent>>
      BY <3>1, <3>2, SettleChanges DEF WInv
    <3>4. Attempted'
      <4>1. \A q \in Product : queue'[q] = "pending" => attempts[q] <= MaxRetries
        BY <3>2, <3>3 DEF WInv
      <4> QED
        BY <3>3, <4>1
    <3>5. Enqueued'
      BY <3>2, <3>3 DEF WInv
    <3>6. Ended'
      BY <3>3 DEF WInv
    <3> QED
      BY <3>4, <3>5, <3>6
  <2> QED
    BY <2>1, <2>2
<1>4. CASE GoesOn
  <2>1. CASE QueueComplete
    <3>1. \A p \in Product : queue[p] \notin Unsettled
      BY <2>1 DEF QueueComplete, Items, Unsettled
    <3> QED
      BY <2>1, <3>1 DEF QueueComplete, WInv
  <2>2. CASE ~QueueComplete
    BY <1>0, <1>4, <2>2 DEF GoesOn, WInv
  <2> QED
    BY <2>1, <2>2
<1>5. CASE EndsRun
  BY <1>5 DEF EndsRun, Forget
<1>6. CASE Promote
  BY <1>6 DEF Promote, Forget
<1>7. CASE CliSync
  BY <1>0, <1>7 DEF CliSync, WInv
<1>8. ASSUME NEW p \in Product, Upstream(p) PROVE Attempted' /\ Ended' /\ Enqueued'
  BY <1>8 DEF Upstream, WInv
<1>9. CASE UNCHANGED vars
  BY <1>9 DEF vars, WInv
<1> QED
  BY <1>1, <1>2, <1>3, <1>4, <1>5, <1>6, <1>7, <1>8, <1>9, StepKinds

(* The two parts of PromotionAccounts, at the beginning of a run.              *)

LEMMA BeginExplains ==
    ASSUME WInv, Begin
    PROVE  StaleExplained' /\ LossExplained'
<1>1. PICK selected \in Selections(Compose(Reference), week') :
          queue' = [p \in Product |-> IF p \in selected THEN "pending" ELSE "none"]
  BY DEF Begin
<1>2. /\ stage' = "queue" /\ current' = Compose(Reference) /\ active' = active
      /\ week' \in 0..MaxWeek /\ IsPartialMap(Compose(Reference), CurrentRow)
      /\ DOMAIN current' \subseteq Product
  <2>1. IsPartialMap(Compose(Reference), CurrentRow)
    BY ReferenceTyped, ComposeTyped DEF WInv
  <2>2. week' \in 0..MaxWeek
    BY Numbers DEF WInv, TypeOK, Begin
  <2> QED
    BY <2>1, <2>2 DEF Begin, IsPartialMap
<1>3. /\ selected \subseteq DOMAIN current' /\ Urgent(current') \subseteq selected
      /\ \A p \in DOMAIN current' : Due(current'[p], week') /\ p \notin selected =>
             Cardinality(selected) >= ReconBudget
  BY <1>1, <1>2, SelectionsAccount DEF WInv
<1>4. Queued' = selected
  BY <1>1, <1>2, <1>3 DEF Queued
<1>5. \A p \in DOMAIN current' : queue'[p] = IF p \in selected THEN "pending" ELSE "none"
  BY <1>1, <1>2
<1>6. StaleExplained'
  <2> SUFFICES ASSUME NEW p \in DOMAIN current', current'[p].offers # NoOffers,
                      current'[p].offers.at + ReconWeeks <= week', p \notin selected
               PROVE  Cardinality(selected) >= ReconBudget
    BY <1>4, <1>5 DEF StaleExplained, Unsettled
  <2>1. current'[p].state = "unchanged"
    BY <1>2, ComposeRows
  <2> QED
    BY <1>3, <2>1 DEF Due
<1>7. LossExplained'
  <2>0. baseline' = active
    BY DEF Begin
  <2> SUFFICES ASSUME NEW p \in DOMAIN current' \cap DOMAIN active.rows,
                      active.rows[p].offers # NoOffers, current'[p].state # "removed",
                      current'[p].state = "quarantined" \/ current'[p].offers = NoOffers
               PROVE  p \in selected
    BY <1>2, <1>5, <2>0 DEF LossExplained, Unsettled
  <2>1. p \in DOMAIN Reference /\ Reference[p].offers = active.rows[p].offers
    BY ReferenceCarries DEF WInv
  <2>2. /\ p \in Listed /\ current'[p].state = StateOf(p, Reference)
        /\ current'[p].offers = IF StateOf(p, Reference) = "unchanged" THEN Reference[p].offers
                                                                       ELSE NoOffers
    BY <1>2, ComposeRows
  <2>3. current'[p].state \in {"new", "changed", "identifier_unresolved"}
    BY <2>1, <2>2, StatesOf
  <2>4. p \in Urgent(current')
    BY <2>3 DEF Urgent
  <2> QED
    BY <1>3, <2>4
<1> QED
  BY <1>6, <1>7

\* An answer explains what it does to the offers of its product.
LEMMA AnswerExplains ==
    ASSUME WInv, NEW p \in Product, Handle(p)
    PROVE  StaleExplained' /\ LossExplained'
<1> USE DEF WInv
<1>0. stage = "queue"
  BY DEF Handle, Enrich, EnrichNothing, RetryItem, FailItem, Resolve, BudgetSpent, Settle
<1>1. CASE BudgetSpent(p)
  <2>1. /\ queue'[p] = "pending" /\ \A q \in Product \ {p} : queue'[q] = queue[q]
        /\ Queued' = Queued
        /\ UNCHANGED <<week, active, stage, baseline, unseen, current>>
    BY <1>1, SpentChanges
  <2>2. DOMAIN current \subseteq Product
    BY RowsTyped
  <2>3. StaleExplained'
    BY <1>0, <2>1, <2>2 DEF StaleExplained, Unsettled
  <2>4. LossExplained'
    BY <1>0, <2>1, <2>2 DEF LossExplained, Unsettled
  <2> QED
    BY <2>3, <2>4
<1>2. CASE ~BudgetSpent(p)
  <2>1. PICK status, row : Written(p, status, row) /\ Settle(p, status, row)
    BY <1>0, <1>2, HandleWrites
  <2>2. queue[p] = "claimed" /\ p \in DOMAIN current /\ status \in WorkStates \ {"none"}
    BY <1>0, <1>2, <2>1, HandleWrites DEF Written
  <2>3. /\ queue'[p] = status /\ \A q \in Product \ {p} : queue'[q] = queue[q]
        /\ DOMAIN current' = DOMAIN current /\ current'[p] = row
        /\ \A q \in DOMAIN current \ {p} : current'[q] = current[q]
        /\ Queued' = Queued
        /\ UNCHANGED <<week, active, reference, stage, baseline>>
    BY <2>1, <2>2, SettleChanges
  <2>4. DOMAIN current \subseteq Product
    BY RowsTyped
  <2>5. StaleExplained'
    <3> SUFFICES ASSUME NEW q \in DOMAIN current, current'[q].offers # NoOffers,
                        current'[q].offers.at + ReconWeeks <= week
                 PROVE  \/ queue'[q] \in Unsettled \cup {"carry_forward"}
                        \/ queue'[q] = "none" /\ Cardinality(Queued) >= ReconBudget
      BY <2>3 DEF StaleExplained
    <3>1. CASE q = p
      <4>1. status # "complete"
        <5>1. week \in Nat /\ ReconWeeks \in Nat /\ ReconWeeks > 0
          BY Numbers DEF TypeOK
        <5> QED
          BY <2>1, <2>3, <3>1, <5>1 DEF Written
      <4> QED
        BY <2>1, <2>3, <3>1, <4>1 DEF Written, Unsettled
    <3>2. CASE q # p
      BY <1>0, <2>3, <2>4, <3>2 DEF StaleExplained
    <3> QED
      BY <3>1, <3>2
  <2>6. LossExplained'
    <3> SUFFICES ASSUME NEW q \in DOMAIN current \cap DOMAIN baseline.rows,
                        baseline.rows[q].offers # NoOffers, current'[q].state # "removed",
                        current'[q].state = "quarantined" \/ current'[q].offers = NoOffers
                 PROVE  queue'[q] \in Unsettled \cup {"complete", "quarantined"}
      BY <2>3 DEF LossExplained
    <3>1. CASE q = p
      <4>1. status # "carry_forward"
        <5>1. reference.rows[p].offers = baseline.rows[p].offers
          BY <1>0, <3>1 DEF Composed
        <5> QED
          BY <2>1, <2>3, <3>1, <5>1 DEF Written
      <4> QED
        BY <2>1, <2>3, <3>1, <4>1 DEF Written, Unsettled
    <3>2. CASE q # p
      BY <1>0, <2>3, <2>4, <3>2 DEF LossExplained
    <3> QED
      BY <3>1, <3>2
  <2> QED
    BY <2>5, <2>6
<1> QED
  BY <1>1, <1>2

LEMMA StepExplained ==
    ASSUME WInv, [Next]_vars
    PROVE  StaleExplained' /\ LossExplained'
<1> USE DEF WInv
<1>1. CASE Begin
  BY <1>1, BeginExplains
<1>2. CASE Claim
  <2>1. /\ \A q \in Product : queue'[q] = IF queue[q] = "pending" THEN "claimed" ELSE queue[q]
        /\ Queued' = Queued /\ stage = "queue"
        /\ UNCHANGED <<week, active, stage, baseline, unseen, current>>
    BY <1>2, ClaimChanges
  <2>2. DOMAIN current \subseteq Product
    BY RowsTyped
  <2>3. \A q \in DOMAIN current : /\ queue'[q] \in Unsettled <=> queue[q] \in Unsettled
                                  /\ queue[q] \notin Unsettled => queue'[q] = queue[q]
    BY <2>1, <2>2 DEF Unsettled
  <2>4. StaleExplained'
    BY <2>1, <2>3 DEF StaleExplained
  <2>5. LossExplained'
    BY <2>1, <2>3 DEF LossExplained
  <2> QED
    BY <2>4, <2>5
<1>3. ASSUME NEW p \in Product, Handle(p) PROVE StaleExplained' /\ LossExplained'
  BY <1>3, AnswerExplains
<1>4. CASE GoesOn
  <2>1. stage # "idle" /\ UNCHANGED <<week, active, baseline, current, queue>>
    BY <1>4 DEF GoesOn, QueueComplete
  <2> QED
    BY <2>1 DEF StaleExplained, LossExplained, Queued
<1>5. CASE EndsRun \/ Promote
  BY <1>5 DEF EndsRun, Promote, Forget, StaleExplained, LossExplained
<1>6. CASE CliSync
  <2>1. UNCHANGED <<week, stage, baseline, current, queue>>
    BY <1>6 DEF CliSync
  <2> QED
    BY <2>1 DEF StaleExplained, LossExplained, Queued
<1>7. ASSUME NEW p \in Product, Upstream(p) PROVE StaleExplained' /\ LossExplained'
  <2>1. UNCHANGED <<week, active, stage, baseline, unseen, current, queue>>
    BY <1>7 DEF Upstream
  <2> QED
    BY <2>1 DEF StaleExplained, LossExplained, Queued
<1>8. CASE UNCHANGED vars
  BY <1>8 DEF vars, StaleExplained, LossExplained, Queued
<1> QED
  BY <1>1, <1>2, <1>3, <1>4, <1>5, <1>6, <1>7, <1>8, StepKinds

LEMMA StepComposed ==
    ASSUME WInv, [Next]_vars
    PROVE  Composed'
<1>1. CASE Begin
  <2>1. baseline' = active /\ reference'.rows = Reference
    BY <1>1 DEF Begin
  <2> QED
    BY <2>1, ReferenceCarries DEF WInv, Composed
<1>2. CASE EndsRun \/ Promote
  BY <1>2 DEF EndsRun, Promote, Forget, Composed
<1>3. CASE \/ Claim \/ GoesOn \/ CliSync \/ UNCHANGED vars
           \/ \E p \in Product : Handle(p) \/ Upstream(p)
  <2>1. baseline' = baseline /\ reference' = reference /\ (stage' # "idle" => stage # "idle")
    BY <1>3 DEF Claim, Handle, Enrich, EnrichNothing, RetryItem, FailItem, Resolve,
      BudgetSpent, Settle, GoesOn, QueueComplete, CliSync, Upstream, vars
  <2> QED
    BY <2>1 DEF WInv, Composed
<1> QED
  BY <1>1, <1>2, <1>3, StepKinds

LEMMA InitWInv ==
    ASSUME Init
    PROVE  WInv
<1>1. DOMAIN Empty = {}
  BY DEF Empty
<1>2. TypeOK
  <2>1. /\ 0 \in 0..MaxWeek /\ 0 \in 0..MaxGeneration /\ 0 \in 0..(MaxGeneration + 1)
        /\ 0 \in 0..(MaxRetries + 1)
    BY Numbers
  <2>2. /\ IsPartialMap(active.rows, ServedRow) /\ IsPartialMap(reference.rows, ReferenceRow)
        /\ IsPartialMap(current, CurrentRow) /\ IsPartialMap(baseline.rows, ServedRow)
    BY <1>1 DEF Init, IsPartialMap, Nothing
  <2> QED
    BY <2>1, <2>2 DEF Init, TypeOK, Stages, WorkStates, Nothing
<1>3. ReferenceFollowsActive /\ Behind
  BY <1>1, Numbers DEF Init, ReferenceFollowsActive, Behind, Nothing
<1> QED
  BY <1>2, <1>3 DEF Init, WInv, Attempted, Ended, Enqueued, Composed, StaleExplained,
    LossExplained

LEMMA WeeklyInvariant == Spec => []WInv
<1>1. WInv /\ [Next]_vars => WInv'
  <2> SUFFICES ASSUME WInv, [Next]_vars PROVE WInv'
    OBVIOUS
  <2>1. ReferenceFollowsActive'
    BY FollowsActive DEF WInv, TypeOK, Behind, Numbered
  <2> QED
    BY <2>1, StepType, StepBehind, StepQueue, StepComposed, StepExplained DEF WInv
<1> QED
  BY <1>1, InitWInv, PTL DEF Spec

(* Rows, offers and numbers keep their types: no item counts more attempts    *)
(* than the retries allow, no generation is numbered past the last.           *)
THEOREM WeeklyTypeCorrect == Spec => []TypeOK
<1>1. WInv => TypeOK
  BY DEF WInv
<1> QED
  BY <1>1, WeeklyInvariant, PTL

(* Whoever publishes, and whenever, a reference that names the active          *)
(* generation carries exactly its offers: has_generation never accepts a       *)
(* reference from which older offers would be carried.                         *)
THEOREM WeeklyFollowsActive == Spec => []ReferenceFollowsActive
<1>1. Init => Numbered /\ ReferenceFollowsActive
  <2> SUFFICES ASSUME Init PROVE Numbered /\ ReferenceFollowsActive
    OBVIOUS
  <2>1. WInv
    BY InitWInv
  <2>2. Numbered
    BY <2>1, Numbers DEF WInv, TypeOK, Behind, Numbered
  <2> QED
    BY <2>1, <2>2 DEF WInv
<1>2. Numbered /\ ReferenceFollowsActive /\ [Next]_vars => Numbered' /\ ReferenceFollowsActive'
  BY FollowsActive
<1> QED
  BY <1>1, <1>2, PTL DEF Spec

\* Only the commit promotes.
LEMMA PromotesAtCommit ==
    ASSUME [Next]_vars, Promotes
    PROVE  Promote
<1>1. CASE Begin \/ Claim \/ GoesOn
  BY <1>1 DEF Begin, Claim, GoesOn, QueueComplete, Promotes
<1>2. ASSUME NEW p \in Product, Handle(p) \/ Upstream(p) PROVE FALSE
  BY <1>2 DEF Handle, Enrich, EnrichNothing, RetryItem, FailItem, Resolve, BudgetSpent,
              Settle, Upstream, Promotes
<1>3. CASE EndsRun \/ CliSync \/ UNCHANGED vars
  BY <1>3 DEF EndsRun, CliSync, vars, Promotes
<1> QED
  BY <1>1, <1>2, <1>3, StepKinds

(* The generation a weekly promotion replaces is the one its run compared      *)
(* with, or one that was published after the comparison: no synchronisation    *)
(* that landed before it is undone, at whatever stage of the run it landed.    *)
THEOREM WeeklyPromotesOverBaseline == Spec => PromotedOverBaseline
<1>1. WInv /\ [Next]_vars => [Promotes => active.run = baseline.run + unseen]_vars
  BY DEF WInv, Ended, Promotes
<1> QED
  BY <1>1, WeeklyInvariant, PTL DEF Spec, PromotedOverBaseline

(* A promotion serves an offer that is due only when its refresh failed or the *)
(* budget was used up, and drops one of a listed product of the generation it  *)
(* was composed from only on the supplier's answer or a quarantine.            *)
THEOREM WeeklyPromotionAccounts == Spec => PromotionAccounts
<1>1. ASSUME WInv, [Next]_vars, Promotes
      PROVE  /\ \A p \in DOMAIN active'.rows : StaleIsAccounted(p)
             /\ \A p \in DOMAIN baseline.rows : LossIsAccounted(p)
  <2>1. /\ stage = "commit" /\ DOMAIN active'.rows = Publishable
        /\ \A p \in Publishable : active'.rows[p].offers = current[p].offers
    BY <1>1, PromotesAtCommit DEF Promote, Stored
  <2>2. /\ Publishable \subseteq DOMAIN current /\ DOMAIN current \subseteq Product
        /\ \A p \in DOMAIN current : queue[p] \notin Unsettled
    BY <1>1, <2>1, RowsTyped DEF WInv, Publishable, Ended
  <2>3. ASSUME NEW p \in DOMAIN active'.rows PROVE StaleIsAccounted(p)
    BY <1>1, <2>1, <2>2 DEF WInv, StaleExplained, StaleIsAccounted
  <2>4. ASSUME NEW p \in DOMAIN baseline.rows PROVE LossIsAccounted(p)
    <3> SUFFICES ASSUME baseline.rows[p].offers # NoOffers,
                        p \in DOMAIN current, current[p].state # "removed",
                        p \notin DOMAIN active'.rows \/ active'.rows[p].offers = NoOffers
                 PROVE  queue[p] \in {"complete", "quarantined"}
      BY DEF LossIsAccounted
    <3>1. current[p].state = "quarantined" \/ current[p].offers = NoOffers
      BY <2>1 DEF Publishable
    <3> QED
      BY <1>1, <2>1, <2>2, <3>1 DEF WInv, LossExplained
  <2> QED
    BY <2>3, <2>4
<1>2. WInv /\ [Next]_vars =>
          [Promotes => /\ \A p \in DOMAIN active'.rows : StaleIsAccounted(p)
                       /\ \A p \in DOMAIN baseline.rows : LossIsAccounted(p)]_vars
  BY <1>1
<1> QED
  BY <1>2, WeeklyInvariant, PTL DEF Spec, PromotionAccounts
=============================================================================
