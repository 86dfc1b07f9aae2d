------------------------ MODULE IncrementalRunProofs ------------------------
(***************************************************************************)
(* Theorems about IncrementalRun, for every number of identities, every      *)
(* order of their selection, any pages, caches, batch size and anything that *)
(* goes wrong, any number of times.                                         *)
(***************************************************************************)
EXTENDS IncrementalRun, FiniteSetTheorems, SequenceTheorems, TLAPS

(* The phases that come after a point, as sets. *)

PricesDone == {"pricing_complete", "competition_filtered", "fees_pending",
               "fees_complete", "completed", "export_pending"}
BsrDone == PricesDone \cup {"bsr_filtered"}
AllFees == {"fees_complete", "completed", "export_pending"}
Computed == {"completed", "export_pending"}

LEMMA PastPhases ==
  ASSUME phase \in Phase
  PROVE  /\ Past("bsr_filtered") <=> phase \in BsrDone
         /\ Past("pricing_complete") <=> phase \in PricesDone
         /\ Past("fees_complete") <=> phase \in AllFees
         /\ Past("completed") <=> phase \in Computed
  BY DEF Past, Rank, Phase, PricesDone, BsrDone, AllFees, Computed

LEMMA Constants ==
  /\ Count \in Nat \ {0} /\ Batch \in Nat \ {0} /\ MaxTrouble \in Nat
  /\ Cached \subseteq Item /\ PriceCached \subseteq Item
  /\ Order \in [Item -> Item]
  /\ FeeCached \subseteq Asin
  BY RunAssumption

-----------------------------------------------------------------------------
(* The parts of the inductive invariant.                                    *)

\* While it prepares, the worker holds exactly what is still to be prepared.
QueueFits == pc \in {"create", "prepare"} => Len(queue) = Count - selected

\* What the worker does next tells the persisted phase, and the other way round.
PhaseFits ==
  /\ ~prepared => /\ phase \in {"none", "preparing", "resource_paused"}
                  /\ pc \in {"off", "freeze", "create", "prepare"}
                  /\ reg # "export"
  /\ pc \in {"freeze", "create", "prepare"} => ~prepared
  /\ pc = "rotate" => phase \in {"suppliers_loaded", "catalog_complete"}
  /\ pc = "filter" => phase = "catalog_complete"
  /\ pc \in {"reconcile", "pricing", "prices"} => phase = "bsr_filtered"
  /\ pc \in {"observe", "settle"} => phase = "pricing_complete"
  /\ pc \in {"fees", "wave", "outage"} => phase = "competition_filtered"
  /\ pc = "economics" => phase = "fees_complete"
  /\ pc = "handoff" => phase = "completed"
  /\ pc = "publish" => phase = "export_pending"
  /\ reg = "export" => phase = "export_pending" /\ pc = "off"
  /\ pc # "off" => reg = "running"

\* An answer that was stored stays, and the batch in flight has none.
AnswersKept ==
  /\ answered \subseteq Definitive
  /\ ~prepared => answered \subseteq Cached
  /\ pc = "commit" => batch \subseteq PendingItems

\* What the rotation store may not know yet, and when.
Rotated ==
  /\ phase \in BsrDone => Definitive \subseteq analyzed
  /\ pc \notin {"off", "freeze", "create", "prepare", "begin", "replay", "rotate"}
       => Definitive \subseteq analyzed
  /\ pc = "rotate" => Definitive \subseteq analyzed \cup batch

\* The filters judge every listing before Pricing looks for prices.
Judged ==
  /\ \A i \in Item, a \in Asin : i \notin Stored => listing[i][a] = "none"
  /\ pc = "filter" =>
       \A i \in Item, a \in Asin :
         i \notin todo => listing[i][a] \in {"none", "bsr_passed", "bsr_filtered"}
  /\ phase = "bsr_filtered" =>
       \A i \in Item, a \in Asin :
         listing[i][a] \in {"none", "bsr_passed", "bsr_filtered"}

\* Once the duplicates are reconciled, a page is priced for all or for none.
PricesShared ==
  /\ pc \in {"pricing", "prices"} => Twins = {}
  /\ phase \in PricesDone =>
       \A i \in Item, a \in Asin :
         listing[i][a] \in {"bsr_passed", "competition_passed", "competition_filtered"}
           => <<i, a>> \in priced

\* After a requeue only the batch in flight holds incomplete answers, so the worker
\* that leaves Catalog has all of them.
CatalogSettled ==
  /\ pc \in {"catalog", "commit"} => \A i \in Item : cat[i] # "incomplete"
  /\ pc = "rotate" => \A i \in Item \ batch : cat[i] # "incomplete"
  /\ pc \in {"gate", "filter", "reconcile", "pricing", "prices"} => Stored \subseteq Definitive

\* A page that was quoted keeps a price, since no answer replaces its listings.
QuotesKept ==
  /\ quoted # {} => prepared /\ Stored \subseteq Definitive
  /\ \A a \in quoted : HasPrice(a)
  /\ pc = "prices" => asins \subseteq PendingAsins

\* Every page that passed has an observation, and finally a settled fee.
FeesKept ==
  /\ \A i \in Item, a \in Asin : listing[i][a] = "competition_passed" => fee[a] # "none"
  /\ pc = "settle" => \A a \in Passed(batch) : fee[a] # "none"
  /\ phase \in AllFees =>
       \A i \in Item, a \in Asin : listing[i][a] = "competition_passed"
                                     => fee[a] = "settled"

\* A wave asks only for fees that are not settled.
WaveAsks == pc = "wave" => asins \subseteq PendingFees

\* The economics pass has written all it has visited.
EconomicsKept ==
  /\ todo \subseteq Stored /\ evaluated \subseteq Stored
  /\ pc = "economics" => Stored \ todo \subseteq evaluated
  /\ phase \in Computed => evaluated = Stored

IInv == /\ TypeOK /\ QueueFits /\ PhaseFits /\ AnswersKept /\ Rotated
        /\ CatalogSettled /\ QuotesKept /\ Judged /\ PricesShared /\ FeesKept
        /\ WaveAsks /\ EconomicsKept

-----------------------------------------------------------------------------
(* What the operators of the model return.                                  *)

LEMMA PageOf ==
  ASSUME NEW S
  PROVE  FirstItems(S) \subseteq S /\ FirstAsins(S) \subseteq S
  BY DEF FirstItems, FirstAsins

\* What the preparation takes from the freshness cache.
LEMMA CacheReuse ==
  /\ Reused = Cached /\ Repriced = PriceCached
  /\ \A i \in Reused : CacheRow(i).listings = Listing[i]
<1>1. \A i \in Item : i \in Cached <=> "NEW_LOOKUP" \notin Plan(i)
  BY DEF Plan, CacheRow
<1>2. Reused = Cached
  BY <1>1, Constants DEF Reused
<1>3. \A i \in Cached : i \in PriceCached <=> "REFRESH_PRICING" \notin Plan(i)
  BY DEF Plan, CacheRow
<1>4. PriceCached \subseteq Cached
  BY RunAssumption DEF RunAssumption
<1>5. Repriced = PriceCached
  BY <1>2, <1>3, <1>4 DEF Repriced
<1>6. \A i \in Reused : CacheRow(i).listings = Listing[i]
  BY <1>2 DEF CacheRow
<1> QED
  BY <1>2, <1>5, <1>6

LEMMA CachedCount ==
  ASSUME NEW S \in SUBSET Item
  PROVE  Cardinality(S) \in Nat /\ IsFiniteSet(S)
<1>1. IsFiniteSet(Item)
  BY Constants, FS_Interval DEF Item
<1>2. IsFiniteSet(S)
  BY <1>1, FS_Subset
<1> QED
  BY <1>2, FS_CardinalityType

\* The candidates still to be prepared, in either order.
LEMMA Remaining ==
  ASSUME NEW n \in 0..Count, NEW s \in [Item -> Item]
  PROVE  /\ SubSeq(s, n + 1, Count) \in Seq(Item)
         /\ Len(SubSeq(s, n + 1, Count)) = Count - n
<1>2. n \in Nat /\ n + 1 \in Int /\ Count \in Int
  BY Constants
<1>1. \A i \in (n + 1)..Count : s[i] \in Item
  <2>1. (n + 1)..Count \subseteq Item
    BY <1>2 DEF Item
  <2> QED
    BY <2>1
<1>3. /\ SubSeq(s, n + 1, Count) \in Seq(Item)
      /\ Len(SubSeq(s, n + 1, Count)) = IF n + 1 <= Count THEN Count - (n + 1) + 1 ELSE 0
  BY <1>1, <1>2, SubSeqProperties
<1> QED
  BY <1>3, Constants

\* A batch leaves the rest of the queue.
LEMMA Rest ==
  ASSUME NEW q \in Seq(Item), NEW n \in 0..Len(q)
  PROVE  /\ SubSeq(q, n + 1, Len(q)) \in Seq(Item)
         /\ Len(SubSeq(q, n + 1, Len(q))) = Len(q) - n
<1>1. Len(q) \in Nat
  OBVIOUS
<1>2. \A i \in (n + 1)..Len(q) : q[i] \in Item
  BY <1>1, ElementOfSeq
<1>3. /\ SubSeq(q, n + 1, Len(q)) \in Seq(Item)
      /\ Len(SubSeq(q, n + 1, Len(q))) =
           IF n + 1 <= Len(q) THEN Len(q) - (n + 1) + 1 ELSE 0
  BY <1>1, <1>2, SubSeqProperties
<1> QED
  BY <1>1, <1>3

-----------------------------------------------------------------------------
(* Types.                                                                   *)

LEMMA StartTypes ==
  ASSUME TypeOK, QueueFits, Resume \/ CreateJob \/ CompletePreparation \/ Begin
                           \/ ReplayRotation \/ RequeueIncomplete
  PROVE  TypeOK' /\ QueueFits'
<1>1. CASE Resume
  BY <1>1 DEF Resume, TypeOK, QueueFits, Pc, countVars, itemVars, rotationVars,
     memory, history
<1>2. CASE CreateJob
  BY <1>2 DEF CreateJob, TypeOK, QueueFits, Pc, Phase, Goes, countVars, itemVars,
     rotationVars, memory, history
<1>3. CASE CompletePreparation
  BY <1>3 DEF CompletePreparation, TypeOK, QueueFits, Pc, Phase, Goes, itemVars,
     rotationVars, memory, history
<1>4. CASE Begin
  BY <1>4 DEF Begin, TypeOK, QueueFits, Pc, Phase, Goes, countVars, itemVars,
     rotationVars, memory, history
<1>5. CASE ReplayRotation
  BY <1>5 DEF ReplayRotation, TypeOK, QueueFits, Pc, Goes, Definitive, Stored, countVars,
     itemVars, memory, history
<1>6. CASE RequeueIncomplete
  BY <1>6 DEF RequeueIncomplete, TypeOK, QueueFits, Pc, Goes, countVars, rotationVars,
     memory, history
<1> QED
  BY <1>1, <1>2, <1>3, <1>4, <1>5, <1>6

LEMMA FreezeTypes ==
  ASSUME TypeOK, FreezeSelection
  PROVE  TypeOK' /\ QueueFits'
<1>1. Selection \in [Item -> Item]
  BY Constants DEF Selection
<1>2. queue' = SubSeq(Selection, selected + 1, Count)
  BY DEF FreezeSelection
<1>3. queue' \in Seq(Item) /\ Len(queue') = Count - selected
  BY <1>1, <1>2, Remaining DEF TypeOK
<1> QED
  BY <1>3 DEF FreezeSelection, TypeOK, QueueFits, Pc, Goes, countVars, itemVars, history

LEMMA PrepareTypes ==
  ASSUME TypeOK, QueueFits, PrepareBatch
  PROVE  TypeOK' /\ QueueFits'
<1> DEFINE n == IF Len(queue) < Batch THEN Len(queue) ELSE Batch
           place(i) == {k \in 1..n : queue[k] = i}
           new == {i \in Item : place(i) # {}}
<1>1. /\ queue \in Seq(Item) /\ Len(queue) \in Nat /\ selected \in 0..Count
      /\ Len(queue) = Count - selected
  BY DEF TypeOK, QueueFits, PrepareBatch
<1>2. n \in 0..Len(queue) /\ n \in Nat
  BY <1>1, Constants
<1>3. /\ queue' = SubSeq(queue, n + 1, Len(queue))
      /\ selected' = selected + n
      /\ completed' = completed + Cardinality(new \cap Cached)
      /\ seq' = [i \in Item |-> IF i \in new
                   THEN selected - 1 + (CHOOSE k \in place(i) : TRUE) ELSE seq[i]]
      /\ cat' = [i \in Item |-> IF i \notin new THEN cat[i]
                   ELSE IF i \in Cached THEN "definitive" ELSE "null"]
      /\ listing' = [i \in Item |-> [a \in Asin |->
                       IF i \in new \cap Cached /\ a \in Listing[i]
                       THEN "found" ELSE listing[i][a]]]
      /\ priced' = priced \cup {l \in Item \X Asin : /\ l[1] \in new \cap PriceCached
                                                     /\ l[2] \in Listing[l[1]]}
      /\ answered' = answered \cup (new \cap Cached)
      /\ pc' = "prepare"
      /\ UNCHANGED <<phase, prepared, fee, evaluated, frozen, analyzed, reg, trouble,
                     todo, batch, asins, quoted>>
  <2>1. /\ completed' = completed + Cardinality(new \cap Reused)
        /\ cat' = [i \in Item |-> IF i \notin new THEN cat[i]
                     ELSE IF i \in Reused THEN "definitive" ELSE "null"]
        /\ listing' = [i \in Item |-> [a \in Asin |->
                         IF i \in new \cap Reused /\ a \in CacheRow(i).listings
                         THEN "found" ELSE listing[i][a]]]
        /\ priced' = priced \cup {l \in Item \X Asin : /\ l[1] \in new \cap Repriced
                                                       /\ l[2] \in CacheRow(l[1]).listings}
        /\ answered' = answered \cup (new \cap Reused)
    BY DEF PrepareBatch
  <2>2. /\ queue' = SubSeq(queue, n + 1, Len(queue))
        /\ selected' = selected + n
        /\ seq' = [i \in Item |-> IF i \in new
                     THEN selected - 1 + (CHOOSE k \in place(i) : TRUE) ELSE seq[i]]
        /\ pc' = "prepare"
        /\ UNCHANGED <<phase, prepared, fee, evaluated, frozen, analyzed, reg, trouble,
                       todo, batch, asins, quoted>>
    BY DEF PrepareBatch, Goes, rotationVars
  <2> HIDE DEF n, place, new
  <2>3. \A i \in Item, a \in Asin :
          /\ i \in Reused <=> i \in Cached
          /\ (i \in new \cap Reused /\ a \in CacheRow(i).listings)
               <=> (i \in new \cap Cached /\ a \in Listing[i])
    BY CacheReuse
  <2>4. listing' = [i \in Item |-> [a \in Asin |->
                       IF i \in new \cap Cached /\ a \in Listing[i]
                       THEN "found" ELSE listing[i][a]]]
    BY <2>1, <2>3
  <2>5. priced' = priced \cup {l \in Item \X Asin : /\ l[1] \in new \cap PriceCached
                                                   /\ l[2] \in Listing[l[1]]}
    <3>1. \A l \in Item \X Asin :
            (l[1] \in new \cap Repriced /\ l[2] \in CacheRow(l[1]).listings)
              <=> (l[1] \in new \cap PriceCached /\ l[2] \in Listing[l[1]])
      BY CacheReuse, RunAssumption DEF RunAssumption
    <3> QED
      BY <2>1, <3>1
  <2> QED
    BY <2>1, <2>2, <2>4, <2>5, CacheReuse
<1>4. queue' \in Seq(Item) /\ Len(queue') = Count - selected' /\ selected' \in 0..Count
  <2>1. queue' \in Seq(Item) /\ Len(queue') = Len(queue) - n
    BY <1>1, <1>2, <1>3, Rest
  <2>2. selected' = selected + n
    BY <1>3
  <2> HIDE DEF n, place, new
  <2> QED
    BY <1>1, <1>2, <2>1, <2>2, Constants
<1>5. completed' \in Nat
  <2>1. new \cap Cached \in SUBSET Item
    OBVIOUS
  <2>2. Cardinality(new \cap Cached) \in Nat
    BY <2>1, CachedCount
  <2> QED
    BY <1>3, <2>2 DEF TypeOK
<1>6. seq' \in [Item -> {Null} \cup Nat]
  <2>1. \A i \in new : selected - 1 + (CHOOSE k \in place(i) : TRUE) \in Nat
    <3> SUFFICES ASSUME NEW i \in new
                 PROVE  selected - 1 + (CHOOSE k \in place(i) : TRUE) \in Nat
      OBVIOUS
    <3>1. place(i) # {} /\ place(i) \subseteq 1..n
      OBVIOUS
    <3>2. (CHOOSE k \in place(i) : TRUE) \in 1..n
      BY <3>1
    <3> QED
      BY <1>1, <1>2, <3>2
  <2> QED
    BY <1>3, <2>1 DEF TypeOK
<1>7. cat' \in [Item -> {"null", "incomplete", "definitive"}]
  BY <1>3 DEF TypeOK
<1>8. listing' \in [Item -> [Asin -> Verdict]]
  BY <1>3 DEF TypeOK, Verdict
<1>9. priced' \subseteq Item \X Asin /\ answered' \subseteq Item
  BY <1>3 DEF TypeOK
<1> HIDE DEF n, place, new
<1> QED
  BY <1>3, <1>4, <1>5, <1>6, <1>7, <1>8, <1>9 DEF TypeOK, QueueFits, Pc

LEMMA CatalogTypes ==
  ASSUME TypeOK, QueueFits, Catalog
  PROVE  TypeOK' /\ QueueFits'
<1>1. CASE FetchCatalog
  BY <1>1, PageOf DEF FetchCatalog, TypeOK, QueueFits, Pc, Goes, PendingItems, Stored,
     countVars, itemVars, rotationVars, history
<1>2. CASE CommitCatalog
  <2>1. PICK incomplete \in SUBSET batch :
          LET known == batch \ incomplete
          IN /\ \/ incomplete = {} /\ UNCHANGED trouble
                \/ incomplete # {} /\ Trouble("incomplete")
             /\ cat' = [i \in Item |-> IF i \in known THEN "definitive"
                                       ELSE IF i \in incomplete THEN "incomplete"
                                       ELSE cat[i]]
             /\ listing' = [i \in Item |-> IF i \notin batch THEN listing[i] ELSE
                             [a \in Asin |-> IF i \in known /\ a \in Listing[i]
                                             THEN "found" ELSE "none"]]
             /\ priced' = {l \in priced : l[1] \notin batch}
             /\ completed' = completed + Cardinality(known \ Definitive)
             /\ answered' = answered \cup known
    BY <1>2 DEF CommitCatalog
  <2>2. Cardinality((batch \ incomplete) \ Definitive) \in Nat
    BY CachedCount DEF TypeOK
  <2>3. trouble' \in 0..MaxTrouble /\ completed' \in Nat
    BY <2>1, <2>2, Constants DEF TypeOK, Trouble
  <2>4. cat' \in [Item -> {"null", "incomplete", "definitive"}]
    BY <2>1 DEF TypeOK
  <2>5. listing' \in [Item -> [Asin -> Verdict]]
    BY <2>1 DEF TypeOK, Verdict
  <2>6. priced' \subseteq Item \X Asin /\ answered' \subseteq Item
    BY <2>1 DEF TypeOK
  <2> QED
    BY <1>2, <2>3, <2>4, <2>5, <2>6 DEF CommitCatalog, TypeOK, QueueFits, Pc, Phase,
       rotationVars, memory
<1>3. CASE CommitRotation
  BY <1>3 DEF CommitRotation, TypeOK, QueueFits, Pc, Goes, countVars, itemVars, history
<1>4. CASE GiveUp
  BY <1>4 DEF GiveUp, Leaves, Forgets, TypeOK, QueueFits, Pc, Phase, countVars, itemVars,
     rotationVars, history
<1>5. CASE CatalogDone
  BY <1>5 DEF CatalogDone, TypeOK, QueueFits, Pc, Goes, countVars, itemVars, rotationVars,
     memory, history
<1>6. CASE Gate
  <2>1. phase' \in Phase
    BY <1>6 DEF Gate, TypeOK, Phase
  <2>2. Loop[phase'] \in Pc \ {"create", "prepare"}
    BY <2>1 DEF Loop, Phase, Pc
  <2> QED
    BY <1>6, <2>1, <2>2 DEF Gate, Enters, Goes, Stored, TypeOK, QueueFits, countVars,
       itemVars, rotationVars, history
<1> QED
  BY <1>1, <1>2, <1>3, <1>4, <1>5, <1>6 DEF Catalog

LEMMA ListingTypes ==
  ASSUME TypeOK, QueueFits, Filter \/ Pricing
  PROVE  TypeOK' /\ QueueFits'
<1>1. CASE FilterBatch
  <2>1. listing' \in [Item -> [Asin -> Verdict]]
    BY <1>1 DEF FilterBatch, TypeOK, Verdict
  <2> QED
    BY <1>1, <2>1 DEF FilterBatch, TypeOK, QueueFits, Pc, Goes, countVars, rotationVars,
       history
<1>2. CASE FilterDone
  BY <1>2 DEF FilterDone, Enters, Goes, TypeOK, QueueFits, Pc, Phase, countVars, itemVars,
     rotationVars, history
<1>3. CASE ReconcileDuplicates
  <2>1. Twins \subseteq Item \X Asin
    BY DEF Twins, Unpriced
  <2> QED
    BY <1>3, <2>1 DEF ReconcileDuplicates, TypeOK, QueueFits, Pc, Goes, countVars,
       rotationVars, memory, history
<1>4. CASE FetchPrices
  <2>1. asins' \subseteq Asin
    BY <1>4, PageOf DEF FetchPrices, PendingAsins
  <2> QED
    BY <1>4, <2>1 DEF FetchPrices, TypeOK, QueueFits, Pc, Goes, countVars, itemVars,
       rotationVars, history
<1>5. CASE CommitPrices
  <2>1. Unpriced \subseteq Item \X Asin
    BY DEF Unpriced
  <2> QED
    BY <1>5, <2>1 DEF CommitPrices, TypeOK, QueueFits, Pc, Goes, countVars, rotationVars,
       history
<1>6. CASE PricingDone
  BY <1>6 DEF PricingDone, Enters, Goes, Stored, TypeOK, QueueFits, Pc, Phase, countVars,
     itemVars, rotationVars, history
<1> QED
  BY <1>1, <1>2, <1>3, <1>4, <1>5, <1>6 DEF Filter, Pricing

LEMMA FeesTypes ==
  ASSUME TypeOK, QueueFits, CompetitionPass \/ Fees
  PROVE  TypeOK' /\ QueueFits'
<1>1. CASE ObserveBatch
  <2>1. fee' \in [Asin -> {"none", "pending", "retryable", "settled"}]
    BY <1>1 DEF ObserveBatch, TypeOK
  <2>2. batch' \subseteq Item /\ todo' \subseteq Item
    BY <1>1, PageOf DEF ObserveBatch, TypeOK
  <2> QED
    BY <1>1, <2>1, <2>2 DEF ObserveBatch, TypeOK, QueueFits, Pc, Goes, countVars,
       rotationVars, history
<1>2. CASE SettleBatch
  <2>1. \A i \in Item, a \in Asin : Competition(i, a) \in Verdict
    BY DEF Competition, TypeOK, Verdict
  <2>2. listing' \in [Item -> [Asin -> Verdict]]
    BY <1>2, <2>1 DEF SettleBatch, TypeOK
  <2> QED
    BY <1>2, <2>2 DEF SettleBatch, TypeOK, QueueFits, Pc, Goes, countVars, rotationVars,
       history
<1>3. CASE CompetitionDone
  BY <1>3 DEF CompetitionDone, Enters, Goes, TypeOK, QueueFits, Pc, Phase, countVars,
     itemVars, rotationVars, history
<1>4. CASE FetchFees
  <2>1. asins' \subseteq Asin
    BY <1>4, PageOf DEF FetchFees, PendingFees
  <2> QED
    BY <1>4, <2>1 DEF FetchFees, TypeOK, QueueFits, Pc, Goes, countVars, itemVars,
       rotationVars, history
<1>5. CASE FeeWave
  <2>1. PICK again \in SUBSET asins :
          /\ \/ again = {} /\ UNCHANGED trouble
             \/ again # {} /\ Trouble("transient")
          /\ fee' = [a \in Asin |-> IF a \in again THEN "retryable"
                                    ELSE IF a \in asins THEN "settled" ELSE fee[a]]
          /\ asins' = again
          /\ pc' = IF again = {} THEN "fees" ELSE "wave"
    BY <1>5 DEF FeeWave
  <2>2. trouble' \in 0..MaxTrouble
    BY <2>1, Constants DEF TypeOK, Trouble
  <2>3. fee' \in [Asin -> {"none", "pending", "retryable", "settled"}]
    BY <2>1 DEF TypeOK
  <2> QED
    BY <1>5, <2>1, <2>2, <2>3 DEF FeeWave, TypeOK, QueueFits, Pc, countVars, rotationVars,
       history
<1>6. CASE FeeOutage
  <2>1. trouble' \in 0..MaxTrouble
    BY <1>6, Constants DEF FeeOutage, TypeOK, Trouble
  <2>2. fee' \in [Asin -> {"none", "pending", "retryable", "settled"}]
    BY <1>6 DEF FeeOutage, TypeOK
  <2> QED
    BY <1>6, <2>1, <2>2 DEF FeeOutage, TypeOK, QueueFits, Pc, countVars, rotationVars,
       history
<1>7. CASE FeesPending
  BY <1>7 DEF FeesPending, Leaves, Forgets, TypeOK, QueueFits, Pc, Phase, countVars,
     itemVars, rotationVars, history
<1>8. CASE FeesDone
  BY <1>8 DEF FeesDone, Enters, Goes, Stored, TypeOK, QueueFits, Pc, Phase, countVars,
     itemVars, rotationVars, history
<1> QED
  BY <1>1, <1>2, <1>3, <1>4, <1>5, <1>6, <1>7, <1>8 DEF CompetitionPass, Fees

LEMMA LastTypes ==
  ASSUME TypeOK, QueueFits,
         Economics \/ HandOff \/ Dies \/ Pause \/ FinalizerCompletes \/ FinalizerFails
  PROVE  TypeOK' /\ QueueFits'
<1>1. CASE EconomicsBatch
  <2>1. FirstItems(todo) \subseteq todo
    BY PageOf
  <2>2. evaluated' \subseteq Item /\ todo' \subseteq Item
    BY <1>1, <2>1 DEF EconomicsBatch, TypeOK
  <2> QED
    BY <1>1, <2>2 DEF EconomicsBatch, TypeOK, QueueFits, Pc, Goes, countVars,
       rotationVars, history
<1>2. CASE EconomicsDone
  BY <1>2 DEF EconomicsDone, Enters, Goes, TypeOK, QueueFits, Pc, Phase, countVars,
     itemVars, rotationVars, history
<1>3. CASE SaveComputed
  BY <1>3 DEF SaveComputed, Goes, TypeOK, QueueFits, Pc, Phase, countVars, itemVars,
     rotationVars, memory, history
<1>4. CASE PrepareFinalization
  BY <1>4 DEF PrepareFinalization, Forgets, TypeOK, QueueFits, Pc,
     countVars, itemVars, rotationVars, history
<1>7. CASE ReturnSummary
  BY <1>7 DEF ReturnSummary, Leaves, Forgets, TypeOK, QueueFits, Pc,
     countVars, itemVars, rotationVars, history
<1>5. CASE Dies
  <2>1. trouble' \in 0..MaxTrouble
    BY <1>5, Constants DEF Dies, TypeOK, Trouble
  <2> QED
    BY <1>5, <2>1 DEF Dies, Leaves, Forgets, TypeOK, QueueFits, Pc, countVars, itemVars,
       rotationVars, history
<1>8. CASE Pause
  <2>1. trouble' \in 0..MaxTrouble /\ phase' \in Phase
    BY <1>8, Constants DEF Pause, TypeOK, Trouble, Phase
  <2> QED
    BY <1>8, <2>1 DEF Pause, Leaves, Forgets, TypeOK, QueueFits, Pc, countVars, itemVars,
       rotationVars, history
<1>6. CASE FinalizerCompletes \/ FinalizerFails
  <2>1. trouble' \in 0..MaxTrouble
    BY <1>6, Constants DEF FinalizerCompletes, FinalizerFails, TypeOK, Trouble
  <2> QED
    BY <1>6, <2>1 DEF FinalizerCompletes, FinalizerFails, TypeOK, QueueFits, Pc, Phase,
       countVars, itemVars, rotationVars, memory, history
<1> QED
  BY <1>1, <1>2, <1>3, <1>4, <1>5, <1>6, <1>7, <1>8 DEF Economics, HandOff

LEMMA StepTypes ==
  ASSUME TypeOK, QueueFits, [Next]_vars
  PROVE  TypeOK' /\ QueueFits'
<1>1. CASE UNCHANGED vars
  BY <1>1 DEF vars, TypeOK, QueueFits, countVars, itemVars, rotationVars, memory, history
<1>2. CASE Next
  BY <1>2, StartTypes, FreezeTypes, PrepareTypes, CatalogTypes, ListingTypes, FeesTypes,
     LastTypes DEF Next, Worker, Preparation, Recovery
<1> QED
  BY <1>1, <1>2

-----------------------------------------------------------------------------
(* The phase and what the worker does next.                                 *)

LEMMA StepPhases ==
  ASSUME TypeOK, PhaseFits, [Next]_vars
  PROVE  PhaseFits'
<1>1. CASE UNCHANGED vars
  BY <1>1 DEF vars, PhaseFits, countVars
<1>2. CASE Resume
  BY <1>2 DEF Resume, PhaseFits, countVars
<1>3. CASE Preparation
  BY <1>3 DEF Preparation, FreezeSelection, CreateJob, PrepareBatch, CompletePreparation,
     Goes, PhaseFits, countVars
<1>4. CASE Recovery
  BY <1>4 DEF Recovery, Begin, ReplayRotation, RequeueIncomplete, Goes, PhaseFits, countVars
<1>5. CASE FetchCatalog \/ CommitCatalog \/ CommitRotation \/ GiveUp \/ CatalogDone
  BY <1>5 DEF FetchCatalog, CommitCatalog, CommitRotation, GiveUp, CatalogDone, Goes,
     Leaves, PhaseFits, countVars
<1>6. CASE Gate
  <2>1. /\ pc' = Loop[phase'] /\ reg' = reg /\ reg = "running" /\ prepared' = prepared
        /\ prepared /\ phase' \in Phase
    BY <1>6 DEF Gate, Enters, Goes, PhaseFits, TypeOK, Phase, countVars
  <2> QED
    BY <2>1 DEF Loop, Phase, PhaseFits
<1>7. CASE Filter
  BY <1>7 DEF Filter, FilterBatch, FilterDone, Enters, Goes, PhaseFits, countVars
<1>8. CASE Pricing
  BY <1>8 DEF Pricing, ReconcileDuplicates, FetchPrices, CommitPrices, PricingDone, Enters,
     Goes, PhaseFits, countVars
<1>9. CASE CompetitionPass
  BY <1>9 DEF CompetitionPass, ObserveBatch, SettleBatch, CompetitionDone, Enters, Goes,
     PhaseFits, countVars
<1>10. CASE Fees
  BY <1>10 DEF Fees, FetchFees, FeeWave, FeeOutage, FeesPending, FeesDone, Enters, Goes,
     Leaves, PhaseFits, countVars
<1>11. CASE Economics \/ HandOff
  BY <1>11 DEF Economics, EconomicsBatch, EconomicsDone, HandOff, SaveComputed,
     PrepareFinalization, ReturnSummary, Enters, Goes, Leaves, PhaseFits, countVars
<1>12. CASE Dies \/ Pause
  BY <1>12 DEF Dies, Pause, PausePoint, Leaves, PhaseFits, countVars
<1>13. CASE FinalizerCompletes \/ FinalizerFails
  BY <1>13 DEF FinalizerCompletes, FinalizerFails, PhaseFits, countVars
<1> QED
  BY <1>1, <1>2, <1>3, <1>4, <1>5, <1>6, <1>7, <1>8, <1>9, <1>10, <1>11, <1>12, <1>13
  DEF Next, Worker, Catalog

-----------------------------------------------------------------------------
(* What the actions do to the items, the listings and the fees.             *)

\* One batch of the preparation.
LEMMA PreparedItems ==
  ASSUME TypeOK, QueueFits, PrepareBatch
  PROVE  \E new \in SUBSET Item :
           /\ \A i \in new : seq'[i] # Null
           /\ \A i \in Item \ new : seq'[i] = seq[i] /\ cat'[i] = cat[i]
           /\ \A i \in new : cat'[i] = IF i \in Cached THEN "definitive" ELSE "null"
           /\ \A i \in Item, a \in Asin :
                listing'[i][a] = IF i \in new \cap Cached /\ a \in Listing[i]
                                 THEN "found" ELSE listing[i][a]
           /\ answered' = answered \cup (new \cap Cached)
<1> DEFINE n == IF Len(queue) < Batch THEN Len(queue) ELSE Batch
           place(i) == {k \in 1..n : queue[k] = i}
           new == {i \in Item : place(i) # {}}
<1>1. n \in Nat /\ selected \in Nat
  <2>1. queue \in Seq(Item) /\ selected \in 0..Count
    BY DEF TypeOK
  <2> QED
    BY <2>1, Constants
<1>2. /\ seq' = [i \in Item |-> IF i \in new
                   THEN selected - 1 + (CHOOSE k \in place(i) : TRUE) ELSE seq[i]]
      /\ cat' = [i \in Item |-> IF i \notin new THEN cat[i]
                   ELSE IF i \in Cached THEN "definitive" ELSE "null"]
      /\ listing' = [i \in Item |-> [a \in Asin |->
                       IF i \in new \cap Cached /\ a \in Listing[i]
                       THEN "found" ELSE listing[i][a]]]
      /\ answered' = answered \cup (new \cap Cached)
  <2>1. /\ cat' = [i \in Item |-> IF i \notin new THEN cat[i]
                     ELSE IF i \in Reused THEN "definitive" ELSE "null"]
        /\ listing' = [i \in Item |-> [a \in Asin |->
                         IF i \in new \cap Reused /\ a \in CacheRow(i).listings
                         THEN "found" ELSE listing[i][a]]]
        /\ answered' = answered \cup (new \cap Reused)
        /\ seq' = [i \in Item |-> IF i \in new
                     THEN selected - 1 + (CHOOSE k \in place(i) : TRUE) ELSE seq[i]]
    BY DEF PrepareBatch
  <2> HIDE DEF n, place, new
  <2>2. \A i \in Item, a \in Asin :
          (i \in new \cap Reused /\ a \in CacheRow(i).listings)
            <=> (i \in new \cap Cached /\ a \in Listing[i])
    BY CacheReuse
  <2>3. listing' = [i \in Item |-> [a \in Asin |->
                       IF i \in new \cap Cached /\ a \in Listing[i]
                       THEN "found" ELSE listing[i][a]]]
    BY <2>1, <2>2
  <2> QED
    BY <2>1, <2>3, CacheReuse
<1>3. \A i \in new : selected - 1 + (CHOOSE k \in place(i) : TRUE) \in Nat
  <2> SUFFICES ASSUME NEW i \in new
               PROVE  selected - 1 + (CHOOSE k \in place(i) : TRUE) \in Nat
    OBVIOUS
  <2>1. place(i) # {} /\ place(i) \subseteq 1..n
    OBVIOUS
  <2>2. (CHOOSE k \in place(i) : TRUE) \in 1..n
    BY <2>1
  <2> QED
    BY <1>1, <2>2
<1>4. Null \notin Nat /\ new \in SUBSET Item
  BY DEF Null
<1>5. \A i \in new : seq'[i] # Null
  BY <1>2, <1>3, <1>4
<1>6. /\ \A i \in Item \ new : seq'[i] = seq[i] /\ cat'[i] = cat[i]
      /\ \A i \in new : cat'[i] = IF i \in Cached THEN "definitive" ELSE "null"
      /\ \A i \in Item, a \in Asin :
           listing'[i][a] = IF i \in new \cap Cached /\ a \in Listing[i]
                            THEN "found" ELSE listing[i][a]
  BY <1>2
<1> HIDE DEF n, place, new
<1> QED
  BY <1>2, <1>4, <1>5, <1>6

\* Only preparation, Catalog and a requeue touch the items.
ItemsKept == UNCHANGED <<seq, cat, answered, prepared>>

LEMMA ItemSteps ==
  ASSUME [Next]_vars, ~PrepareBatch, ~CompletePreparation, ~CommitCatalog,
         ~RequeueIncomplete
  PROVE  ItemsKept
<1>1. CASE UNCHANGED vars
  BY <1>1 DEF vars, ItemsKept, itemVars, countVars, history
<1>2. CASE Resume \/ FreezeSelection \/ CreateJob \/ Begin \/ ReplayRotation
  BY <1>2 DEF Resume, FreezeSelection, CreateJob, Begin, ReplayRotation, ItemsKept,
     itemVars, countVars, history
<1>3. CASE FetchCatalog \/ CommitRotation \/ GiveUp \/ CatalogDone \/ Gate
  BY <1>3 DEF FetchCatalog, CommitRotation, GiveUp, CatalogDone, Gate, ItemsKept,
     itemVars, countVars, history
<1>4. CASE Filter \/ Pricing
  BY <1>4 DEF Filter, Pricing, FilterBatch, FilterDone, ReconcileDuplicates, FetchPrices,
     CommitPrices, PricingDone, ItemsKept, itemVars, countVars, history
<1>5. CASE CompetitionPass \/ Fees
  BY <1>5 DEF CompetitionPass, ObserveBatch, SettleBatch, CompetitionDone, Fees, FetchFees,
     FeeWave, FeeOutage, FeesPending, FeesDone, ItemsKept, itemVars, countVars, history
<1>6. CASE Economics \/ HandOff
  BY <1>6 DEF Economics, EconomicsBatch, EconomicsDone, HandOff, SaveComputed,
     PrepareFinalization, ReturnSummary, ItemsKept, itemVars, countVars, history
<1>7. CASE Dies \/ Pause \/ FinalizerCompletes \/ FinalizerFails
  BY <1>7 DEF Dies, Pause, FinalizerCompletes, FinalizerFails, ItemsKept, itemVars,
     countVars, history
<1> QED
  BY <1>1, <1>2, <1>3, <1>4, <1>5, <1>6, <1>7
  DEF Next, Worker, Preparation, Recovery, Catalog

\* The worker commits Catalog answers only after it fetched them.
LEMMA CommitAfterFetch ==
  ASSUME TypeOK, PhaseFits, [Next]_vars, pc' = "commit"
  PROVE  FetchCatalog \/ UNCHANGED vars
<1>1. CASE Resume \/ Preparation \/ Recovery
  BY <1>1 DEF Resume, Preparation, FreezeSelection, CreateJob, PrepareBatch,
     CompletePreparation, Recovery, Begin, ReplayRotation, RequeueIncomplete, Goes
<1>2. CASE CommitCatalog \/ CommitRotation \/ GiveUp \/ CatalogDone
  BY <1>2 DEF CommitCatalog, CommitRotation, GiveUp, CatalogDone, Goes, Leaves
<1>3. CASE Gate
  <2>1. pc' = Loop[phase'] /\ phase' \in Phase
    BY <1>3 DEF Gate, Enters, Goes, TypeOK, Phase
  <2> QED
    BY <2>1 DEF Loop, Phase
<1>4. CASE Filter \/ Pricing
  BY <1>4 DEF Filter, Pricing, FilterBatch, FilterDone, ReconcileDuplicates, FetchPrices,
     CommitPrices, PricingDone, Enters, Goes
<1>5. CASE CompetitionPass \/ Fees
  BY <1>5 DEF CompetitionPass, ObserveBatch, SettleBatch, CompetitionDone, Fees, FetchFees,
     FeeWave, FeeOutage, FeesPending, FeesDone, Enters, Goes, Leaves
<1>6. CASE Economics \/ HandOff
  BY <1>6 DEF Economics, EconomicsBatch, EconomicsDone, HandOff, SaveComputed,
     PrepareFinalization, ReturnSummary, Enters, Goes, Leaves
<1>7. CASE Dies \/ Pause
  BY <1>7 DEF Dies, Pause, Leaves
<1>8. CASE FinalizerCompletes \/ FinalizerFails
  BY <1>8 DEF FinalizerCompletes, FinalizerFails, PhaseFits
<1> QED
  BY <1>1, <1>2, <1>3, <1>4, <1>5, <1>6, <1>7, <1>8 DEF Next, Worker, Catalog
-----------------------------------------------------------------------------
(* The answers.                                                             *)

LEMMA AnswersPrepare ==
  ASSUME TypeOK, QueueFits, PhaseFits, AnswersKept, PrepareBatch
  PROVE  AnswersKept' /\ Stored \subseteq Stored'
<1>1. PICK new \in SUBSET Item :
        /\ \A i \in new : seq'[i] # Null
        /\ \A i \in Item \ new : seq'[i] = seq[i] /\ cat'[i] = cat[i]
        /\ \A i \in new : cat'[i] = IF i \in Cached THEN "definitive" ELSE "null"
        /\ answered' = answered \cup (new \cap Cached)
  BY PreparedItems
<1>2. answered \subseteq Cached /\ answered \subseteq Definitive
  BY DEF AnswersKept, PhaseFits, PrepareBatch
<1>3. Stored \subseteq Stored'
  BY <1>1 DEF Stored
<1>4. \A i \in answered' : i \in Item /\ i \in Cached
  BY <1>1, <1>2, Constants
<1>5. answered' \subseteq Definitive'
  BY <1>1, <1>2, <1>4 DEF Definitive, Stored
<1>6. pc' = "prepare"
  BY DEF PrepareBatch, Goes
<1> QED
  BY <1>3, <1>4, <1>5, <1>6 DEF AnswersKept

LEMMA AnswersCommit ==
  ASSUME TypeOK, PhaseFits, AnswersKept, CommitCatalog
  PROVE  /\ AnswersKept' /\ Stored' = Stored
         /\ Definitive' \subseteq Definitive \cup batch
<1>1. PICK incomplete \in SUBSET batch :
        /\ cat' = [i \in Item |-> IF i \in batch \ incomplete THEN "definitive"
                                  ELSE IF i \in incomplete THEN "incomplete" ELSE cat[i]]
        /\ answered' = answered \cup (batch \ incomplete)
  BY DEF CommitCatalog
<1>2. /\ batch \subseteq PendingItems /\ answered \subseteq Definitive
      /\ prepared /\ prepared' = prepared /\ seq' = seq /\ pc' = "rotate"
  BY DEF CommitCatalog, AnswersKept, PhaseFits
<1>3. Stored' = Stored
  BY <1>2 DEF Stored
<1>4. batch \subseteq Stored /\ batch \cap Definitive = {}
  BY <1>2 DEF PendingItems, Definitive
<1>5. \A i \in answered' : i \in Stored /\ cat'[i] = "definitive"
  BY <1>1, <1>2, <1>4 DEF Definitive, Stored
<1>6. Definitive' \subseteq Definitive \cup batch
  BY <1>1, <1>3 DEF Definitive, Stored
<1> QED
  BY <1>2, <1>3, <1>5, <1>6 DEF AnswersKept, Definitive

LEMMA AnswersRequeue ==
  ASSUME TypeOK, PhaseFits, AnswersKept, RequeueIncomplete
  PROVE  AnswersKept' /\ Stored' = Stored /\ Definitive' = Definitive
<1>1. /\ cat' = [i \in Item |-> IF cat[i] = "incomplete" THEN "null" ELSE cat[i]]
      /\ pc' = "catalog" /\ UNCHANGED <<seq, answered, prepared>> /\ prepared
  BY DEF RequeueIncomplete, Goes, PhaseFits, countVars, history, AnswersKept
<1>2. Stored' = Stored
  BY <1>1 DEF Stored
<1>3. Definitive' = Definitive
  BY <1>1, <1>2 DEF Definitive, Stored
<1> QED
  BY <1>1, <1>2, <1>3 DEF AnswersKept

\* Whatever a step does, what was answered stays definitive.
LEMMA StepAnswers ==
  ASSUME TypeOK, QueueFits, PhaseFits, AnswersKept, [Next]_vars
  PROVE  AnswersKept'
<1>1. CASE PrepareBatch
  BY <1>1, AnswersPrepare
<1>2. CASE CommitCatalog
  BY <1>2, AnswersCommit
<1>3. CASE RequeueIncomplete
  BY <1>3, AnswersRequeue
<1>4. CASE CompletePreparation
  <2>1. UNCHANGED <<seq, cat, answered>> /\ prepared' /\ pc' = "begin"
    BY <1>4 DEF CompletePreparation, itemVars, history, Goes
  <2> QED
    BY <2>1 DEF AnswersKept, Definitive, Stored
<1>5. CASE ~PrepareBatch /\ ~CompletePreparation /\ ~CommitCatalog /\ ~RequeueIncomplete
  <2>1. UNCHANGED <<seq, cat, answered, prepared>>
    BY <1>5, ItemSteps DEF ItemsKept
  <2>2. Definitive' = Definitive /\ PendingItems' = PendingItems
    BY <2>1 DEF Definitive, PendingItems, Stored
  <2>3. ASSUME pc' = "commit" PROVE batch' \subseteq PendingItems'
    <3>1. CASE FetchCatalog
      BY <3>1, <2>2, PageOf DEF FetchCatalog
    <3>2. CASE UNCHANGED vars
      BY <3>2, <2>2, <2>3 DEF vars, memory, AnswersKept
    <3> QED
      BY <2>3, <3>1, <3>2, CommitAfterFetch
  <2> QED
    BY <2>1, <2>2, <2>3 DEF AnswersKept
<1> QED
  BY <1>1, <1>2, <1>3, <1>4, <1>5

-----------------------------------------------------------------------------
(* The rotation store.                                                      *)

\* Before the replay a resume may owe the rotation store an analysis.
Owing == {"off", "freeze", "create", "prepare", "begin", "replay", "rotate"}

LEMMA RotatedEarly ==
  ASSUME TypeOK, QueueFits, PhaseFits, AnswersKept, Rotated,
         Resume \/ Preparation \/ Recovery
  PROVE  Rotated'
<1>1. CASE PrepareBatch
  BY <1>1 DEF PrepareBatch, Goes, PhaseFits, Rotated, BsrDone, PricesDone
<1>2. CASE RequeueIncomplete
  BY <1>2, AnswersRequeue DEF RequeueIncomplete, Goes, rotationVars, memory, Rotated
<1>3. CASE ReplayRotation
  <2>1. Definitive' = Definitive /\ Definitive \subseteq analyzed' /\ pc' = "requeue"
    BY <1>3 DEF ReplayRotation, itemVars, Definitive, Stored, Goes
  <2> QED
    BY <2>1 DEF Rotated
<1>4. CASE Resume \/ Begin
  <2>1. Definitive' = Definitive /\ analyzed' = analyzed
        /\ (phase' = phase \/ phase = "fees_pending") /\ pc' \in {"begin", "freeze", "replay"}
    BY <1>4 DEF Resume, Begin, itemVars, rotationVars, Definitive, Stored, Goes
  <2> QED
    BY <2>1 DEF Rotated, BsrDone, PricesDone
<1>5. CASE FreezeSelection \/ CreateJob \/ CompletePreparation
  <2>1. phase' \in {phase, "preparing", "suppliers_loaded"}
        /\ pc' \in {"create", "prepare", "begin"} /\ phase \notin BsrDone
    BY <1>5 DEF FreezeSelection, CreateJob, CompletePreparation, Goes, PhaseFits, BsrDone,
       PricesDone
  <2> QED
    BY <2>1 DEF Rotated, BsrDone, PricesDone
<1> QED
  BY <1>1, <1>2, <1>3, <1>4, <1>5 DEF Preparation, Recovery

LEMMA RotatedCatalog ==
  ASSUME TypeOK, QueueFits, PhaseFits, AnswersKept, Rotated, Catalog
  PROVE  Rotated'
<1>1. CASE CommitCatalog
  <2>1. /\ Definitive' \subseteq Definitive \cup batch
        /\ pc = "commit" /\ pc' = "rotate" /\ phase' \notin BsrDone
        /\ batch' = batch /\ analyzed' = analyzed
    BY <1>1, AnswersCommit DEF CommitCatalog, memory, rotationVars, BsrDone, PricesDone
  <2> QED
    BY <2>1 DEF Rotated
<1>2. CASE CommitRotation
  <2>1. /\ Definitive' = Definitive /\ pc = "rotate"
        /\ analyzed' = analyzed \cup {i \in batch : cat[i] = "definitive"}
        /\ pc' \in {"giveup", "catalog"} /\ phase' = phase
    BY <1>2 DEF CommitRotation, itemVars, Definitive, Stored, Goes
  <2>2. Definitive' \subseteq analyzed'
    BY <2>1 DEF Rotated, Definitive
  <2> QED
    BY <2>1, <2>2 DEF Rotated
<1>3. CASE FetchCatalog \/ GiveUp \/ CatalogDone \/ Gate
  <2>1. /\ Definitive' = Definitive /\ analyzed' = analyzed
        /\ pc \in {"catalog", "giveup", "gate"}
    BY <1>3 DEF FetchCatalog, GiveUp, CatalogDone, Gate, itemVars, rotationVars, Definitive,
       Stored
  <2>2. Definitive' \subseteq analyzed'
    BY <2>1 DEF Rotated
  <2> QED
    BY <2>2 DEF Rotated
<1> QED
  BY <1>1, <1>2, <1>3 DEF Catalog
LEMMA RotatedLate ==
  ASSUME TypeOK, PhaseFits, Rotated,
         Filter \/ Pricing \/ CompetitionPass \/ Fees \/ Economics \/ HandOff
  PROVE  Rotated'
<1>1. Definitive' = Definitive /\ analyzed' = analyzed /\ pc \notin Owing
  <2>1. CASE Filter \/ Pricing
    BY <2>1 DEF Filter, Pricing, FilterBatch, FilterDone, ReconcileDuplicates, FetchPrices,
       CommitPrices, PricingDone, itemVars, rotationVars, Definitive, Stored, Owing
  <2>2. CASE CompetitionPass \/ Fees
    BY <2>2 DEF CompetitionPass, ObserveBatch, SettleBatch, CompetitionDone, Fees, FetchFees,
       FeeWave, FeeOutage, FeesPending, FeesDone, itemVars, rotationVars, Definitive, Stored,
       Owing
  <2>3. CASE Economics \/ HandOff
    BY <2>3 DEF Economics, EconomicsBatch, EconomicsDone, HandOff, SaveComputed,
       PrepareFinalization, ReturnSummary, itemVars, rotationVars, Definitive, Stored, Owing
  <2> QED
    BY <2>1, <2>2, <2>3
<1>2. Definitive' \subseteq analyzed'
  BY <1>1 DEF Rotated, Owing
<1> QED
  BY <1>2 DEF Rotated

LEMMA StepRotated ==
  ASSUME TypeOK, QueueFits, PhaseFits, AnswersKept, Rotated, [Next]_vars
  PROVE  Rotated'
<1>1. CASE UNCHANGED vars
  BY <1>1 DEF vars, itemVars, rotationVars, memory, Rotated, Definitive, Stored
<1>2. CASE Dies \/ Pause \/ FinalizerCompletes \/ FinalizerFails
  <2>1. /\ Definitive' = Definitive /\ analyzed' = analyzed /\ pc' = "off"
        /\ phase' \in BsrDone => phase \in BsrDone
    BY <1>2 DEF Dies, Pause, FinalizerCompletes, FinalizerFails, Leaves, PhaseFits, itemVars,
       rotationVars, Definitive, Stored, BsrDone, PricesDone
  <2> QED
    BY <2>1 DEF Rotated
<1> QED
  BY <1>1, <1>2, RotatedEarly, RotatedCatalog, RotatedLate DEF Next, Worker

-----------------------------------------------------------------------------
(* The verdicts.                                                            *)

\* Only preparation, Catalog, the filters and the competition pass judge.
LEMMA VerdictSteps ==
  ASSUME [Next]_vars, ~PrepareBatch, ~CommitCatalog, ~FilterBatch, ~SettleBatch
  PROVE  listing' = listing
<1>1. CASE UNCHANGED vars
  BY <1>1 DEF vars, itemVars
<1>2. CASE Resume \/ Preparation \/ Recovery
  BY <1>2 DEF Resume, Preparation, FreezeSelection, CreateJob, CompletePreparation,
     Recovery, Begin, ReplayRotation, RequeueIncomplete, itemVars
<1>3. CASE Catalog
  BY <1>3 DEF Catalog, FetchCatalog, CommitRotation, GiveUp, CatalogDone, Gate, itemVars
<1>4. CASE Filter \/ Pricing
  BY <1>4 DEF Filter, Pricing, FilterDone, ReconcileDuplicates, FetchPrices, CommitPrices,
     PricingDone, itemVars
<1>5. CASE CompetitionPass \/ Fees
  BY <1>5 DEF CompetitionPass, ObserveBatch, CompetitionDone, Fees, FetchFees, FeeWave,
     FeeOutage, FeesPending, FeesDone, itemVars
<1>6. CASE Economics \/ HandOff
  BY <1>6 DEF Economics, EconomicsBatch, EconomicsDone, HandOff, SaveComputed,
     PrepareFinalization, ReturnSummary, itemVars
<1>7. CASE Dies \/ Pause \/ FinalizerCompletes \/ FinalizerFails
  BY <1>7 DEF Dies, Pause, FinalizerCompletes, FinalizerFails, itemVars
<1> QED
  BY <1>1, <1>2, <1>3, <1>4, <1>5, <1>6, <1>7 DEF Next, Worker

\* A pass over the filters begins with every item, and the phase follows it.
LEMMA FilterSteps ==
  ASSUME TypeOK, PhaseFits, [Next]_vars, ~FilterBatch
  PROVE  /\ pc' = "filter" => \/ pc = "filter" /\ todo' = todo
                              \/ todo' = Stored /\ seq' = seq
         /\ phase' = "bsr_filtered" => \/ phase = "bsr_filtered"
                                       \/ pc = "filter" /\ todo = {}
<1>1. CASE UNCHANGED vars
  BY <1>1 DEF vars, memory
<1>2. CASE Resume \/ Preparation \/ Recovery
  BY <1>2 DEF Resume, Preparation, FreezeSelection, CreateJob, PrepareBatch,
     CompletePreparation, Recovery, Begin, ReplayRotation, RequeueIncomplete, Goes
<1>3. CASE FetchCatalog \/ CommitCatalog \/ CommitRotation \/ GiveUp \/ CatalogDone
  BY <1>3 DEF FetchCatalog, CommitCatalog, CommitRotation, GiveUp, CatalogDone, Goes, Leaves
<1>4. CASE Gate
  <2>1. /\ pc' = Loop[phase'] /\ phase' \in Phase /\ seq' = seq
        /\ phase' = "bsr_filtered" => phase = "bsr_filtered"
        /\ todo' = IF pc' \in {"filter", "observe", "economics"} THEN Stored ELSE {}
    BY <1>4 DEF Gate, Enters, Goes, TypeOK, Phase, itemVars
  <2> QED
    BY <2>1
<1>5. CASE Filter
  BY <1>5 DEF Filter, FilterDone, Enters, Goes
<1>6. CASE Pricing
  BY <1>6 DEF Pricing, ReconcileDuplicates, FetchPrices, CommitPrices, PricingDone, Enters,
     Goes
<1>7. CASE CompetitionPass \/ Fees
  BY <1>7 DEF CompetitionPass, ObserveBatch, SettleBatch, CompetitionDone, Fees, FetchFees,
     FeeWave, FeeOutage, FeesPending, FeesDone, Enters, Goes, Leaves
<1>8. CASE Economics \/ HandOff
  BY <1>8 DEF Economics, EconomicsBatch, EconomicsDone, HandOff, SaveComputed,
     PrepareFinalization, ReturnSummary, Enters, Goes, Leaves
<1>9. CASE Dies \/ Pause
  BY <1>9 DEF Dies, Pause, Leaves
<1>10. CASE FinalizerCompletes \/ FinalizerFails
  BY <1>10 DEF FinalizerCompletes, FinalizerFails, PhaseFits
<1> QED
  BY <1>1, <1>2, <1>3, <1>4, <1>5, <1>6, <1>7, <1>8, <1>9, <1>10 DEF Next, Worker, Catalog
\* No identity leaves the job, and only preparation adds one.
LEMMA StoredSteps ==
  ASSUME [Next]_vars, ~PrepareBatch
  PROVE  seq' = seq /\ Stored' = Stored
<1>1. CASE CommitCatalog \/ RequeueIncomplete \/ CompletePreparation
  BY <1>1 DEF CommitCatalog, RequeueIncomplete, CompletePreparation, itemVars, Stored
<1>2. CASE ~(CommitCatalog \/ RequeueIncomplete \/ CompletePreparation)
  BY <1>2, ItemSteps DEF ItemsKept, Stored
<1> QED
  BY <1>1, <1>2

LEMMA StepJudged ==
  ASSUME TypeOK, QueueFits, PhaseFits, AnswersKept, Judged, [Next]_vars
  PROVE  Judged'
<1>1. CASE PrepareBatch
  <2>1. PICK new \in SUBSET Item :
          /\ \A i \in new : seq'[i] # Null
          /\ \A i \in Item \ new : seq'[i] = seq[i]
          /\ \A i \in Item, a \in Asin :
               listing'[i][a] = IF i \in new \cap Cached /\ a \in Listing[i]
                                THEN "found" ELSE listing[i][a]
    BY <1>1, PreparedItems
  <2>2. pc' = "prepare" /\ phase' # "bsr_filtered"
    BY <1>1 DEF PrepareBatch, Goes, PhaseFits
  <2>3. ASSUME NEW i \in Item, NEW a \in Asin, i \notin Stored'
        PROVE  listing'[i][a] = "none"
    <3>1. i \notin new /\ i \notin Stored
      BY <2>1, <2>3 DEF Stored
    <3> QED
      BY <2>1, <3>1 DEF Judged
  <2> QED
    BY <2>2, <2>3 DEF Judged
<1>2. CASE CommitCatalog
  <2>1. batch \subseteq Stored
    BY <1>2 DEF CommitCatalog, AnswersKept, PendingItems
  <2>2. \A i \in Item : i \notin batch => listing'[i] = listing[i]
    BY <1>2 DEF CommitCatalog
  <2>3. pc' = "rotate" /\ phase' # "bsr_filtered"
    BY <1>2 DEF CommitCatalog
  <2>4. Stored' = Stored
    BY <1>2, AnswersCommit
  <2> QED
    BY <2>1, <2>2, <2>3, <2>4 DEF Judged
<1>3. CASE FilterBatch
  <2>1. \A i \in Item, a \in Asin :
          /\ listing[i][a] = "none" => listing'[i][a] = "none"
          /\ i \in FirstItems(todo) => listing'[i][a] \in {"none", "bsr_passed", "bsr_filtered"}
          /\ i \notin FirstItems(todo) => listing'[i][a] = listing[i][a]
    BY <1>3 DEF FilterBatch, TypeOK
  <2>2. /\ todo' = todo \ FirstItems(todo) /\ phase' # "bsr_filtered"
        /\ pc = "filter" /\ Stored' = Stored
    BY <1>3 DEF FilterBatch, PhaseFits, Stored
  <2> QED
    BY <2>1, <2>2 DEF Judged
<1>4. CASE SettleBatch
  <2>1. \A i \in Item, a \in Asin : listing[i][a] = "none" => listing'[i][a] = "none"
    BY <1>4 DEF SettleBatch, Competition, TypeOK
  <2>2. phase' # "bsr_filtered" /\ pc' = "observe" /\ Stored' = Stored
    BY <1>4 DEF SettleBatch, Goes, PhaseFits, Stored
  <2> QED
    BY <2>1, <2>2 DEF Judged
<1>5. CASE ~PrepareBatch /\ ~CommitCatalog /\ ~FilterBatch /\ ~SettleBatch
  <2>1. listing' = listing /\ Stored' = Stored
    BY <1>5, VerdictSteps, StoredSteps
  <2>2. pc' = "filter" => (pc = "filter" /\ todo' = todo) \/ todo' = Stored
    BY <1>5, FilterSteps
  <2>3. phase' = "bsr_filtered" => phase = "bsr_filtered" \/ (pc = "filter" /\ todo = {})
    BY <1>5, FilterSteps
  <2>4. ASSUME pc' = "filter", NEW i \in Item, NEW a \in Asin, i \notin todo'
        PROVE  listing[i][a] \in {"none", "bsr_passed", "bsr_filtered"}
    BY <2>2, <2>4 DEF Judged
  <2>5. ASSUME phase' = "bsr_filtered", NEW i \in Item, NEW a \in Asin
        PROVE  listing[i][a] \in {"none", "bsr_passed", "bsr_filtered"}
    BY <2>3, <2>5 DEF Judged
  <2>6. \A i \in Item, a \in Asin : i \notin Stored' => listing'[i][a] = "none"
    BY <2>1 DEF Judged
  <2> QED
    BY <2>1, <2>4, <2>5, <2>6 DEF Judged
<1> QED
  BY <1>1, <1>2, <1>3, <1>4, <1>5

-----------------------------------------------------------------------------
(* The prices.                                                              *)

\* Where a page may get a price, and where Pricing begins or ends.
LEMMA PriceSteps ==
  ASSUME TypeOK, PhaseFits, [Next]_vars,
         ~PrepareBatch, ~CommitCatalog, ~ReconcileDuplicates, ~CommitPrices
  PROVE  /\ priced' = priced
         /\ pc' \in {"pricing", "prices"} => pc \in {"pricing", "prices"}
         /\ phase' \in PricesDone => \/ phase \in PricesDone
                                     \/ pc = "pricing" /\ PendingAsins = {}
<1>1. CASE UNCHANGED vars
  BY <1>1 DEF vars, itemVars
<1>2. CASE Resume \/ Preparation \/ Recovery
  BY <1>2 DEF Resume, Preparation, FreezeSelection, CreateJob, CompletePreparation,
     Recovery, Begin, ReplayRotation, RequeueIncomplete, Goes, itemVars, PricesDone
<1>3. CASE FetchCatalog \/ CommitRotation \/ GiveUp \/ CatalogDone
  BY <1>3 DEF FetchCatalog, CommitRotation, GiveUp, CatalogDone, Goes, Leaves, itemVars,
     PricesDone
<1>4. CASE Gate
  <2>1. /\ pc' = Loop[phase'] /\ phase' \in Phase /\ priced' = priced
        /\ phase' \in PricesDone => phase \in PricesDone
    BY <1>4 DEF Gate, Enters, Goes, TypeOK, Phase, itemVars, PricesDone
  <2> QED
    BY <2>1 DEF Loop, Phase
<1>5. CASE Filter \/ FetchPrices \/ PricingDone
  BY <1>5 DEF Filter, FilterBatch, FilterDone, FetchPrices, PricingDone, Enters, Goes,
     itemVars, PricesDone, PhaseFits
<1>6. CASE CompetitionPass \/ Fees
  BY <1>6 DEF CompetitionPass, ObserveBatch, SettleBatch, CompetitionDone, Fees, FetchFees,
     FeeWave, FeeOutage, FeesPending, FeesDone, Enters, Goes, Leaves, itemVars, PricesDone,
     PhaseFits
<1>7. CASE Economics \/ HandOff
  BY <1>7 DEF Economics, EconomicsBatch, EconomicsDone, HandOff, SaveComputed,
     PrepareFinalization, ReturnSummary, Enters, Goes, Leaves, itemVars, PricesDone, PhaseFits
<1>8. CASE Dies \/ Pause
  BY <1>8 DEF Dies, Pause, Leaves, itemVars, PricesDone
<1>9. CASE FinalizerCompletes \/ FinalizerFails
  BY <1>9 DEF FinalizerCompletes, FinalizerFails, itemVars, PricesDone, PhaseFits
<1> QED
  BY <1>1, <1>2, <1>3, <1>4, <1>5, <1>6, <1>7, <1>8, <1>9
  DEF Next, Worker, Catalog, Pricing
LEMMA PricesReconcile ==
  ASSUME TypeOK, PhaseFits, PricesShared, ReconcileDuplicates
  PROVE  PricesShared'
<1>1. PICK some \in SUBSET Twins : priced' = priced \cup some
  BY DEF ReconcileDuplicates
<1>2. /\ phase' = phase /\ phase \notin PricesDone /\ listing' = listing
      /\ pc' = IF Twins = {} THEN "pricing" ELSE "reconcile"
  BY DEF ReconcileDuplicates, Goes, PhaseFits, PricesDone
<1>3. ASSUME Twins = {} PROVE Twins' = {}
  <2>1. priced' = priced
    BY <1>1, <1>3
  <2> QED
    BY <1>2, <1>3, <2>1 DEF Twins, Unpriced, HasPrice
<1> QED
  BY <1>2, <1>3 DEF PricesShared

\* The answer to a request prices every listing of its pages, so it leaves no
\* other listing behind with a twin that has a price.
LEMMA PricesCommit ==
  ASSUME TypeOK, PhaseFits, PricesShared, CommitPrices
  PROVE  PricesShared'
<1>1. /\ priced' = priced \cup {l \in Unpriced : l[2] \in asins}
      /\ listing' = listing /\ phase' = phase /\ phase \notin PricesDone
  BY DEF CommitPrices, PhaseFits, PricesDone
<1>2. Twins = {}
  BY DEF PricesShared, CommitPrices
<1>3. ASSUME NEW l \in Item \X Asin, l \in Twins' PROVE FALSE
  <2>1. l \in Unpriced'
    BY <1>3 DEF Twins
  <2>2. l \in Unpriced /\ l \notin priced'
    BY <1>1, <2>1 DEF Unpriced
  <2>3. l[2] \notin asins
    BY <1>1, <2>2
  <2>4. PICK i \in Item : <<i, l[2]>> \in priced'
    BY <1>3 DEF Twins, HasPrice
  <2>5. <<i, l[2]>> \in priced
    BY <1>1, <2>3, <2>4
  <2> QED
    BY <1>2, <2>2, <2>5 DEF Twins, HasPrice
<1>4. Twins' = {}
  BY <1>3 DEF Twins, Unpriced
<1> QED
  BY <1>1, <1>4 DEF PricesShared

LEMMA StepPrices ==
  ASSUME TypeOK, PhaseFits, Judged, PricesShared, [Next]_vars
  PROVE  PricesShared'
<1>1. CASE PrepareBatch
  <2>1. pc' = "prepare" /\ phase' \notin PricesDone
    BY <1>1 DEF PrepareBatch, Goes, PhaseFits, PricesDone
  <2> QED
    BY <2>1 DEF PricesShared
<1>2. CASE CommitCatalog
  <2>1. pc' = "rotate" /\ phase' \notin PricesDone
    BY <1>2 DEF CommitCatalog, PricesDone
  <2> QED
    BY <2>1 DEF PricesShared
<1>3. CASE ReconcileDuplicates
  BY <1>3, PricesReconcile
<1>4. CASE CommitPrices
  BY <1>4, PricesCommit
<1>5. CASE FilterBatch
  <2>1. pc' = "filter" /\ phase' \notin PricesDone
    BY <1>5 DEF FilterBatch, Goes, PhaseFits, PricesDone
  <2> QED
    BY <2>1 DEF PricesShared
<1>6. CASE SettleBatch
  <2>1. /\ pc' = "observe" /\ phase' = phase /\ phase \in PricesDone /\ priced' = priced
    BY <1>6 DEF SettleBatch, Goes, PhaseFits, PricesDone
  <2>2. ASSUME NEW i \in Item, NEW a \in Asin,
               listing'[i][a] \in {"bsr_passed", "competition_passed", "competition_filtered"}
        PROVE  listing[i][a] \in {"bsr_passed", "competition_passed", "competition_filtered"}
    BY <1>6, <2>2 DEF SettleBatch, Competition, TypeOK
  <2> QED
    BY <2>1, <2>2 DEF PricesShared
<1>7. CASE ~PrepareBatch /\ ~CommitCatalog /\ ~ReconcileDuplicates /\ ~CommitPrices
           /\ ~FilterBatch /\ ~SettleBatch
  <2>1. listing' = listing
    BY <1>7, VerdictSteps
  <2>2. /\ priced' = priced
        /\ pc' \in {"pricing", "prices"} => pc \in {"pricing", "prices"}
        /\ phase' \in PricesDone => \/ phase \in PricesDone
                                    \/ pc = "pricing" /\ PendingAsins = {}
    BY <1>7, PriceSteps
  <2>3. Twins' = Twins
    BY <2>1, <2>2 DEF Twins, Unpriced, HasPrice
  <2>4. ASSUME phase \notin PricesDone, phase' \in PricesDone, NEW i \in Item, NEW a \in Asin,
               listing[i][a] \in {"bsr_passed", "competition_passed", "competition_filtered"}
        PROVE  <<i, a>> \in priced
    <3>1. pc = "pricing" /\ PendingAsins = {}
      BY <2>2, <2>4
    <3>2. phase = "bsr_filtered" /\ Twins = {}
      BY <3>1 DEF PhaseFits, PricesShared
    <3>3. listing[i][a] = "bsr_passed"
      BY <2>4, <3>2 DEF Judged
    <3> SUFFICES ASSUME <<i, a>> \notin priced PROVE FALSE
      OBVIOUS
    <3>4. <<i, a>> \in Unpriced
      BY <3>3 DEF Unpriced
    <3>5. CASE HasPrice(a)
      BY <3>2, <3>4, <3>5 DEF Twins
    <3>6. CASE ~HasPrice(a)
      BY <3>1, <3>4, <3>6 DEF PendingAsins
    <3> QED
      BY <3>5, <3>6
  <2>5. pc' \in {"pricing", "prices"} => Twins' = {}
    BY <2>2, <2>3 DEF PricesShared
  <2>6. ASSUME phase' \in PricesDone, NEW i \in Item, NEW a \in Asin,
               listing'[i][a] \in {"bsr_passed", "competition_passed", "competition_filtered"}
        PROVE  <<i, a>> \in priced'
    BY <2>1, <2>2, <2>4, <2>6 DEF PricesShared
  <2> QED
    BY <2>5, <2>6 DEF PricesShared
<1> QED
  BY <1>1, <1>2, <1>3, <1>4, <1>5, <1>6, <1>7

-----------------------------------------------------------------------------
(* No incomplete answer is left behind, and no page is quoted twice.         *)

LEMMA StepSettled ==
  ASSUME TypeOK, PhaseFits, AnswersKept, CatalogSettled, [Next]_vars
  PROVE  CatalogSettled'
<1>1. CASE PrepareBatch \/ CompletePreparation
  <2>1. pc' \in {"prepare", "begin"}
    BY <1>1 DEF PrepareBatch, CompletePreparation, Goes
  <2> QED
    BY <2>1 DEF CatalogSettled
<1>2. CASE CommitCatalog
  <2>1. /\ \A i \in Item \ batch : cat'[i] = cat[i]
        /\ pc = "commit" /\ pc' = "rotate" /\ batch' = batch
    BY <1>2 DEF CommitCatalog, memory
  <2> QED
    BY <2>1 DEF CatalogSettled
<1>3. CASE RequeueIncomplete
  <2>1. /\ cat' = [i \in Item |-> IF cat[i] = "incomplete" THEN "null" ELSE cat[i]]
        /\ pc' = "catalog"
    BY <1>3 DEF RequeueIncomplete, Goes
  <2> QED
    BY <2>1 DEF CatalogSettled
<1>4. CASE ~PrepareBatch /\ ~CompletePreparation /\ ~CommitCatalog /\ ~RequeueIncomplete
  <2>1. cat' = cat /\ Stored' = Stored /\ Definitive' = Definitive
    BY <1>4, ItemSteps DEF ItemsKept, Stored, Definitive
  <2>2. CASE UNCHANGED vars
    BY <2>1, <2>2 DEF vars, memory, CatalogSettled
  <2>3. CASE Resume \/ FreezeSelection \/ CreateJob \/ Begin \/ ReplayRotation
    <3>1. pc' \in {"begin", "freeze", "create", "prepare", "replay", "requeue"}
      BY <2>3 DEF Resume, FreezeSelection, CreateJob, Begin, ReplayRotation, Goes
    <3> QED
      BY <3>1 DEF CatalogSettled
  <2>4. CASE FetchCatalog \/ GiveUp
    BY <2>1, <2>4 DEF FetchCatalog, GiveUp, Goes, Leaves, CatalogSettled
  <2>5. CASE CommitRotation
    <3>1. /\ pc = "rotate"
          /\ pc' = IF \E i \in batch : cat[i] = "incomplete" THEN "giveup" ELSE "catalog"
      BY <2>5 DEF CommitRotation, Goes
    <3> QED
      BY <2>1, <3>1 DEF CatalogSettled
  <2>6. CASE CatalogDone
    <3>1. pc = "catalog" /\ pc' = "gate" /\ PendingItems = {}
      BY <2>6 DEF CatalogDone, Goes
    <3>2. \A i \in Stored : cat[i] \notin {"incomplete", "null"}
      BY <3>1 DEF CatalogSettled, PendingItems, Stored
    <3>3. Stored \subseteq Definitive
      BY <3>2 DEF TypeOK, Definitive, Stored
    <3> QED
      BY <2>1, <3>1, <3>3 DEF CatalogSettled
  <2>7. CASE Gate
    <3>1. pc = "gate" /\ pc' = Loop[phase'] /\ phase' \in Phase
      BY <2>7 DEF Gate, Enters, Goes, TypeOK, Phase
    <3>2. pc' \notin {"catalog", "commit", "rotate"}
      BY <3>1 DEF Loop, Phase
    <3> QED
      BY <2>1, <3>1, <3>2 DEF CatalogSettled
  <2>8. CASE Filter \/ Pricing
    <3>1. /\ pc \in {"filter", "reconcile", "pricing", "prices"}
          /\ pc' \in {"filter", "reconcile", "pricing", "prices", "observe"}
      BY <2>8 DEF Filter, FilterBatch, FilterDone, Pricing, ReconcileDuplicates, FetchPrices,
         CommitPrices, PricingDone, Enters, Goes
    <3> QED
      BY <2>1, <3>1 DEF CatalogSettled
  <2>9. CASE CompetitionPass \/ Fees \/ Economics \/ HandOff \/ Dies \/ Pause
    <3>1. pc' \in {"observe", "settle", "fees", "wave", "outage", "economics", "handoff",
                   "publish", "off"}
      BY <2>9 DEF CompetitionPass, ObserveBatch, SettleBatch, CompetitionDone, Fees,
         FetchFees, FeeWave, FeeOutage, FeesPending, FeesDone, Economics, EconomicsBatch,
         EconomicsDone, HandOff, SaveComputed, PrepareFinalization, ReturnSummary, Dies,
         Pause, Enters, Goes, Leaves
    <3> QED
      BY <3>1 DEF CatalogSettled
  <2>10. CASE FinalizerCompletes \/ FinalizerFails
    <3>1. pc' = "off"
      BY <2>10 DEF FinalizerCompletes, FinalizerFails, PhaseFits
    <3> QED
      BY <3>1 DEF CatalogSettled
  <2> QED
    BY <1>4, <2>2, <2>3, <2>4, <2>5, <2>6, <2>7, <2>8, <2>9, <2>10
    DEF Next, Worker, Preparation, Recovery, Catalog
<1> QED
  BY <1>1, <1>2, <1>3, <1>4

\* Only the answer to a request is a quote, and only a request asks for one.
LEMMA QuoteSteps ==
  ASSUME TypeOK, PhaseFits, [Next]_vars, ~CommitPrices, ~FetchPrices
  PROVE  quoted' = quoted /\ (pc' = "prices" => UNCHANGED vars)
<1>1. CASE UNCHANGED vars
  BY <1>1 DEF vars, history
<1>2. CASE Resume \/ Preparation \/ Recovery
  BY <1>2 DEF Resume, Preparation, FreezeSelection, CreateJob, PrepareBatch,
     CompletePreparation, Recovery, Begin, ReplayRotation, RequeueIncomplete, Goes, history
<1>3. CASE FetchCatalog \/ CommitCatalog \/ CommitRotation \/ GiveUp \/ CatalogDone
  BY <1>3 DEF FetchCatalog, CommitCatalog, CommitRotation, GiveUp, CatalogDone, Goes, Leaves,
     history
<1>4. CASE Gate
  <2>1. pc' = Loop[phase'] /\ phase' \in Phase /\ quoted' = quoted
    BY <1>4 DEF Gate, Enters, Goes, TypeOK, Phase, history
  <2> QED
    BY <2>1 DEF Loop, Phase
<1>5. CASE Filter \/ ReconcileDuplicates \/ PricingDone
  BY <1>5 DEF Filter, FilterBatch, FilterDone, ReconcileDuplicates, PricingDone, Enters, Goes,
     history
<1>6. CASE CompetitionPass \/ Fees
  BY <1>6 DEF CompetitionPass, ObserveBatch, SettleBatch, CompetitionDone, Fees, FetchFees,
     FeeWave, FeeOutage, FeesPending, FeesDone, Enters, Goes, Leaves, history
<1>7. CASE Economics \/ HandOff
  BY <1>7 DEF Economics, EconomicsBatch, EconomicsDone, HandOff, SaveComputed,
     PrepareFinalization, ReturnSummary, Enters, Goes, Leaves, history
<1>8. CASE Dies \/ Pause
  BY <1>8 DEF Dies, Pause, Leaves, history
<1>9. CASE FinalizerCompletes \/ FinalizerFails
  BY <1>9 DEF FinalizerCompletes, FinalizerFails, PhaseFits, history
<1> QED
  BY <1>1, <1>2, <1>3, <1>4, <1>5, <1>6, <1>7, <1>8, <1>9
  DEF Next, Worker, Catalog, Pricing

LEMMA QuotesCommit ==
  ASSUME TypeOK, PhaseFits, CatalogSettled, QuotesKept, CommitPrices
  PROVE  QuotesKept'
<1>1. /\ priced' = priced \cup {l \in Unpriced : l[2] \in asins}
      /\ quoted' = quoted \cup asins /\ pc = "prices" /\ pc' = "pricing"
      /\ UNCHANGED <<seq, cat, prepared>>
  BY DEF CommitPrices, Goes, countVars
<1>2. Stored' \subseteq Definitive' /\ prepared'
  BY <1>1 DEF CatalogSettled, PhaseFits, Stored, Definitive
<1>3. ASSUME NEW a \in asins PROVE \E i \in Item : <<i, a>> \in priced'
  <2>1. PICK i \in Item : <<i, a>> \in Unpriced
    BY <1>1 DEF QuotesKept, PendingAsins
  <2> QED
    BY <1>1, <2>1
<1>4. \A a \in quoted' : HasPrice(a)'
  BY <1>1, <1>3 DEF QuotesKept, HasPrice
<1> QED
  BY <1>1, <1>2, <1>4 DEF QuotesKept

LEMMA StepQuotes ==
  ASSUME TypeOK, PhaseFits, AnswersKept, CatalogSettled, QuotesKept, [Next]_vars
  PROVE  QuotesKept'
<1>1. CASE PrepareBatch \/ CompletePreparation
  <2>1. quoted' = {} /\ pc' # "prices"
    BY <1>1, QuoteSteps DEF PrepareBatch, CompletePreparation, Goes, PhaseFits, QuotesKept,
       CommitPrices, FetchPrices
  <2> QED
    BY <2>1 DEF QuotesKept
<1>2. CASE CommitCatalog
  <2>1. quoted' = quoted /\ pc' = "rotate" /\ prepared' = prepared /\ batch \subseteq PendingItems
    BY <1>2 DEF CommitCatalog, AnswersKept
  <2>2. ASSUME quoted # {} PROVE priced' = priced /\ Stored' \subseteq Definitive'
    <3>1. PendingItems = {} /\ Stored \subseteq Definitive
      BY <2>2 DEF QuotesKept, PendingItems, Definitive
    <3>2. batch = {}
      BY <2>1, <3>1
    <3>3. \A i \in Item : cat'[i] = cat[i] /\ seq'[i] = seq[i]
      BY <1>2, <3>2 DEF CommitCatalog
    <3>4. priced' = priced
      BY <1>2, <3>2 DEF CommitCatalog, TypeOK
    <3> QED
      BY <3>1, <3>3, <3>4 DEF Stored, Definitive
  <2> QED
    BY <2>1, <2>2 DEF QuotesKept, HasPrice
<1>3. CASE RequeueIncomplete
  <2>1. quoted' = quoted /\ priced' = priced /\ prepared' = prepared /\ pc' = "catalog"
    BY <1>3 DEF RequeueIncomplete, Goes, countVars, history
  <2>2. Stored' = Stored /\ Definitive' = Definitive
    BY <1>3, AnswersRequeue
  <2> QED
    BY <2>1, <2>2 DEF QuotesKept, HasPrice
<1>4. CASE CommitPrices
  BY <1>4, QuotesCommit
<1>5. CASE FetchPrices
  <2>1. /\ asins' = FirstAsins(PendingAsins)
        /\ UNCHANGED <<priced, listing, quoted, prepared, seq, cat>>
    BY <1>5 DEF FetchPrices, itemVars, countVars, history
  <2>2. PendingAsins' = PendingAsins
    BY <2>1 DEF PendingAsins, Unpriced, HasPrice
  <2> QED
    BY <2>1, <2>2, PageOf DEF QuotesKept, HasPrice, Stored, Definitive
<1>6. CASE /\ ~PrepareBatch /\ ~CompletePreparation /\ ~CommitCatalog /\ ~RequeueIncomplete
           /\ ~CommitPrices /\ ~FetchPrices
  <2>1. UNCHANGED <<seq, cat, prepared>>
    BY <1>6, ItemSteps DEF ItemsKept
  <2>2. quoted' = quoted /\ (pc' = "prices" => UNCHANGED vars)
    BY <1>6, QuoteSteps
  <2>3. priced \subseteq priced'
    <3>1. CASE ReconcileDuplicates
      BY <3>1 DEF ReconcileDuplicates
    <3> QED
      BY <1>6, <3>1, PriceSteps
  <2>4. ASSUME UNCHANGED vars PROVE asins' = asins /\ PendingAsins' = PendingAsins /\ pc' = pc
    BY <2>4 DEF vars, memory, itemVars, PendingAsins, Unpriced, HasPrice
  <2> QED
    BY <2>1, <2>2, <2>3, <2>4 DEF QuotesKept, HasPrice, Stored, Definitive
<1> QED
  BY <1>1, <1>2, <1>3, <1>4, <1>5, <1>6

-----------------------------------------------------------------------------
(* The fees.                                                                *)

\* Where a page may get a fee, and where the fees begin or end.
LEMMA FeeSteps ==
  ASSUME TypeOK, PhaseFits, [Next]_vars, ~ObserveBatch, ~FeeWave, ~FeeOutage
  PROVE  /\ fee' = fee
         /\ pc' # "settle" \/ (pc = "settle" /\ batch' = batch)
         /\ phase' \in AllFees => \/ phase \in AllFees
                                  \/ pc = "fees" /\ PendingFees = {}
<1>1. CASE UNCHANGED vars
  BY <1>1 DEF vars, itemVars, memory
<1>2. CASE Resume \/ Preparation \/ Recovery
  BY <1>2 DEF Resume, Preparation, FreezeSelection, CreateJob, PrepareBatch,
     CompletePreparation, Recovery, Begin, ReplayRotation, RequeueIncomplete, Goes, itemVars,
     AllFees
<1>3. CASE FetchCatalog \/ CommitCatalog \/ CommitRotation \/ GiveUp \/ CatalogDone
  BY <1>3 DEF FetchCatalog, CommitCatalog, CommitRotation, GiveUp, CatalogDone, Goes, Leaves,
     itemVars, AllFees
<1>4. CASE Gate
  <2>1. /\ pc' = Loop[phase'] /\ phase' \in Phase /\ fee' = fee
        /\ phase' \in AllFees => phase \in AllFees
    BY <1>4 DEF Gate, Enters, Goes, TypeOK, Phase, itemVars, AllFees
  <2> QED
    BY <2>1 DEF Loop, Phase
<1>5. CASE Filter \/ Pricing
  BY <1>5 DEF Filter, FilterBatch, FilterDone, Pricing, ReconcileDuplicates, FetchPrices,
     CommitPrices, PricingDone, Enters, Goes, itemVars, AllFees
<1>6. CASE SettleBatch \/ CompetitionDone \/ FetchFees \/ FeesPending \/ FeesDone
  BY <1>6 DEF SettleBatch, CompetitionDone, FetchFees, FeesPending, FeesDone, Enters, Goes,
     Leaves, itemVars, AllFees
<1>7. CASE Economics \/ HandOff
  BY <1>7 DEF Economics, EconomicsBatch, EconomicsDone, HandOff, SaveComputed,
     PrepareFinalization, ReturnSummary, Enters, Goes, Leaves, itemVars, AllFees, PhaseFits
<1>8. CASE Dies \/ Pause
  BY <1>8 DEF Dies, Pause, Leaves, itemVars, AllFees
<1>9. CASE FinalizerCompletes \/ FinalizerFails
  BY <1>9 DEF FinalizerCompletes, FinalizerFails, itemVars, AllFees, PhaseFits
<1> QED
  BY <1>1, <1>2, <1>3, <1>4, <1>5, <1>6, <1>7, <1>8, <1>9
  DEF Next, Worker, Catalog, CompetitionPass, Fees
\* Observations are written before the listings that name them.
LEMMA FeesObserve ==
  ASSUME TypeOK, PhaseFits, FeesKept, ObserveBatch
  PROVE  FeesKept'
<1>1. PICK seen \in SUBSET Asin, fresh \in SUBSET FeeCached :
        /\ Passed(batch') \subseteq seen /\ fresh \subseteq seen
        /\ fee' = [a \in Asin |-> IF a \in fresh THEN "settled"
                     ELSE IF a \in seen /\ fee[a] = "none" THEN "pending" ELSE fee[a]]
  BY DEF ObserveBatch
<1>2. /\ listing' = listing /\ priced' = priced /\ phase' = phase
      /\ phase \notin AllFees
  BY DEF ObserveBatch, PhaseFits, AllFees
<1>3. \A a \in Asin : /\ fee[a] # "none" => fee'[a] # "none"
                      /\ a \in seen => fee'[a] # "none"
  BY <1>1
<1>4. Passed(batch)' = Passed(batch')
  BY <1>2 DEF Passed, Competition
<1>5. \A a \in Passed(batch)' : fee'[a] # "none"
  BY <1>1, <1>3, <1>4
<1> QED
  BY <1>2, <1>3, <1>5 DEF FeesKept

LEMMA FeesSettle ==
  ASSUME TypeOK, PhaseFits, FeesKept, SettleBatch
  PROVE  FeesKept'
<1>1. /\ listing' = [i \in Item |-> IF i \notin batch THEN listing[i]
                                    ELSE [a \in Asin |-> Competition(i, a)]]
      /\ fee' = fee /\ pc = "settle" /\ pc' = "observe" /\ phase' \notin AllFees
  BY DEF SettleBatch, Goes, PhaseFits, AllFees
<1>2. ASSUME NEW i \in Item, NEW a \in Asin, listing'[i][a] = "competition_passed"
      PROVE  fee'[a] # "none"
  <2>1. CASE i \notin batch
    BY <1>1, <1>2, <2>1 DEF FeesKept
  <2>2. CASE i \in batch
    <3>1. Competition(i, a) = "competition_passed"
      BY <1>1, <1>2, <2>2
    <3>2. a \in Passed(batch)
      BY <2>2, <3>1 DEF Passed
    <3> QED
      BY <1>1, <3>2 DEF FeesKept
  <2> QED
    BY <2>1, <2>2
<1> QED
  BY <1>1, <1>2 DEF FeesKept

\* Neither a wave nor an outage takes an observation away.
LEMMA FeesAsked ==
  ASSUME TypeOK, PhaseFits, FeesKept, FeeWave \/ FeeOutage
  PROVE  FeesKept'
<1>1. \A a \in Asin : fee[a] # "none" => fee'[a] # "none"
  BY DEF FeeWave, FeeOutage
<1>2. /\ listing' = listing /\ phase' \notin AllFees /\ pc' # "settle"
  BY DEF FeeWave, FeeOutage, PhaseFits, AllFees
<1> QED
  BY <1>1, <1>2 DEF FeesKept

LEMMA StepFees ==
  ASSUME TypeOK, QueueFits, PhaseFits, FeesKept, [Next]_vars
  PROVE  FeesKept'
<1>1. CASE PrepareBatch \/ CommitCatalog \/ FilterBatch
  <2>1. fee' = fee /\ pc' # "settle" /\ phase' \notin AllFees
    BY <1>1 DEF PrepareBatch, CommitCatalog, FilterBatch, Goes, PhaseFits, AllFees
  <2>2. ASSUME NEW i \in Item, NEW a \in Asin, listing'[i][a] = "competition_passed"
        PROVE  listing[i][a] = "competition_passed"
    <3>1. CASE PrepareBatch
      BY <2>2, <3>1, PreparedItems
    <3>2. CASE CommitCatalog
      BY <2>2, <3>2 DEF CommitCatalog
    <3>3. CASE FilterBatch
      BY <2>2, <3>3 DEF FilterBatch
    <3> QED
      BY <1>1, <3>1, <3>2, <3>3
  <2> QED
    BY <2>1, <2>2 DEF FeesKept
<1>2. CASE ObserveBatch
  BY <1>2, FeesObserve
<1>3. CASE SettleBatch
  BY <1>3, FeesSettle
<1>4. CASE FeeWave \/ FeeOutage
  BY <1>4, FeesAsked
<1>5. CASE ReconcileDuplicates \/ CommitPrices
  BY <1>5 DEF ReconcileDuplicates, CommitPrices, Goes, PhaseFits, AllFees, FeesKept
<1>6. CASE /\ ~PrepareBatch /\ ~CommitCatalog /\ ~FilterBatch /\ ~ObserveBatch
           /\ ~SettleBatch /\ ~FeeWave /\ ~FeeOutage /\ ~ReconcileDuplicates
           /\ ~CommitPrices
  <2>1. listing' = listing /\ priced' = priced
    BY <1>6, VerdictSteps, PriceSteps
  <2>2. /\ fee' = fee
        /\ pc' # "settle" \/ (pc = "settle" /\ batch' = batch)
        /\ phase' \in AllFees => \/ phase \in AllFees
                                 \/ pc = "fees" /\ PendingFees = {}
    BY <1>6, FeeSteps
  <2>3. ASSUME pc' = "settle" PROVE \A a \in Passed(batch)' : fee'[a] # "none"
    <3>1. Passed(batch)' = Passed(batch) /\ pc = "settle"
      BY <2>1, <2>2, <2>3 DEF Passed, Competition
    <3> QED
      BY <2>2, <3>1 DEF FeesKept
  <2>4. ASSUME phase' \in AllFees, NEW i \in Item, NEW a \in Asin,
               listing[i][a] = "competition_passed"
        PROVE  fee[a] = "settled"
    <3>1. CASE phase \in AllFees
      BY <2>4, <3>1 DEF FeesKept
    <3>2. CASE PendingFees = {}
      <4>1. fee[a] \notin {"pending", "retryable", "none"}
        BY <2>4, <3>2 DEF PendingFees, FeesKept
      <4> QED
        BY <4>1 DEF TypeOK
    <3> QED
      BY <2>2, <2>4, <3>1, <3>2
  <2> QED
    BY <2>1, <2>2, <2>3, <2>4 DEF FeesKept
<1> QED
  BY <1>1, <1>2, <1>3, <1>4, <1>5, <1>6

LEMMA StepWave ==
  ASSUME TypeOK, PhaseFits, WaveAsks, [Next]_vars
  PROVE  WaveAsks' /\ \A a \in Asin : fee[a] = "settled" => fee'[a] = "settled"
<1>1. CASE ObserveBatch
  BY <1>1 DEF ObserveBatch, Goes, WaveAsks
<1>2. CASE FeeWave
  <2>1. PICK again \in SUBSET asins :
          /\ fee' = [a \in Asin |-> IF a \in again THEN "retryable"
                                    ELSE IF a \in asins THEN "settled" ELSE fee[a]]
          /\ asins' = again
    BY <1>2 DEF FeeWave
  <2>2. again \subseteq PendingFees /\ asins \subseteq Asin
    BY <1>2, <2>1 DEF FeeWave, WaveAsks, TypeOK
  <2> QED
    BY <2>1, <2>2 DEF WaveAsks, PendingFees
<1>3. CASE FeeOutage
  <2>1. asins \subseteq PendingFees /\ pc' = "outage"
    BY <1>3 DEF FeeOutage, WaveAsks
  <2> QED
    BY <1>3, <2>1 DEF FeeOutage, WaveAsks, PendingFees
<1>4. CASE FetchFees
  BY <1>4, PageOf DEF FetchFees, WaveAsks, PendingFees, itemVars
<1>5. CASE UNCHANGED vars
  BY <1>5 DEF vars, itemVars, memory, WaveAsks, PendingFees
<1>6. CASE ~ObserveBatch /\ ~FeeWave /\ ~FeeOutage /\ ~FetchFees /\ Next
  <2>1. fee' = fee
    BY <1>6, FeeSteps
  <2>2. pc' # "wave"
    <3>1. CASE Resume \/ Preparation \/ Recovery
      BY <3>1 DEF Resume, Preparation, FreezeSelection, CreateJob, PrepareBatch,
         CompletePreparation, Recovery, Begin, ReplayRotation, RequeueIncomplete, Goes
    <3>2. CASE FetchCatalog \/ CommitCatalog \/ CommitRotation \/ GiveUp \/ CatalogDone
      BY <3>2 DEF FetchCatalog, CommitCatalog, CommitRotation, GiveUp, CatalogDone, Goes,
         Leaves
    <3>3. CASE Gate
      <4>1. pc' = Loop[phase'] /\ phase' \in Phase
        BY <3>3 DEF Gate, Enters, Goes, TypeOK, Phase
      <4> QED
        BY <4>1 DEF Loop, Phase
    <3>4. CASE Filter \/ Pricing
      BY <3>4 DEF Filter, Pricing, FilterBatch, FilterDone, ReconcileDuplicates, FetchPrices,
         CommitPrices, PricingDone, Enters, Goes
    <3>5. CASE SettleBatch \/ CompetitionDone \/ FeesPending \/ FeesDone
      BY <3>5 DEF SettleBatch, CompetitionDone, FeesPending, FeesDone, Enters, Goes, Leaves
    <3>6. CASE Economics \/ HandOff
      BY <3>6 DEF Economics, EconomicsBatch, EconomicsDone, HandOff, SaveComputed,
         PrepareFinalization, ReturnSummary, Enters, Goes, Leaves
    <3>7. CASE Dies \/ Pause
      BY <3>7 DEF Dies, Pause, Leaves
    <3>8. CASE FinalizerCompletes \/ FinalizerFails
      BY <3>8 DEF FinalizerCompletes, FinalizerFails, PhaseFits
    <3> QED
      BY <1>6, <3>1, <3>2, <3>3, <3>4, <3>5, <3>6, <3>7, <3>8
      DEF Next, Worker, Catalog, CompetitionPass, Fees
  <2> QED
    BY <2>1, <2>2 DEF WaveAsks
<1> QED
  BY <1>1, <1>2, <1>3, <1>4, <1>5, <1>6

-----------------------------------------------------------------------------
(* The economics.                                                           *)

\* What a pass has yet to visit, and where the economics begin or end.
LEMMA EconomicsSteps ==
  ASSUME TypeOK, PhaseFits, [Next]_vars, ~EconomicsBatch
  PROVE  /\ evaluated' = evaluated
         /\ todo' \subseteq todo \/ todo' = Stored
         /\ pc' = "economics" => \/ pc = "economics" /\ todo' = todo
                                 \/ todo' = Stored
         /\ phase' \in Computed => \/ phase \in Computed
                                   \/ pc = "economics" /\ todo = {}
<1>1. CASE UNCHANGED vars
  BY <1>1 DEF vars, itemVars, memory
<1>2. CASE Resume \/ Preparation \/ Recovery
  BY <1>2 DEF Resume, Preparation, FreezeSelection, CreateJob, PrepareBatch,
     CompletePreparation, Recovery, Begin, ReplayRotation, RequeueIncomplete, Goes, itemVars,
     memory, Computed
<1>3. CASE FetchCatalog \/ CommitCatalog \/ CommitRotation \/ GiveUp \/ CatalogDone
  BY <1>3 DEF FetchCatalog, CommitCatalog, CommitRotation, GiveUp, CatalogDone, Goes, Leaves,
     Forgets, itemVars, memory, Computed
<1>4. CASE Gate
  <2>1. /\ pc' = Loop[phase'] /\ phase' \in Phase /\ evaluated' = evaluated
        /\ phase' \in Computed => phase \in Computed
        /\ todo' = IF pc' \in {"filter", "observe", "economics"} THEN Stored ELSE {}
    BY <1>4 DEF Gate, Enters, Goes, TypeOK, Phase, itemVars, Computed
  <2> QED
    BY <2>1
<1>5. CASE Filter \/ Pricing
  BY <1>5 DEF Filter, FilterBatch, FilterDone, Pricing, ReconcileDuplicates, FetchPrices,
     CommitPrices, PricingDone, Enters, Goes, itemVars, memory, Computed
<1>6. CASE CompetitionPass \/ Fees
  BY <1>6 DEF CompetitionPass, ObserveBatch, SettleBatch, CompetitionDone, Fees, FetchFees,
     FeeWave, FeeOutage, FeesPending, FeesDone, Enters, Goes, Leaves, Forgets, itemVars,
     Computed
<1>7. CASE EconomicsDone \/ HandOff
  BY <1>7 DEF EconomicsDone, HandOff, SaveComputed, PrepareFinalization, ReturnSummary,
     Enters, Goes, Leaves, Forgets, itemVars, memory, Computed, PhaseFits
<1>8. CASE Dies \/ Pause
  BY <1>8 DEF Dies, Pause, Leaves, Forgets, itemVars, Computed
<1>9. CASE FinalizerCompletes \/ FinalizerFails
  BY <1>9 DEF FinalizerCompletes, FinalizerFails, itemVars, memory, Computed, PhaseFits
<1> QED
  BY <1>1, <1>2, <1>3, <1>4, <1>5, <1>6, <1>7, <1>8, <1>9
  DEF Next, Worker, Catalog, Economics

LEMMA StepEconomics ==
  ASSUME TypeOK, QueueFits, PhaseFits, AnswersKept, EconomicsKept, [Next]_vars
  PROVE  EconomicsKept'
<1>1. CASE PrepareBatch
  <2>1. Stored \subseteq Stored'
    BY <1>1, AnswersPrepare
  <2>2. /\ todo' = todo /\ evaluated' = evaluated /\ pc' = "prepare"
        /\ phase' \notin Computed
    BY <1>1 DEF PrepareBatch, Goes, PhaseFits, Computed
  <2> QED
    BY <2>1, <2>2 DEF EconomicsKept
<1>2. CASE EconomicsBatch
  <2>1. /\ evaluated' = evaluated \cup FirstItems(todo) /\ todo' = todo \ FirstItems(todo)
        /\ Stored' = Stored /\ phase' \notin Computed /\ pc = "economics"
    BY <1>2 DEF EconomicsBatch, PhaseFits, Computed, Stored
  <2>2. FirstItems(todo) \subseteq todo
    BY PageOf
  <2> QED
    BY <2>1, <2>2 DEF EconomicsKept
<1>3. CASE ~PrepareBatch /\ ~EconomicsBatch
  <2>1. Stored' = Stored
    BY <1>3, StoredSteps
  <2>2. /\ evaluated' = evaluated
        /\ todo' \subseteq todo \/ todo' = Stored
        /\ pc' = "economics" => \/ pc = "economics" /\ todo' = todo
                                \/ todo' = Stored
        /\ phase' \in Computed => \/ phase \in Computed
                                  \/ pc = "economics" /\ todo = {}
    BY <1>3, EconomicsSteps
  <2> QED
    BY <2>1, <2>2 DEF EconomicsKept
<1> QED
  BY <1>1, <1>2, <1>3

-----------------------------------------------------------------------------
(* The counter.  A preparation that resumes in the other order overwrites the *)
(* rows of some identities and never writes others.  Each identity it takes    *)
(* twice is one that is missing, so the counter exceeds the definitive items   *)
(* at most by the rows that the selection lacks.                              *)

CatalogOver == BsrDone \cup {"catalog_complete"}

\* The queue of a preparation names no identity twice.
QueueDistinct ==
  pc \in {"create", "prepare"} =>
    \A k, l \in 1..Len(queue) : queue[k] = queue[l] => k = l

AllSelected == prepared => selected = Count

\* The counter that ends Catalog counts, but for the identities prepared twice.
Counted ==
  /\ Cardinality(Definitive) <= completed
  /\ completed + Cardinality(Stored) <= Cardinality(Definitive) + selected
  /\ phase \in CatalogOver => Stored \subseteq Definitive

\* What the finalizer has seen of a completed job.
Finished ==
  reg = "completed" => /\ phase = "completed" /\ pc = "off" /\ prepared
                       /\ Cardinality(Definitive) = selected

CInv == QueueDistinct /\ AllSelected /\ Counted /\ Finished

LEMMA OrderIsBijective ==
  ASSUME NEW k \in Item, NEW l \in Item, Order[k] = Order[l]
  PROVE  k = l
<1>1. Order \in Surjection(Item, Item)
  BY RunAssumption DEF Surjection, RunAssumption
<1>2. IsFiniteSet(Item)
  BY Constants, FS_Interval DEF Item
<1>3. Order \in Injection(Item, Item)
  BY <1>1, <1>2, FS_SurjSameCardinalityImpliesInj
<1> QED
  BY <1>3 DEF Injection, IsInjective

\* What a batch of the preparation writes: as many identities as it takes.
LEMMA PreparedBatch ==
  ASSUME TypeOK, QueueFits, QueueDistinct, PrepareBatch
  PROVE  \E n \in 0..Len(queue) : \E new \in SUBSET Item :
           /\ selected' = selected + n
           /\ queue' = SubSeq(queue, n + 1, Len(queue))
           /\ Cardinality(new) = n
           /\ Stored' = Stored \cup new
           /\ Definitive' = (Definitive \ new) \cup (new \cap Cached)
           /\ completed' = completed + Cardinality(new \cap Cached)
<1> DEFINE n == IF Len(queue) < Batch THEN Len(queue) ELSE Batch
           place(i) == {k \in 1..n : queue[k] = i}
           new == {i \in Item : place(i) # {}}
<1>1. /\ queue \in Seq(Item) /\ Len(queue) \in Nat /\ selected \in Nat
      /\ \A k, l \in 1..Len(queue) : queue[k] = queue[l] => k = l
  BY Constants DEF TypeOK, QueueDistinct, PrepareBatch
<1>2. n \in 0..Len(queue) /\ n \in Nat
  BY <1>1, Constants
<1>3. /\ queue' = SubSeq(queue, n + 1, Len(queue)) /\ selected' = selected + n
      /\ completed' = completed + Cardinality(new \cap Cached)
      /\ seq' = [i \in Item |-> IF i \in new
                   THEN selected - 1 + (CHOOSE k \in place(i) : TRUE) ELSE seq[i]]
      /\ cat' = [i \in Item |-> IF i \notin new THEN cat[i]
                   ELSE IF i \in Cached THEN "definitive" ELSE "null"]
  BY CacheReuse DEF PrepareBatch
<1>4. ASSUME NEW i \in new
      PROVE  /\ \E k \in 1..n : queue[k] = i
             /\ selected - 1 + (CHOOSE k \in place(i) : TRUE) \in Nat
  <2>1. place(i) # {} /\ place(i) \subseteq 1..n
    OBVIOUS
  <2>2. (CHOOSE k \in place(i) : TRUE) \in place(i)
    BY <2>1
  <2>3. PICK k \in 1..n : queue[k] = i
    BY <2>2
  <2>4. (CHOOSE m \in place(i) : TRUE) \in 1..n
    BY <2>1, <2>2
  <2> QED
    BY <1>1, <1>2, <2>3, <2>4
<1>5. ASSUME NEW k \in 1..n PROVE queue[k] \in new
  <2>1. queue[k] \in Item
    BY <1>1, <1>2, ElementOfSeq
  <2>2. k \in place(queue[k])
    OBVIOUS
  <2> QED
    BY <2>1, <2>2
<1>6. new \in SUBSET Item /\ Null \notin Nat
  BY DEF Null
<1>7. Stored' = Stored \cup new
  <2>1. \A i \in Item : i \in new => seq'[i] \in Nat
    BY <1>3, <1>4
  <2>2. \A i \in Item : i \notin new => seq'[i] = seq[i]
    BY <1>3
  <2> HIDE DEF n, place, new
  <2> QED
    BY <1>6, <2>1, <2>2 DEF Stored
<1>8. Definitive' = (Definitive \ new) \cup (new \cap Cached)
  <2>1. \A i \in Item : cat'[i] = IF i \notin new THEN cat[i]
                                  ELSE IF i \in Cached THEN "definitive" ELSE "null"
    BY <1>3
  <2> HIDE DEF n, place, new
  <2> QED
    BY <1>6, <1>7, <2>1 DEF Definitive, Stored
<1> HIDE DEF n, place, new
<1>9. Cardinality(new) = n
  <2> DEFINE f == [k \in 1..n |-> queue[k]]
  <2>1. f \in Surjection(1..n, new)
    BY <1>4, <1>5 DEF Surjection
  <2>2. \A k, l \in 1..n : f[k] = f[l] => k = l
    BY <1>1, <1>2
  <2>3. f \in Injection(1..n, new)
    BY <2>1, <2>2 DEF Surjection, Injection, IsInjective
  <2>4. IsFiniteSet(1..n) /\ Cardinality(1..n) = n
    BY <1>2, FS_Interval
  <2> HIDE DEF f
  <2> QED
    BY <2>1, <2>3, <2>4, FS_Surjection
<1> QED
  BY <1>2, <1>3, <1>6, <1>7, <1>8, <1>9

\* The candidates that a preparation takes are distinct, in either order.
LEMMA FreezeDistinct ==
  ASSUME TypeOK, FreezeSelection
  PROVE  QueueDistinct'
<1>1. /\ Selection \in [Item -> Item]
      /\ \A k, l \in Item : Selection[k] = Selection[l] => k = l
  BY Constants, OrderIsBijective DEF Selection
<1>2. queue' = SubSeq(Selection, selected + 1, Count)
  BY DEF FreezeSelection
<1>3. /\ selected \in 0..Count /\ selected \in Nat /\ Count \in Nat
  BY Constants DEF TypeOK
<1>4. (selected + 1)..Count \subseteq Item
  BY <1>3 DEF Item
<1>5. Len(queue') = Count - selected
  BY <1>1, <1>2, <1>3, Remaining
<1>6. ASSUME NEW k \in 1..Len(queue')
      PROVE  queue'[k] = Selection[selected + k] /\ selected + k \in Item
  <2>1. k \in 1..(Count - (selected + 1) + 1)
    BY <1>3, <1>5
  <2>2. queue'[k] = Selection[selected + 1 + k - 1]
    BY <1>1, <1>2, <1>3, <1>4, <2>1, SubSeqProperties
  <2>3. selected + 1 + k - 1 = selected + k /\ selected + k \in (selected + 1)..Count
    BY <1>3, <2>1
  <2> QED
    BY <1>4, <2>2, <2>3
<1>7. ASSUME NEW k \in 1..Len(queue'), NEW l \in 1..Len(queue'), queue'[k] = queue'[l]
      PROVE  k = l
  <2>1. selected + k = selected + l
    BY <1>1, <1>6, <1>7
  <2> QED
    BY <1>3, <2>1
<1> QED
  BY <1>7 DEF QueueDistinct

LEMMA PrepareDistinct ==
  ASSUME TypeOK, QueueFits, QueueDistinct, PrepareBatch
  PROVE  QueueDistinct'
<1>1. PICK n \in 0..Len(queue) : queue' = SubSeq(queue, n + 1, Len(queue))
  BY PreparedBatch
<1>2. /\ queue \in Seq(Item) /\ Len(queue) \in Nat /\ n \in Nat
      /\ \A k, l \in 1..Len(queue) : queue[k] = queue[l] => k = l
  BY <1>1 DEF TypeOK, QueueDistinct, PrepareBatch
<1>3. Len(queue') = Len(queue) - n
  BY <1>1, <1>2, Rest
<1>4. \A m \in (n + 1)..Len(queue) : queue[m] \in Item
  BY <1>2, ElementOfSeq
<1>5. ASSUME NEW k \in 1..Len(queue')
      PROVE  queue'[k] = queue[n + k] /\ n + k \in 1..Len(queue)
  <2>1. n + k \in 1..Len(queue) /\ k \in 1..(Len(queue) - (n + 1) + 1)
    BY <1>1, <1>2, <1>3
  <2>2. queue'[k] = queue[n + 1 + k - 1]
    BY <1>1, <1>2, <1>4, <2>1, SubSeqProperties
  <2>3. n + 1 + k - 1 = n + k
    BY <1>2
  <2> QED
    BY <2>1, <2>2, <2>3
<1>6. ASSUME NEW k \in 1..Len(queue'), NEW l \in 1..Len(queue'), queue'[k] = queue'[l]
      PROVE  k = l
  <2>1. n + k = n + l
    BY <1>2, <1>5, <1>6
  <2> QED
    BY <1>2, <2>1
<1> QED
  BY <1>6 DEF QueueDistinct

LEMMA QueueSteps ==
  ASSUME TypeOK, PhaseFits, [Next]_vars,
         ~PrepareBatch, ~FreezeSelection, ~CompletePreparation
  PROVE  /\ UNCHANGED <<selected, prepared>>
         /\ pc' \in {"create", "prepare"} => pc \in {"create", "prepare"} /\ queue' = queue
<1>1. CASE UNCHANGED vars
  BY <1>1 DEF vars, countVars, rotationVars, memory
<1>2. CASE Resume
  BY <1>2 DEF Resume, countVars, rotationVars
<1>3. CASE CreateJob \/ Recovery
  BY <1>3 DEF CreateJob, Recovery, Begin, ReplayRotation, RequeueIncomplete, Goes, countVars,
     rotationVars, memory
<1>4. CASE FetchCatalog \/ CommitCatalog \/ CommitRotation \/ GiveUp \/ CatalogDone
  BY <1>4 DEF FetchCatalog, CommitCatalog, CommitRotation, GiveUp, CatalogDone, Goes, Leaves,
     countVars, rotationVars
<1>5. CASE Gate
  <2>1. /\ pc' = Loop[phase'] /\ phase' \in Phase /\ pc = "gate"
        /\ UNCHANGED <<selected, prepared, frozen>>
    BY <1>5 DEF Gate, Enters, Goes, TypeOK, Phase, countVars, rotationVars
  <2>2. pc' \notin {"create", "prepare"}
    BY <2>1 DEF Loop, Phase
  <2> QED
    BY <2>1, <2>2
<1>6. CASE Filter \/ Pricing
  BY <1>6 DEF Filter, Pricing, FilterBatch, FilterDone, ReconcileDuplicates, FetchPrices,
     CommitPrices, PricingDone, Enters, Goes, countVars, rotationVars
<1>7. CASE CompetitionPass \/ Fees
  BY <1>7 DEF CompetitionPass, ObserveBatch, SettleBatch, CompetitionDone, Fees, FetchFees,
     FeeWave, FeeOutage, FeesPending, FeesDone, Enters, Goes, Leaves, countVars, rotationVars
<1>8. CASE Economics \/ HandOff
  BY <1>8 DEF Economics, EconomicsBatch, EconomicsDone, HandOff, SaveComputed,
     PrepareFinalization, ReturnSummary, Enters, Goes, Leaves, countVars, rotationVars
<1>9. CASE Dies
  BY <1>9 DEF Dies, Leaves, countVars, rotationVars
<1>10. CASE Pause
  BY <1>10 DEF Pause, PausePoint, Leaves, countVars, rotationVars
<1>11. CASE FinalizerCompletes \/ FinalizerFails
  BY <1>11 DEF FinalizerCompletes, FinalizerFails, PhaseFits, countVars, rotationVars
<1> QED
  BY <1>1, <1>2, <1>3, <1>4, <1>5, <1>6, <1>7, <1>8, <1>9, <1>10, <1>11
  DEF Next, Worker, Preparation, Catalog

LEMMA StepSelected ==
  ASSUME TypeOK, QueueFits, PhaseFits, QueueDistinct, AllSelected, [Next]_vars
  PROVE  QueueDistinct' /\ AllSelected'
<1>1. CASE PrepareBatch
  <2>1. ~prepared'
    BY <1>1 DEF PrepareBatch, PhaseFits
  <2> QED
    BY <1>1, <2>1, PrepareDistinct DEF AllSelected
<1>2. CASE FreezeSelection
  <2>1. UNCHANGED <<selected, prepared>>
    BY <1>2 DEF FreezeSelection, countVars
  <2> QED
    BY <1>2, <2>1, FreezeDistinct DEF AllSelected
<1>3. CASE CompletePreparation
  BY <1>3 DEF CompletePreparation, Goes, AllSelected, QueueDistinct
<1>4. CASE ~PrepareBatch /\ ~FreezeSelection /\ ~CompletePreparation
  BY <1>4, QueueSteps DEF AllSelected, QueueDistinct
<1> QED
  BY <1>1, <1>2, <1>3, <1>4

\* The phases say when Catalog is over, and the counter moves with the answers.
LEMMA CountSteps ==
  ASSUME TypeOK, PhaseFits, [Next]_vars, ~PrepareBatch, ~CommitCatalog
  PROVE  /\ completed' = completed /\ Definitive' = Definitive
         /\ phase' \in CatalogOver => phase \in CatalogOver \/ Gate
<1>1. CASE UNCHANGED vars
  BY <1>1 DEF vars, countVars, itemVars, Definitive, Stored
<1>2. CASE Resume \/ FreezeSelection \/ CreateJob \/ CompletePreparation \/ Begin \/ ReplayRotation
  BY <1>2 DEF Resume, FreezeSelection, CreateJob, CompletePreparation, Begin, ReplayRotation,
     countVars, itemVars, Definitive, Stored, CatalogOver, BsrDone, PricesDone
<1>3. CASE RequeueIncomplete
  BY <1>3 DEF RequeueIncomplete, countVars, Definitive, Stored
<1>4. CASE FetchCatalog \/ CommitRotation \/ GiveUp \/ CatalogDone \/ Gate
  BY <1>4 DEF FetchCatalog, CommitRotation, GiveUp, CatalogDone, Gate, countVars, itemVars,
     Definitive, Stored, CatalogOver, BsrDone, PricesDone
<1>5. CASE Filter \/ Pricing
  BY <1>5 DEF Filter, Pricing, FilterBatch, FilterDone, ReconcileDuplicates, FetchPrices,
     CommitPrices, PricingDone, countVars, itemVars, Definitive, Stored, PhaseFits, CatalogOver,
     BsrDone, PricesDone
<1>6. CASE CompetitionPass \/ Fees
  BY <1>6 DEF CompetitionPass, ObserveBatch, SettleBatch, CompetitionDone, Fees, FetchFees,
     FeeWave, FeeOutage, FeesPending, FeesDone, countVars, itemVars, Definitive, Stored, PhaseFits,
     CatalogOver, BsrDone, PricesDone
<1>7. CASE Economics \/ HandOff
  BY <1>7 DEF Economics, EconomicsBatch, EconomicsDone, HandOff, SaveComputed,
     PrepareFinalization, ReturnSummary, countVars, itemVars, Definitive, Stored, PhaseFits,
     CatalogOver, BsrDone, PricesDone
<1>8. CASE Dies \/ Pause \/ FinalizerCompletes \/ FinalizerFails
  BY <1>8 DEF Dies, Pause, FinalizerCompletes, FinalizerFails, PhaseFits, countVars, itemVars,
     Definitive, Stored, CatalogOver, BsrDone, PricesDone
<1> QED
  BY <1>1, <1>2, <1>3, <1>4, <1>5, <1>6, <1>7, <1>8 DEF Next, Worker, Preparation, Recovery, Catalog

LEMMA StoredCount ==
  ASSUME TypeOK
  PROVE  /\ Definitive \subseteq Stored /\ Stored \subseteq Item
         /\ IsFiniteSet(Stored) /\ IsFiniteSet(Definitive)
         /\ Cardinality(Stored) \in Nat /\ Cardinality(Definitive) \in Nat
<1>1. Definitive \subseteq Stored /\ Stored \subseteq Item
  BY DEF Definitive, Stored
<1> QED
  BY <1>1, CachedCount

\* The batch that is prepared: an item taken again is counted again, and leaves the
\* selection a row short.
LEMMA PrepareCounts ==
  ASSUME TypeOK, QueueFits, PhaseFits, QueueDistinct, Counted, PrepareBatch
  PROVE  Counted'
<1>1. PICK n \in 0..Len(queue), new \in SUBSET Item :
           /\ selected' = selected + n
           /\ Cardinality(new) = n
           /\ Stored' = Stored \cup new
           /\ Definitive' = (Definitive \ new) \cup (new \cap Cached)
           /\ completed' = completed + Cardinality(new \cap Cached)
  BY PreparedBatch
<1> DEFINE S == Stored
           D == Definitive
           again == S \cap new
           lost == D \cap new
           taken == new \cap Cached
<1>2. /\ IsFiniteSet(S) /\ IsFiniteSet(D) /\ IsFiniteSet(new) /\ IsFiniteSet(again)
      /\ IsFiniteSet(lost) /\ IsFiniteSet(taken) /\ IsFiniteSet(D \ new)
      /\ Cardinality(S) \in Nat /\ Cardinality(D) \in Nat /\ Cardinality(new) \in Nat
      /\ Cardinality(again) \in Nat /\ Cardinality(lost) \in Nat
      /\ Cardinality(taken) \in Nat /\ Cardinality(D \ new) \in Nat
  <2>1. /\ again \in SUBSET Item /\ lost \in SUBSET Item /\ taken \in SUBSET Item
        /\ D \ new \in SUBSET Item
    BY StoredCount
  <2> HIDE DEF again, lost, taken
  <2> QED
    BY <2>1, StoredCount, CachedCount
<1>3. Cardinality(S \cup new) = Cardinality(S) + Cardinality(new) - Cardinality(again)
  BY <1>2, FS_Union
<1>4. Cardinality(D \ new) = Cardinality(D) - Cardinality(lost)
  BY <1>2, FS_Difference
<1>5. Cardinality((D \ new) \cup taken) = Cardinality(D \ new) + Cardinality(taken)
  <2>1. (D \ new) \cap taken = {}
    OBVIOUS
  <2>2. Cardinality({}) = 0
    BY FS_EmptySet
  <2>3. Cardinality((D \ new) \cap taken) = 0
    BY <2>1, <2>2, Zenon
  <2>4. Cardinality((D \ new) \cup taken)
          = Cardinality(D \ new) + Cardinality(taken) - Cardinality((D \ new) \cap taken)
    BY <1>2, FS_Union
  <2> HIDE DEF D, taken
  <2> QED
    BY <1>2, <2>3, <2>4
<1>6. Cardinality(lost) <= Cardinality(again)
  <2>1. lost \subseteq again
    BY StoredCount
  <2> QED
    BY <1>2, <2>1, FS_Subset
<1>7. /\ completed \in Nat /\ selected \in Nat /\ n \in Nat /\ Cardinality(new) = n
      /\ Cardinality(D) <= completed
      /\ completed + Cardinality(S) <= Cardinality(D) + selected
  BY <1>1, Constants DEF TypeOK, Counted, PrepareBatch
<1>8. phase' \notin CatalogOver
  BY DEF PrepareBatch, PhaseFits, CatalogOver, BsrDone, PricesDone
<1>9. /\ Cardinality(Definitive') = Cardinality(D) - Cardinality(lost) + Cardinality(taken)
      /\ Cardinality(Stored') = Cardinality(S) + n - Cardinality(again)
      /\ completed' = completed + Cardinality(taken) /\ selected' = selected + n
  BY <1>1, <1>2, <1>3, <1>4, <1>5
<1> HIDE DEF S, D, again, lost, taken
<1>10. /\ Cardinality(Definitive') <= completed'
       /\ completed' + Cardinality(Stored') <= Cardinality(Definitive') + selected'
  <2>1. ASSUME NEW s \in Nat, NEW d \in Nat, NEW a \in Nat, NEW l \in Nat, NEW t \in Nat,
               l <= a, d <= completed, completed + s <= d + selected
        PROVE  /\ d - l + t <= completed + t
               /\ completed + t + (s + n - a) <= d - l + t + (selected + n)
    BY <1>7, <2>1
  <2>2. /\ Cardinality(D) - Cardinality(lost) + Cardinality(taken)
             <= completed + Cardinality(taken)
        /\ completed + Cardinality(taken) + (Cardinality(S) + n - Cardinality(again))
             <= Cardinality(D) - Cardinality(lost) + Cardinality(taken) + (selected + n)
    BY <1>2, <1>6, <1>7, <2>1
  <2> QED
    BY <1>9, <2>2
<1> QED
  BY <1>8, <1>10 DEF Counted

LEMMA CommitCounts ==
  ASSUME TypeOK, PhaseFits, AnswersKept, AllSelected, Counted, CommitCatalog
  PROVE  Counted'
<1>1. PICK incomplete \in SUBSET batch :
        /\ cat' = [i \in Item |-> IF i \in batch \ incomplete THEN "definitive"
                                  ELSE IF i \in incomplete THEN "incomplete" ELSE cat[i]]
        /\ completed' = completed + Cardinality((batch \ incomplete) \ Definitive)
  BY DEF CommitCatalog
<1>2. /\ batch \subseteq PendingItems /\ prepared /\ selected' = selected /\ Stored' = Stored
      /\ phase' = IF completed' = selected THEN "catalog_complete" ELSE "suppliers_loaded"
  BY DEF CommitCatalog, AnswersKept, PhaseFits, Stored
<1> DEFINE known == batch \ incomplete
<1>3. known \cap Definitive = {} /\ known \subseteq Stored /\ Definitive \subseteq Stored
  BY <1>2 DEF PendingItems, Definitive, Stored
<1>4. Definitive' = Definitive \cup known
  BY <1>1, <1>2 DEF PendingItems, Definitive, Stored
<1>5. completed' = completed + Cardinality(known)
  <2>1. known \ Definitive = known
    BY <1>3
  <2> QED
    BY <1>1, <2>1
<1> HIDE DEF known
<1>6. /\ IsFiniteSet(known) /\ IsFiniteSet(Definitive) /\ IsFiniteSet(Stored)
      /\ Cardinality(known) \in Nat /\ Cardinality(Definitive) \in Nat
      /\ Cardinality(Stored) \in Nat
  <2>1. known \in SUBSET Item
    BY <1>3, StoredCount
  <2> QED
    BY <2>1, CachedCount, StoredCount
<1>7. Cardinality(Definitive') = Cardinality(Definitive) + Cardinality(known)
  <2>1. Definitive \cap known = {}
    BY <1>3
  <2>2. Cardinality(Definitive \cup known) = Cardinality(Definitive) + Cardinality(known) - 0
    BY <1>6, <2>1, FS_Union, FS_EmptySet
  <2> QED
    BY <1>4, <1>6, <2>2
<1>8. /\ completed \in Nat /\ selected \in Nat
      /\ Cardinality(Definitive) <= completed
      /\ completed + Cardinality(Stored) <= Cardinality(Definitive) + selected
  BY Constants DEF TypeOK, Counted
<1>9. /\ Cardinality(Definitive') <= completed'
      /\ completed' + Cardinality(Stored') <= Cardinality(Definitive') + selected'
  BY <1>2, <1>5, <1>6, <1>7, <1>8
<1>10. ASSUME phase' \in CatalogOver PROVE Stored' \subseteq Definitive'
  <2>1. completed' = selected
    BY <1>2, <1>10 DEF CatalogOver, BsrDone, PricesDone
  <2>2. Definitive' \subseteq Stored /\ Stored' = Stored
    BY <1>2, <1>3, <1>4
  <2>3. Cardinality(Definitive') <= Cardinality(Stored)
    BY <1>6, <2>2, FS_Subset
  <2>4. Cardinality(Stored) <= Cardinality(Definitive')
    BY <1>2, <1>6, <1>7, <1>8, <1>9, <2>1
  <2>5. Cardinality(Definitive') = Cardinality(Stored)
    BY <1>6, <1>7, <2>3, <2>4
  <2> QED
    BY <1>6, <2>2, <2>5, FS_Subset
<1> QED
  BY <1>9, <1>10 DEF Counted

LEMMA StepCounted ==
  ASSUME TypeOK, QueueFits, PhaseFits, AnswersKept, CatalogSettled, QueueDistinct, AllSelected,
         Counted, [Next]_vars
  PROVE  Counted'
<1>1. CASE PrepareBatch
  BY <1>1, PrepareCounts
<1>2. CASE CommitCatalog
  BY <1>2, CommitCounts
<1>3. CASE ~PrepareBatch /\ ~CommitCatalog
  <2>1. /\ completed' = completed /\ Definitive' = Definitive /\ Stored' = Stored
        /\ phase' \in CatalogOver => phase \in CatalogOver \/ Gate
    BY <1>3, CountSteps, StoredSteps
  <2>3. selected' = selected
    BY <1>3, QueueSteps DEF FreezeSelection, CompletePreparation, countVars
  <2>2. ASSUME Gate PROVE Stored \subseteq Definitive
    BY <2>2 DEF Gate, CatalogSettled
  <2> QED
    BY <2>1, <2>2, <2>3 DEF Counted
<1> QED
  BY <1>1, <1>2, <1>3

\* Nothing happens to a completed job, and only the finalizer completes it.
LEMMA OnlyFinalizerCompletes ==
  ASSUME TypeOK, PhaseFits, [Next]_vars, reg' = "completed"
  PROVE  UNCHANGED vars \/ FinalizerCompletes
<1>p. pc # "off" => reg = "running"
  BY DEF PhaseFits
<1>1. CASE Resume \/ Preparation \/ Recovery
  BY <1>1, <1>p DEF Resume, Preparation, FreezeSelection, CreateJob, PrepareBatch,
     CompletePreparation, Recovery, Begin, ReplayRotation, RequeueIncomplete, Goes
<1>2. CASE Catalog
  BY <1>2, <1>p DEF Catalog, FetchCatalog, CommitCatalog, CommitRotation, GiveUp, CatalogDone,
     Gate, Enters, Goes, Leaves
<1>3. CASE Filter \/ Pricing
  BY <1>3, <1>p DEF Filter, Pricing, FilterBatch, FilterDone, ReconcileDuplicates, FetchPrices,
     CommitPrices, PricingDone, Enters, Goes
<1>4. CASE CompetitionPass \/ Fees
  BY <1>4, <1>p DEF CompetitionPass, ObserveBatch, SettleBatch, CompetitionDone, Fees, FetchFees,
     FeeWave, FeeOutage, FeesPending, FeesDone, Enters, Goes, Leaves
<1>5. CASE Economics \/ HandOff
  BY <1>5, <1>p DEF Economics, EconomicsBatch, EconomicsDone, HandOff, SaveComputed,
     PrepareFinalization, ReturnSummary, Enters, Goes, Leaves
<1>6. CASE Dies \/ Pause \/ FinalizerFails
  BY <1>6 DEF Dies, Pause, FinalizerFails, Leaves
<1> QED
  BY <1>1, <1>2, <1>3, <1>4, <1>5, <1>6 DEF Next, Worker

LEMMA StepFinished ==
  ASSUME TypeOK, PhaseFits, Finished, [Next]_vars
  PROVE  Finished'
<1>1. CASE UNCHANGED vars
  BY <1>1 DEF vars, Finished, Definitive, Stored, countVars, itemVars
<1>2. CASE FinalizerCompletes
  <2>1. /\ phase' = "completed" /\ pc' = pc /\ UNCHANGED <<prepared, selected, seq, cat>>
        /\ Cardinality(Definitive) = selected /\ pc = "off" /\ prepared
    BY <1>2 DEF FinalizerCompletes, PhaseFits, countVars, itemVars, TypeOK
  <2> QED
    BY <2>1 DEF Finished, Definitive, Stored
<1> QED
  BY <1>1, <1>2, OnlyFinalizerCompletes DEF Finished

-----------------------------------------------------------------------------
(* The invariant, and what it implies.                                      *)

LEMMA InitInv ==
  ASSUME Init
  PROVE  IInv
<1>1. 0 \in 0..Count /\ 0 \in 0..MaxTrouble /\ <<>> \in Seq(Item)
  BY Constants
<1>2. Stored = {}
  BY DEF Init, Stored
<1>3. TypeOK
  BY <1>1 DEF Init, TypeOK, Phase, Pc, Verdict, Null
<1>4. QueueFits /\ PhaseFits
  BY DEF Init, QueueFits, PhaseFits
<1>5. AnswersKept /\ Rotated /\ EconomicsKept
  BY <1>2 DEF Init, AnswersKept, Rotated, EconomicsKept, Definitive, PendingItems, BsrDone,
     PricesDone, Computed
<1>6. Judged /\ PricesShared /\ FeesKept /\ WaveAsks
  BY DEF Init, WaveAsks, Judged, PricesShared, FeesKept, PricesDone, AllFees
<1>7. CatalogSettled /\ QuotesKept
  BY DEF Init, CatalogSettled, QuotesKept
<1> QED
  BY <1>3, <1>4, <1>5, <1>6, <1>7 DEF IInv

LEMMA StepInv ==
  ASSUME IInv, [Next]_vars
  PROVE  IInv'
BY StepTypes, StepPhases, StepAnswers, StepRotated, StepSettled, StepQuotes, StepJudged,
   StepPrices, StepFees, StepWave, StepEconomics DEF IInv

LEMMA Invariance == Spec => []IInv
BY InitInv, StepInv, PTL DEF Spec

LEMMA CountInvariance == Spec => []CInv
<1>1. Init => CInv
  <2> SUFFICES ASSUME Init PROVE CInv
    OBVIOUS
  <2>1. Stored = {} /\ Definitive = {} /\ selected = 0 /\ completed = 0
    BY DEF Init, Stored, Definitive
  <2>2. phase = "none" /\ pc = "off" /\ prepared = FALSE /\ reg = "resumable"
    BY DEF Init
  <2>3. Cardinality({}) = 0
    BY FS_EmptySet
  <2> QED
    BY <2>1, <2>2, <2>3 DEF CInv, QueueDistinct, AllSelected, Counted, Finished
<1>2. IInv /\ CInv /\ [Next]_vars => CInv'
  BY StepSelected, StepCounted, StepFinished DEF IInv, CInv
<1> QED
  BY <1>1, <1>2, Invariance, PTL DEF Spec

\* Every variable of the run, the job store's and the worker's, always has its type:
\* in particular no interruption prepares more candidates than were selected.
THEOREM RunTypeCorrect == Spec => []TypeOK
<1>1. IInv => TypeOK
  BY DEF IInv
<1> QED
  BY <1>1, Invariance, PTL

\* run_incremental_discovery never fetches Catalog for an identity whose definitive
\* answer commit_catalog_batch stored, and never has a page quoted that has a price,
\* whatever dies or pauses after the request.
THEOREM RunAsksOnce == Spec => []AskedOnce
<1>1. IInv => AnsweredOnce
  BY DEF IInv, AnswersKept, AnsweredOnce, PendingItems, Definitive
<1>2. IInv => QuotedOnce
  BY DEF IInv, QuotesKept, QuotedOnce, PendingAsins
<1>3. IInv => AskedOnce
  BY <1>1, <1>2 DEF AskedOnce
<1> QED
  BY <1>3, Invariance, PTL

\* A job past its Catalog phase owes the rotation store no result: the replay at
\* the start of a resume makes up for a death between the two commits.
THEOREM RunRotationCatchesUp == Spec => []RotationCatchesUp
<1>1. IInv => RotationCatchesUp
  BY PastPhases DEF IInv, TypeOK, Rotated, RotationCatchesUp
<1> QED
  BY <1>1, Invariance, PTL

\* What a phase of the job says is so: when Pricing is over every listing that passed
\* the filters has a price, the economics begin only when every fee is settled, and no
\* computed job lacks the economics of an identity, whatever waves, outages, pauses and
\* resumes came before.
THEOREM RunPhasesWhole == Spec => []PhasesWhole
<1>1. IInv => EveryPassedPriced
  BY PastPhases DEF IInv, TypeOK, PricesShared, EveryPassedPriced
<1>2. IInv => FeesSettled
  BY PastPhases DEF IInv, TypeOK, FeesKept, FeesSettled
<1>3. IInv => EveryoneEvaluated
  BY PastPhases DEF IInv, TypeOK, EconomicsKept, EveryoneEvaluated
<1>4. IInv => PhasesWhole
  BY <1>1, <1>2, <1>3 DEF PhasesWhole
<1> QED
  BY <1>4, Invariance, PTL

\* No resume, rebuilt observation, wave or outage takes back a settled fee, so
\* _process_fee_batch never asks for it again.
THEOREM RunKeepsSettledFees == Spec => SettledFeeKept
<1>1. IInv /\ [Next]_vars => [\A a \in Asin : fee[a] = "settled" => fee'[a] = "settled"]_vars
  BY StepWave DEF IInv
<1> QED
  BY <1>1, Invariance, PTL DEF Spec, SettledFeeKept

\* The counter kept by increments over preparations, commits, requeues and resumes is
\* the number of definitive items, but for the identities that a preparation resumed in
\* the other order took twice, and no job leaves Catalog with an item that is unanswered
\* (create_job, commit_catalog_batch).
THEOREM RunCatalogWhole == Spec => []CatalogWhole
<1>1. TypeOK /\ Counted => CatalogWhole
  <2> SUFFICES ASSUME TypeOK, Counted PROVE CatalogWhole
    OBVIOUS
  <2>1. Past("catalog_complete") <=> phase \in CatalogOver
    BY DEF TypeOK, Past, Rank, Phase, CatalogOver, BsrDone, PricesDone
  <2>2. /\ Definitive \subseteq Stored
        /\ Cardinality(Stored) \in Nat /\ Cardinality(Definitive) \in Nat
        /\ completed \in Nat /\ selected \in Nat
    BY StoredCount, Constants DEF TypeOK
  <2>3. /\ Cardinality(Definitive) <= completed
        /\ completed + Cardinality(Stored) <= Cardinality(Definitive) + selected
        /\ phase \in CatalogOver => Stored \subseteq Definitive
    BY DEF Counted
  <2>4. completed \in Cardinality(Definitive)
                        ..(Cardinality(Definitive) + selected - Cardinality(Stored))
    BY <2>2, <2>3
  <2>5. Past("catalog_complete") => Definitive = Stored
    BY <2>1, <2>2, <2>3
  <2> QED
    BY <2>4, <2>5 DEF CatalogWhole
<1> QED
  BY <1>1, Invariance, CountInvariance, PTL DEF IInv, CInv

\* Whatever deaths, pauses and orders of the selection came before, the finalizer
\* completes only a job that has the answer and the economics of every selected identity
\* (finalization_state counts the rows).
THEOREM RunWorkbookWhole == Spec => []WorkbookWhole
<1>1. IInv /\ CInv => WorkbookWhole
  <2> SUFFICES ASSUME IInv, CInv, reg = "completed"
               PROVE  Definitive = Item /\ evaluated = Item
    BY DEF WorkbookWhole
  <2>1. phase = "completed" /\ Cardinality(Definitive) = Count
    BY DEF CInv, Finished, AllSelected
  <2>2. /\ Definitive \subseteq Stored /\ Stored \subseteq Item
        /\ IsFiniteSet(Item) /\ Cardinality(Item) = Count
    <3>1. TypeOK
      BY DEF IInv
    <3>2. Count \in Nat /\ Count >= 1
      BY Constants
    <3>3. IsFiniteSet(1..Count) /\ Cardinality(1..Count) = Count
      BY <3>2, FS_Interval
    <3> QED
      BY <3>1, <3>3, StoredCount DEF Item
  <2>3. Definitive = Item
    BY <2>1, <2>2, FS_Subset
  <2>4. evaluated = Stored
    BY <2>1 DEF IInv, EconomicsKept, Computed
  <2> QED
    BY <2>2, <2>3, <2>4
<1> QED
  BY <1>1, Invariance, CountInvariance, PTL
=============================================================================
