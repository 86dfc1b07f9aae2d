------------------------- MODULE QogitaBootstrapProofs -------------------------
(***************************************************************************)
(* Proofs about QogitaBootstrap, for every set of products and workers and  *)
(* every value of the limits.                                                *)
(***************************************************************************)
EXTENDS QogitaBootstrap, FiniteSetTheorems, NaturalsInduction, WellFoundedInduction, TLAPS

\* Workers exist only inside a window.
Idle == pc # "run" => \A w \in Workers : worker[w].pc = "done"

\* A worker that holds a unit of the budget, and the units in all.
InHand == {w \in Workers : worker[w].pc \in {"claim", "resolve", "offers", "report"}}

Spent ==
    /\ inv.budget + inv.processed + Cardinality(InHand) <= Cardinality(Products)
    /\ pc = "enter" => inv.processed = 0

\* A worker about to lease has leased nothing since the intent.
Announced == intent => \A w \in Workers : /\ taken[w] <= 1
                                          /\ worker[w].pc = "claim" => taken[w] = 0

AtWork == {"resolve", "offers"}

\* Until the first product is finished after an automatic resume the run row says
\* how many are, so that no checkpoint forgets the streak.
StreakKept ==
    /\ resumed <= run.streak
    /\ pc \in {"reconcile", "resume"} => run.streak < MaxAutoResumes
    /\ pc = "resume" => run.done = Cardinality(Completed)
    /\ resumed > 0 =>
           /\ run.done = Cardinality(Completed)
           /\ pc \in {"enter", "run"} => run.done <= inv.initial
           /\ \A w \in Workers : worker[w].pc \in AtWork => worker[w].product \notin Completed

\* A window holds the writer lock from its entry to its end.
Inside == {"run", "joined", "autoStop", "snapshot", "close"}
UnderLock == pc \in Inside => writer = "qogita"

IInv == TypeOK /\ Idle /\ Spent /\ Announced /\ StreakKept /\ UnderLock

RunRow == [status : {"running", "auto_stopped", "awaiting_promotion_review"},
           stop : {"none", "recoverable", "fatal", "signal"},
           streak : 0..MaxAutoResumes, done : UpTo, left : UpTo]
InvRow == [budget : UpTo, reason : {"none", "recoverable", "fatal"}, graceful : BOOLEAN,
           processed : UpTo, errors : Nat, initial : UpTo,
           raised : {"none", "recoverable", "fatal"}]
WorkRow == [pc : Steps, product : Products,
            outcome : {"none", "product", "recoverable", "fatal"}]
ItemRow == [status : Statuses, fid : BOOLEAN, rows : {0, 1}]
ClaimRow == [by : Workers \cup {Nobody, Dead}, expired : BOOLEAN]
DutyRow == [state : {"none", "running", "checkpointing", "resting", "auto_stopped", "completed"},
            elapsed : BOOLEAN, window : 0..MaxWindows]

(***************************************************************************)
(* Constants, and the least element of a set of products.                   *)
(***************************************************************************)
LEMMA Constants ==
    /\ Products \subseteq Nat /\ IsFiniteSet(Products) /\ 1 \in Products
    /\ IsFiniteSet(Workers) /\ Workers \subseteq Nat /\ 0 \notin Workers
    /\ Cardinality(Products) \in Nat /\ Cardinality(Products) > 0
    /\ UpTo \subseteq Nat /\ 0 \in UpTo /\ Cardinality(Products) \in UpTo
<1>1. /\ Products = 1..Cardinality(Products) /\ Workers = 1..Cardinality(Workers)
      /\ Cardinality(Products) \in Nat /\ Cardinality(Products) > 0
      /\ Cardinality(Workers) \in Nat /\ Cardinality(Workers) > 0
  BY QogitaAssumption
<1>2. /\ IsFiniteSet(1..Cardinality(Products)) /\ IsFiniteSet(1..Cardinality(Workers))
  BY <1>1, FS_Interval
<1>3. IsFiniteSet(Products) /\ IsFiniteSet(Workers)
  BY <1>1, <1>2, Zenon
<1>4. 1 \in Products /\ Products \subseteq Nat
  BY <1>1
<1>5. Workers \subseteq Nat /\ 0 \notin Workers
  BY <1>1
<1> QED
  BY <1>1, <1>3, <1>4, <1>5 DEF UpTo

LEMMA Limits == /\ {MaxAutoResumes, MaxWindows, MaxTroubles, MaxWeekly} \subseteq Nat
                /\ CheckpointEvery \in Nat \ {0} /\ ErrorLimit \in Nat \ {0}
BY QogitaAssumption

Less == {ss \in Nat \X Nat : ss[1] < ss[2]}

LEMMA Least ==
    ASSUME NEW S, S \subseteq Nat, S # {}
    PROVE  Min(S) \in S
<1>1. OpToRel(<, Nat) = Less
  BY Zenon DEF OpToRel, Less
<1>2. PICK x \in S : \A y \in S : <<y, x>> \notin Less
  BY <1>1, NatLessThanWellFounded, WFMin, Zenon
<1>3. ASSUME NEW a \in Nat, NEW b \in Nat, a < b
      PROVE  <<a, b>> \in Less
  <2>1. <<a, b>> \in Nat \X Nat /\ <<a, b>>[1] < <<a, b>>[2]
    BY <1>3
  <2> QED
    BY <2>1 DEF Less
<1>4. ASSUME NEW y \in S
      PROVE  x <= y
  <2>1. x \in Nat /\ y \in Nat /\ <<y, x>> \notin Less
    BY <1>2
  <2>2. ~(y < x)
    BY <1>3, <2>1, Zenon
  <2> QED
    BY <2>1, <2>2
<1> QED
  BY <1>4 DEF Min

LEMMA FirstUnleased == Unleased # {} => Min(Unleased) \in Remaining /\ Min(Unleased) \in Unleased
<1>1. Unleased \subseteq Remaining /\ Remaining \subseteq Products
  BY DEF Unleased, Remaining
<1>2. Unleased \subseteq Nat
  BY <1>1, Constants
<1> QED
  BY <1>1, <1>2, Least

(***************************************************************************)
(* Counters of the run row.                                                  *)
(***************************************************************************)
LEMMA Counted == Cardinality(Completed) \in UpTo /\ Cardinality(Remaining) \in UpTo
<1>1. Completed \subseteq Products /\ Remaining \subseteq Products
  BY DEF Completed, Remaining
<1>2. /\ IsFiniteSet(Completed) /\ IsFiniteSet(Remaining)
      /\ Cardinality(Completed) <= Cardinality(Products)
      /\ Cardinality(Remaining) <= Cardinality(Products)
  BY <1>1, Constants, FS_Subset
<1>3. Cardinality(Completed) \in Nat /\ Cardinality(Remaining) \in Nat
  BY <1>2, FS_CardinalityType
<1> QED
  BY <1>2, <1>3, Constants DEF UpTo

\* What a checkpoint and the health update leave of the run row.
LEMMA Checkpoints ==
    ASSUME TypeOK
    PROVE  /\ Checkpointed \in RunRow /\ HealthUpdated \in RunRow
           /\ Checkpointed.streak = run.streak /\ Checkpointed.done = Cardinality(Completed)
           /\ HealthUpdated.done = Cardinality(Completed)
           /\ HealthUpdated.streak = IF Cardinality(Completed) > inv.initial THEN 0
                                     ELSE run.streak
<1>1. run \in RunRow
  BY DEF TypeOK, RunRow
<1>2. Status \in {"running", "auto_stopped", "awaiting_promotion_review"}
  BY <1>1 DEF Status
<1>3. /\ Checkpointed \in RunRow
      /\ Checkpointed.streak = run.streak /\ Checkpointed.done = Cardinality(Completed)
  BY <1>1, <1>2, Counted DEF Checkpointed, RunRow
<1>4. 0 \in 0..MaxAutoResumes
  BY Limits
<1> HIDE DEF Checkpointed
<1> QED
  BY <1>3, <1>4 DEF HealthUpdated, RunRow

LEMMA Reserved ==
    ASSUME TypeOK
    PROVE  /\ IsFiniteSet(InHand) /\ Cardinality(InHand) \in Nat
           /\ \A w \in InHand : Cardinality(InHand) >= 1
<1>1. InHand \subseteq Workers
  BY DEF InHand
<1>2. IsFiniteSet(InHand)
  BY <1>1, Constants, FS_Subset
<1>3. Cardinality(InHand) \in Nat /\ (Cardinality(InHand) = 0 <=> InHand = {})
  BY <1>2, FS_CardinalityType, FS_EmptySet
<1> QED
  BY <1>2, <1>3

(***************************************************************************)
(* Types.                                                                    *)
(***************************************************************************)
LEMMA TypeRows ==
    TypeOK <=> /\ item \in [Products -> ItemRow] /\ claim \in [Products -> ClaimRow]
               /\ run \in RunRow /\ duty \in DutyRow
               /\ served \in SUBSET Products /\ active \in BOOLEAN /\ pc \in Places
               /\ inv \in InvRow /\ worker \in [Workers -> WorkRow] /\ shutdown \in BOOLEAN
               /\ writer \in {"free", "qogita", "weekly", "archive"} /\ intent \in BOOLEAN
               /\ count \in [troubles : 0..MaxTroubles, weekly : 0..MaxWeekly]
               /\ resumed \in Nat /\ taken \in [Workers -> Nat] /\ overrun \in SUBSET Products
BY DEF TypeOK, ItemRow, ClaimRow, RunRow, DutyRow, InvRow, WorkRow

LEMMA TypeRowsNext ==
    TypeOK' <=> /\ item' \in [Products -> ItemRow] /\ claim' \in [Products -> ClaimRow]
               /\ run' \in RunRow /\ duty' \in DutyRow
               /\ served' \in SUBSET Products /\ active' \in BOOLEAN /\ pc' \in Places
               /\ inv' \in InvRow /\ worker' \in [Workers -> WorkRow] /\ shutdown' \in BOOLEAN
               /\ writer' \in {"free", "qogita", "weekly", "archive"} /\ intent' \in BOOLEAN
               /\ count' \in [troubles : 0..MaxTroubles, weekly : 0..MaxWeekly]
               /\ resumed' \in Nat /\ taken' \in [Workers -> Nat] /\ overrun' \in SUBSET Products
BY DEF TypeOK, ItemRow, ClaimRow, RunRow, DutyRow, InvRow, WorkRow

\* The values that steps write.
LEMMA RestingRows ==
    /\ NoClaim \in ClaimRow /\ Resting \in WorkRow /\ NoInvocation \in InvRow
    /\ [Resting EXCEPT !.pc = "top"] \in WorkRow
BY Constants DEF NoClaim, ClaimRow, Resting, WorkRow, Steps, NoInvocation, InvRow

LEMMA ReleasedRows ==
    ASSUME claim \in [Products -> ClaimRow], NEW S
    PROVE  Released(S) \in [Products -> ClaimRow] /\ Orphaned(S) \in [Products -> ClaimRow]
BY RestingRows DEF Released, Orphaned, ClaimRow

LEMMA Troubled ==
    ASSUME TypeOK, count.troubles < MaxTroubles
    PROVE  [count EXCEPT !.troubles = @ + 1] \in
               [troubles : 0..MaxTroubles, weekly : 0..MaxWeekly]
<1>1. count \in [troubles : 0..MaxTroubles, weekly : 0..MaxWeekly]
  BY DEF TypeOK
<1> QED
  BY <1>1, Limits

LEMMA TypeInit ==
    ASSUME Init
    PROVE  TypeOK
<1>1. item \in [Products -> ItemRow] /\ claim \in [Products -> ClaimRow]
  BY RestingRows DEF Init, ItemRow, Statuses
<1>2. run \in RunRow /\ duty \in DutyRow
  BY Constants, Limits DEF Init, RunRow, DutyRow
<1>3. served \in SUBSET Products /\ active \in BOOLEAN /\ pc \in Places /\ shutdown \in BOOLEAN
      /\ writer \in {"free", "qogita", "weekly", "archive"} /\ intent \in BOOLEAN
  BY DEF Init, Places
<1>4. inv \in InvRow /\ worker \in [Workers -> WorkRow]
  BY RestingRows DEF Init
<1>5. count \in [troubles : 0..MaxTroubles, weekly : 0..MaxWeekly]
      /\ resumed \in Nat /\ taken \in [Workers -> Nat] /\ overrun \in SUBSET Products
  BY Limits DEF Init
<1> QED
  BY <1>1, <1>2, <1>3, <1>4, <1>5, TypeRows

\* The steps of main.
LEMMA TypeLoop ==
    ASSUME TypeOK, Launch \/ EnsureWindow \/ Stopped \/ Recover \/ Preflight \/ Enter
    PROVE  TypeOK'
<1> USE TypeRows, TypeRowsNext, Limits, Constants
<1>1. CASE Launch
  BY <1>1 DEF Launch, storeVars, dutyVars, lockVars, history, Places
<1>2. CASE EnsureWindow
  <2>1. duty' \in DutyRow
    BY <1>2 DEF EnsureWindow, Window, DutyRow, NeedsWindow
  <2>2. pc' \in Places
    BY <1>2 DEF EnsureWindow, Places
  <2> QED
    BY <1>2, <2>1, <2>2 DEF EnsureWindow, storeVars, lockVars, history
<1>3. CASE Stopped
  BY <1>3 DEF Stopped, storeVars, dutyVars, lockVars, history, Places
<1>4. CASE Recover
  BY <1>4 DEF Recover, storeVars, dutyVars, history, Places
<1>5. CASE Preflight
  <2>1. NewGuard \in InvRow
    BY RestingRows DEF NewGuard, InvRow, RunRow
  <2>2. pc' \in Places
    BY <1>5 DEF Preflight, Places, Fail
  <2> HIDE DEF NewGuard
  <2>3. /\ count' \in [troubles : 0..MaxTroubles, weekly : 0..MaxWeekly]
        /\ inv' \in InvRow
    BY <1>5, <2>1, Troubled DEF Preflight
  <2> QED
    BY <1>5, <2>2, <2>3 DEF Preflight, storeVars, dutyVars, lockVars, history
<1>6. CASE Enter
  <2>1. inv' \in InvRow /\ worker' \in [Workers -> WorkRow]
    <3>1. CASE writer = "free"
      <4>1. StartPool
        BY <1>6, <3>1 DEF Enter
      <4>2. inv' \in InvRow
        BY <4>1 DEF StartPool, InvRow
      <4> QED
        BY <4>1, <4>2, RestingRows DEF StartPool
    <3> QED
      BY <1>6, <3>1 DEF Enter
  <2>2. run' \in RunRow
    BY <1>6 DEF Enter, RunRow
  <2> QED
    BY <1>6, <2>1, <2>2 DEF Enter, dutyVars, history, Places
<1> QED
  BY <1>1, <1>2, <1>3, <1>4, <1>5, <1>6

LEMMA TypeStops ==
    ASSUME TypeOK, StreakKept,
           Reconcile \/ AutoResume \/ Join \/ Joined \/ AutoStop \/ BuildSnapshot \/ Close
             \/ Handler \/ HandlerStopsDuty
    PROVE  TypeOK'
<1> USE TypeRows, TypeRowsNext, Limits, Constants
<1>0. ASSUME NEW kind \in {"recoverable", "fatal", "signal"}, MarkStopped(kind)
      PROVE  run' \in RunRow /\ claim' \in [Products -> ClaimRow]
  <2>1. run' \in RunRow
    BY <1>0 DEF MarkStopped, RunRow
  <2> QED
    BY <1>0, <2>1, RestingRows DEF MarkStopped
<1>1. CASE Reconcile
  <2>1. run' \in RunRow
    BY <1>1, Checkpoints DEF Reconcile
  <2> QED
    BY <1>1, <2>1 DEF Reconcile, dutyVars, lockVars, history, Places, Fail
<1>2. CASE AutoResume
  <2>1. run' \in RunRow
    <3>1. run.streak \in 0..MaxAutoResumes /\ run.streak < MaxAutoResumes
      BY <1>2 DEF AutoResume, RunRow, StreakKept
    <3>2. run.streak + 1 \in 0..MaxAutoResumes
      BY <3>1
    <3>3. \/ run' = run
          \/ run' = [run EXCEPT !.status = "running", !.stop = "none", !.streak = @ + 1]
      BY <1>2 DEF AutoResume
    <3> QED
      BY <3>2, <3>3 DEF RunRow
  <2>2. duty' \in DutyRow
    <3>1. CASE MayResume
      <4> DEFINE n == IF duty.elapsed THEN duty.window + 1 ELSE duty.window
      <4>1. duty' = [state |-> "running", elapsed |-> FALSE, window |-> n]
            /\ (duty.elapsed => duty.window < MaxWindows)
        BY <1>2, <3>1 DEF AutoResume
      <4>2. duty.window \in 0..MaxWindows
        BY DEF DutyRow
      <4>3. n \in 0..MaxWindows
        BY <4>1, <4>2
      <4> HIDE DEF n
      <4> QED
        BY <4>1, <4>3 DEF DutyRow
    <3>2. CASE ~MayResume
      BY <1>2, <3>2 DEF AutoResume
    <3> QED
      BY <3>1, <3>2
  <2> QED
    BY <1>2, <2>1, <2>2 DEF AutoResume, lockVars, Places, Fail
<1>3. CASE Join
  <2>1. run' \in RunRow
    BY <1>3, Checkpoints DEF Join
  <2>2. pc' \in Places /\ writer' \in {"free", "qogita", "weekly", "archive"}
    BY <1>3 DEF Join, Places, Fail, Free, InvRow
  <2>3. count' \in [troubles : 0..MaxTroubles, weekly : 0..MaxWeekly]
    BY <1>3, Troubled DEF Join
  <2> QED
    BY <1>3, <2>1, <2>2, <2>3 DEF Join, dutyVars, history
<1>4. CASE Joined
  <2>1. run' \in RunRow /\ claim' \in [Products -> ClaimRow]
    <3>1. inv.reason # "none" => inv.reason \in {"recoverable", "fatal", "signal"}
      BY DEF InvRow
    <3> QED
      BY <1>4, <1>0, <3>1 DEF Joined
  <2>2. duty' \in DutyRow
    BY <1>4 DEF Joined, DutyRow
  <2>3. pc' \in Places /\ writer' \in {"free", "qogita", "weekly", "archive"}
    BY <1>4 DEF Joined, Places, Free
  <2> QED
    BY <1>4, <2>1, <2>2, <2>3 DEF Joined, history
<1>5. CASE AutoStop
  BY <1>5 DEF AutoStop, storeVars, history, Places, DutyRow, Free
<1>6. CASE BuildSnapshot
  <2>1. Completed \in SUBSET Products
    BY DEF Completed
  <2> QED
    BY <1>6, <2>1 DEF BuildSnapshot, storeVars, history, Places, Fail, Free
<1>7. CASE Close
  BY <1>7 DEF Close, storeVars, history, Places, DutyRow, Free
<1>8. CASE Handler
  <2>1. run' \in RunRow /\ claim' \in [Products -> ClaimRow]
    BY <1>8, <1>0 DEF Handler
  <2>2. count' \in [troubles : 0..MaxTroubles, weekly : 0..MaxWeekly]
    BY <1>8, Troubled DEF Handler
  <2> QED
    BY <1>8, <2>1, <2>2 DEF Handler, dutyVars, lockVars, history, Places
<1>9. CASE HandlerStopsDuty
  <2>1. duty' \in DutyRow
    BY <1>9 DEF HandlerStopsDuty, DutyRow
  <2>2. count' \in [troubles : 0..MaxTroubles, weekly : 0..MaxWeekly]
    BY <1>9, Troubled DEF HandlerStopsDuty
  <2> QED
    BY <1>9, <2>1, <2>2 DEF HandlerStopsDuty, storeVars, lockVars, history, Places
<1> QED
  BY <1>1, <1>2, <1>3, <1>4, <1>5, <1>6, <1>7, <1>8, <1>9

\* The steps of a worker.
LEMMA Moves ==
    ASSUME TypeOK, NEW w \in Workers, NEW at \in Steps, Goto(w, at)
    PROVE  worker' \in [Workers -> WorkRow]
BY TypeRows DEF Goto, WorkRow

LEMMA Ends ==
    ASSUME TypeOK, NEW w \in Workers, NEW kind \in {"none", "product", "recoverable", "fatal"},
           Outcome(w, kind)
    PROVE  worker' \in [Workers -> WorkRow]
BY TypeRows DEF Outcome, WorkRow, Steps

LEMMA Writes ==
    ASSUME TypeOK, NEW p \in Products, NEW status \in Statuses, Write(p, status)
    PROVE  item' \in [Products -> ItemRow]
BY TypeRows DEF Write, ItemRow

LEMMA TypeWorker ==
    ASSUME TypeOK, Spent, NEW w \in Workers, WorkerStep(w) \/ WorkerRaises(w)
    PROVE  TypeOK'
<1> USE TypeRows, TypeRowsNext, Limits, Constants
<1>0. /\ worker[w].product \in Products /\ worker[w].pc \in Steps
      /\ worker[w].outcome \in {"none", "product", "recoverable", "fatal"}
      /\ inv.budget \in Nat /\ inv.processed \in Nat
      /\ inv.budget + inv.processed + Cardinality(InHand) <= Cardinality(Products)
      /\ Cardinality(InHand) \in Nat
      /\ \A v \in InHand : Cardinality(InHand) >= 1
  BY Reserved DEF WorkRow, InvRow, Spent
<1>1. CASE Top(w)
  <2>1. worker' \in [Workers -> WorkRow]
    BY <1>1, Moves DEF Top, Steps
  <2>2. inv' \in InvRow
    <3>1. \/ inv' = inv \/ inv' = [inv EXCEPT !.graceful = TRUE]
          \/ inv.budget # 0 /\ inv' = [inv EXCEPT !.budget = @ - 1]
      BY <1>1 DEF Top
    <3>2. inv.budget # 0 => inv.budget - 1 \in UpTo
      BY <1>0 DEF InvRow, UpTo
    <3> QED
      BY <3>1, <3>2 DEF InvRow
  <2> QED
    BY <1>1, <2>1, <2>2 DEF Top, storeVars, dutyVars, lockVars, history
<1>2. CASE Claim(w)
  <2>1. CASE Unleased = {}
    <3>1. w \in InHand
      BY <1>2 DEF Claim, InHand
    <3>2. inv.budget + 1 \in UpTo
      BY <1>0, <3>1 DEF UpTo
    <3>3. inv' = [inv EXCEPT !.budget = @ + 1] /\ Goto(w, "finish")
      BY <1>2, <2>1 DEF Claim
    <3>4. inv' \in InvRow
      BY <3>2, <3>3 DEF InvRow
    <3>5. worker' \in [Workers -> WorkRow]
      BY <3>3, Moves DEF Steps
    <3> QED
      BY <1>2, <2>1, <3>4, <3>5 DEF Claim, dutyVars, lockVars
  <2>2. CASE Unleased # {}
    <3>1. PICK p \in Products : p = Min(Unleased)
      BY <2>2, FirstUnleased DEF Remaining
    <3>2. /\ claim' = [Released(Expired) EXCEPT ![p] = [by |-> w, expired |-> FALSE]]
          /\ worker' = [worker EXCEPT ![w].product = p,
                                      ![w].pc = IF item[p].fid THEN "offers" ELSE "resolve"]
          /\ inv' = inv
          /\ taken' = IF intent THEN [taken EXCEPT ![w] = @ + 1] ELSE taken
      BY <1>2, <2>2, <3>1 DEF Claim
    <3>3. claim' \in [Products -> ClaimRow]
      <4>1. [by |-> w, expired |-> FALSE] \in ClaimRow
        BY DEF ClaimRow
      <4> QED
        BY <3>2, <4>1, ReleasedRows
    <3>4. worker' \in [Workers -> WorkRow]
      <4>1. PICK at \in Steps : worker' = [worker EXCEPT ![w].product = p, ![w].pc = at]
        BY <3>2 DEF Steps
      <4> QED
        BY <4>1 DEF WorkRow
    <3>5. taken' \in [Workers -> Nat]
      BY <3>2
    <3> QED
      BY <1>2, <3>2, <3>3, <3>4, <3>5 DEF Claim, dutyVars, lockVars
  <2> QED
    BY <2>1, <2>2
<1>3. CASE Resolve(w)
  <2>1. item' \in [Products -> ItemRow]
    <3>1. \/ item' = [item EXCEPT ![worker[w].product].status = "fid_resolved",
                                  ![worker[w].product].fid = TRUE]
          \/ Write(worker[w].product, "retryable") \/ Write(worker[w].product, "permanent")
      BY <1>3 DEF Resolve
    <3>2. {"retryable", "permanent", "fid_resolved"} \subseteq Statuses
      BY DEF Statuses
    <3> QED
      BY <1>0, <3>1, <3>2, Writes DEF ItemRow
  <2>2. claim' \in [Products -> ClaimRow]
    BY <1>3, ReleasedRows DEF Resolve
  <2>3. worker' \in [Workers -> WorkRow]
    BY <1>3, Moves, Ends DEF Resolve, Steps
  <2> QED
    BY <1>3, <2>1, <2>2, <2>3 DEF Resolve, dutyVars, lockVars, history
<1>4. CASE Offers(w)
  <2>1. item' \in [Products -> ItemRow]
    <3>1. \/ \E n \in {0, 1} : item' = [item EXCEPT ![worker[w].product].status = "enriched",
                                                    ![worker[w].product].rows = n]
          \/ Write(worker[w].product, "retryable") \/ Write(worker[w].product, "permanent")
      BY <1>4 DEF Offers
    <3>2. {"retryable", "permanent", "enriched"} \subseteq Statuses
      BY DEF Statuses
    <3>3. ASSUME NEW status \in {"retryable", "permanent"}, Write(worker[w].product, status)
          PROVE  item' \in [Products -> ItemRow]
      BY <1>0, <3>2, <3>3, Writes
    <3>4. ASSUME NEW n \in {0, 1},
                 item' = [item EXCEPT ![worker[w].product].status = "enriched",
                                      ![worker[w].product].rows = n]
          PROVE  item' \in [Products -> ItemRow]
      BY <1>0, <3>2, <3>4 DEF ItemRow
    <3> QED
      BY <3>1, <3>3, <3>4
  <2>2. claim' \in [Products -> ClaimRow]
    BY <1>4, ReleasedRows DEF Offers
  <2>3. worker' \in [Workers -> WorkRow]
    BY <1>4, Ends DEF Offers
  <2>4. resumed' \in Nat
    BY <1>4 DEF Offers
  <2> QED
    BY <1>4, <2>1, <2>2, <2>3, <2>4 DEF Offers, dutyVars, lockVars
<1>5. CASE Report(w)
  <2>1. w \in InHand
    BY <1>5 DEF Report, InHand
  <2>2. inv.processed + 1 \in UpTo
    BY <1>0, <2>1 DEF UpTo
  <2>3. inv' \in InvRow
    <3> DEFINE kind == worker[w].outcome
               reason == IF Reason(kind) # "none" /\ inv.reason = "none" THEN Reason(kind)
                         ELSE inv.reason
               graceful == inv.graceful
                             \/ ((Reason(kind) = "none" \/ inv.reason # "none") /\ GracefulStop)
    <3>1. inv' = [inv EXCEPT !.processed = @ + 1, !.errors = Errors(kind),
                             !.reason = reason, !.graceful = graceful]
      BY <1>5 DEF Report
    <3>2. Errors(kind) \in Nat
      BY DEF Errors, InvRow
    <3>3. reason \in {"none", "recoverable", "fatal"}
      BY DEF Reason, InvRow
    <3>4. graceful \in BOOLEAN
      OBVIOUS
    <3> HIDE DEF kind, reason, graceful
    <3> QED
      BY <2>2, <3>1, <3>2, <3>3, <3>4 DEF InvRow
  <2>4. worker' \in [Workers -> WorkRow]
    BY <1>5, Moves DEF Report, Steps
  <2> QED
    BY <1>5, <2>3, <2>4 DEF Report, storeVars, dutyVars, lockVars, history
<1>6. CASE Checkpoint(w)
  <2>1. worker' \in [Workers -> WorkRow]
    BY <1>6, Moves DEF Checkpoint, Steps
  <2> QED
    BY <1>6, <2>1, Checkpoints DEF Checkpoint, dutyVars, lockVars, history
<1>7. CASE Finish(w)
  <2>1. worker' \in [Workers -> WorkRow] /\ claim' \in [Products -> ClaimRow]
    BY <1>7, RestingRows, ReleasedRows DEF Finish
  <2> QED
    BY <1>7, <2>1 DEF Finish, dutyVars, lockVars, history
<1>8. CASE WorkerRaises(w)
  <2>1. worker' \in [Workers -> WorkRow] /\ claim' \in [Products -> ClaimRow]
    BY <1>8, RestingRows, ReleasedRows DEF WorkerRaises
  <2>2. inv' \in InvRow
    BY <1>8 DEF WorkerRaises, InvRow
  <2> QED
    BY <1>8, <2>1, <2>2, Troubled DEF WorkerRaises, dutyVars, lockVars, history
<1> QED
  BY <1>1, <1>2, <1>3, <1>4, <1>5, <1>6, <1>7, <1>8 DEF WorkerStep, Process

\* The steps around the process.
LEMMA TypeAround ==
    ASSUME TypeOK,
           \/ Die \/ Terminate \/ TimePasses \/ \E p \in Products : LeaseExpires(p)
           \/ WeeklyBegins \/ WeeklyTakes \/ WeeklyEnds \/ WeeklyGivesUp
           \/ ArchiveTakes \/ ArchiveEnds \/ UNCHANGED vars
    PROVE  TypeOK'
<1> USE TypeRows, TypeRowsNext, Limits, Constants
<1>1. CASE Die
  BY <1>1, RestingRows, ReleasedRows, Troubled DEF Die, dutyVars, history, Places, Free
<1>2. CASE Terminate
  BY <1>2, Troubled DEF Terminate, storeVars, dutyVars, lockVars, history
<1>3. CASE TimePasses
  BY <1>3 DEF TimePasses, storeVars, procVars, lockVars, history, DutyRow
<1>4. ASSUME NEW p \in Products, LeaseExpires(p)
      PROVE  TypeOK'
  <2>1. claim' \in [Products -> ClaimRow]
    BY <1>4 DEF LeaseExpires, ClaimRow
  <2>2. count' \in [troubles : 0..MaxTroubles, weekly : 0..MaxWeekly]
    BY <1>4, Troubled DEF LeaseExpires
  <2> QED
    BY <1>4, <2>1, <2>2 DEF LeaseExpires, dutyVars, procVars, lockVars, history
<1>5. CASE WeeklyBegins
  <2>1. count' \in [troubles : 0..MaxTroubles, weekly : 0..MaxWeekly]
    BY <1>5 DEF WeeklyBegins
  <2> QED
    BY <1>5, <2>1 DEF WeeklyBegins, storeVars, dutyVars, procVars
<1>6. CASE WeeklyTakes \/ WeeklyEnds \/ WeeklyGivesUp
  BY <1>6 DEF WeeklyTakes, WeeklyEnds, WeeklyGivesUp, storeVars, dutyVars, procVars, history
<1>7. CASE ArchiveTakes \/ ArchiveEnds
  BY <1>7 DEF ArchiveTakes, ArchiveEnds, storeVars, dutyVars, procVars, history
<1>8. CASE UNCHANGED vars
  BY <1>8 DEF vars, storeVars, dutyVars, procVars, lockVars, history
<1> QED
  BY <1>1, <1>2, <1>3, <1>4, <1>5, <1>6, <1>7, <1>8

(***************************************************************************)
(* What steps leave alone.                                                   *)
(***************************************************************************)
\* Steps that leave the invocation and its workers alone.
Elsewhere ==
    \/ Launch \/ EnsureWindow \/ Stopped \/ Reconcile \/ AutoResume \/ Recover
    \/ Join \/ Joined \/ AutoStop \/ BuildSnapshot \/ Close \/ Handler \/ HandlerStopsDuty
    \/ Terminate \/ TimePasses \/ \E p \in Products : LeaseExpires(p)
    \/ WeeklyBegins \/ WeeklyTakes \/ WeeklyEnds \/ WeeklyGivesUp
    \/ ArchiveTakes \/ ArchiveEnds \/ UNCHANGED vars

LEMMA Steps5 ==
    ASSUME [Next]_vars
    PROVE  \/ Elsewhere \/ Preflight \/ Enter \/ Die
           \/ \E w \in Workers : WorkerStep(w) \/ WorkerRaises(w)
BY Zenon DEF Next, MainStep, Elsewhere

LEMMA ElsewhereFrame ==
    ASSUME Elsewhere
    PROVE  /\ item' = item /\ inv' = inv /\ worker' = worker
           /\ pc' \in {"enter", "run"} => pc' = pc
           /\ pc = "run" => pc' = "run" \/ \A w \in Workers : worker[w].pc = "done"
           /\ (taken' = taken /\ (intent' => intent)) \/ taken' = [w \in Workers |-> 0]
<1> USE DEF storeVars, dutyVars, procVars, lockVars, history
<1>1. CASE Launch \/ EnsureWindow \/ Stopped \/ Reconcile \/ AutoResume \/ Recover
  BY <1>1 DEF Launch, EnsureWindow, Stopped, Reconcile, AutoResume, Recover, Fail
<1>2. CASE Join \/ Joined \/ AutoStop \/ BuildSnapshot \/ Close \/ Handler \/ HandlerStopsDuty
  BY <1>2 DEF Join, Joined, AutoStop, BuildSnapshot, Close, Handler, HandlerStopsDuty, Fail
<1>3. CASE Terminate \/ TimePasses \/ \E p \in Products : LeaseExpires(p)
  BY <1>3 DEF Terminate, TimePasses, LeaseExpires
<1>4. CASE WeeklyBegins \/ WeeklyTakes \/ WeeklyEnds \/ WeeklyGivesUp \/ ArchiveTakes
             \/ ArchiveEnds \/ UNCHANGED vars
  BY <1>4 DEF WeeklyBegins, WeeklyTakes, WeeklyEnds, WeeklyGivesUp, ArchiveTakes, ArchiveEnds,
              vars
<1> QED
  BY <1>1, <1>2, <1>3, <1>4 DEF Elsewhere

LEMMA PreflightFrame ==
    ASSUME Preflight
    PROVE  /\ UNCHANGED <<item, worker, taken, intent, run, resumed>>
           /\ pc = "preflight" /\ pc' # "run"
           /\ inv' = NewGuard \/ (inv' = inv /\ pc' # "enter")
BY DEF Preflight, Fail, storeVars, dutyVars, lockVars, history

LEMMA EnterFrame ==
    ASSUME TypeOK, Enter
    PROVE  /\ UNCHANGED <<item, taken, intent, resumed>> /\ pc = "enter"
           /\ run'.streak = run.streak /\ run'.done = run.done
           /\ \/ pc' = "run" /\ StartPool
              \/ pc' = "loop" /\ inv' = inv /\ worker' = worker
<1>1. run \in RunRow
  BY TypeRows
<1>2. run' = run \/ run' = [run EXCEPT !.status = "running", !.stop = "none"]
  BY DEF Enter
<1>3. run'.streak = run.streak /\ run'.done = run.done
  BY <1>1, <1>2 DEF RunRow
<1> QED
  BY <1>3 DEF Enter, dutyVars, history

LEMMA PoolStarts ==
    ASSUME TypeOK, StartPool
    PROVE  /\ \A w \in Workers : worker'[w].pc = "top"
           /\ inv'.budget = Cardinality(Products) /\ inv'.processed = inv.processed
           /\ inv'.initial = inv.initial
<1>1. [Resting EXCEPT !.pc = "top"].pc = "top"
  BY DEF Resting
<1> QED
  BY <1>1, TypeRows DEF StartPool, InvRow

LEMMA DieFrame ==
    ASSUME Die
    PROVE  /\ UNCHANGED <<item, taken, intent, run, resumed>> /\ pc' = "down"
           /\ inv' = NoInvocation /\ worker' = [w \in Workers |-> Resting]
BY DEF Die, dutyVars, history

LEMMA WorkerFrame ==
    ASSUME TypeOK, NEW w \in Workers, WorkerStep(w) \/ WorkerRaises(w)
    PROVE  /\ worker[w].pc # "done" /\ pc' = pc /\ intent' = intent /\ writer' = writer
           /\ inv'.initial = inv.initial
<1>0. inv \in InvRow
  BY TypeRows
<1> USE DEF lockVars, procVars
<1>1. CASE Top(w)
  BY <1>0, <1>1 DEF Top, InvRow
<1>2. CASE Claim(w)
  BY <1>0, <1>2 DEF Claim, InvRow
<1>3. CASE Resolve(w) \/ Offers(w) \/ Checkpoint(w) \/ Finish(w)
  BY <1>3 DEF Resolve, Offers, Checkpoint, Finish
<1>4. CASE Report(w)
  BY <1>0, <1>4 DEF Report, InvRow
<1>5. CASE WorkerRaises(w)
  BY <1>0, <1>5 DEF WorkerRaises, InvRow
<1> QED
  BY <1>1, <1>2, <1>3, <1>4, <1>5 DEF WorkerStep, Process

LEMMA WorkersRun ==
    ASSUME TypeOK, Idle, NEW w \in Workers, WorkerStep(w) \/ WorkerRaises(w)
    PROVE  pc = "run"
BY WorkerFrame DEF Idle

\* A step of a worker is of that worker alone.
LEMMA OneMoves ==
    ASSUME TypeOK, NEW w \in Workers, WorkerStep(w) \/ WorkerRaises(w)
    PROVE  \A v \in Workers \ {w} : worker'[v] = worker[v]
<1> USE DEF TypeOK
<1>1. CASE Top(w) \/ Report(w) \/ Checkpoint(w) \/ Finish(w) \/ WorkerRaises(w)
  BY <1>1 DEF Top, Report, Checkpoint, Finish, WorkerRaises, Goto
<1>2. CASE Claim(w)
  BY <1>2 DEF Claim, Goto
<1>3. CASE Resolve(w)
  BY <1>3 DEF Resolve, Goto, Outcome
<1>4. CASE Offers(w)
  BY <1>4 DEF Offers, Outcome
<1> QED
  BY <1>1, <1>2, <1>3, <1>4 DEF WorkerStep, Process

(***************************************************************************)
(* Workers exist only inside a window.                                       *)
(***************************************************************************)
LEMMA StepIdle ==
    ASSUME TypeOK, Idle, [Next]_vars
    PROVE  Idle'
<1>1. CASE Elsewhere
  BY <1>1, ElsewhereFrame DEF Idle
<1>2. CASE Preflight
  BY <1>2, PreflightFrame DEF Idle
<1>3. CASE Enter
  BY <1>3, EnterFrame DEF Idle
<1>4. CASE Die
  BY <1>4, DieFrame DEF Idle, Resting
<1>5. ASSUME NEW w \in Workers, WorkerStep(w) \/ WorkerRaises(w)
      PROVE  Idle'
  BY <1>5, WorkersRun, WorkerFrame DEF Idle
<1> QED
  BY <1>1, <1>2, <1>3, <1>4, <1>5, Steps5

(***************************************************************************)
(* The hand-off to a weekly refresh.                                         *)
(***************************************************************************)
\* How a step of a worker moves it and its counter.
LEMMA WorkerTakes ==
    ASSUME TypeOK, NEW w \in Workers, WorkerStep(w) \/ WorkerRaises(w)
    PROVE  \/ taken' = taken /\ (worker'[w].pc = "claim" => ~intent)
           \/ /\ worker[w].pc = "claim" /\ worker'[w].pc # "claim"
              /\ taken' \in {taken, [taken EXCEPT ![w] = @ + 1]}
<1> USE DEF TypeOK
<1>1. CASE Top(w)
  BY <1>1 DEF Top, Goto, GracefulStop, history
<1>2. CASE Claim(w)
  BY <1>2 DEF Claim, Goto
<1>3. CASE Resolve(w)
  BY <1>3 DEF Resolve, Goto, Outcome, history
<1>4. CASE Offers(w)
  BY <1>4 DEF Offers, Outcome
<1>5. CASE Report(w)
  BY <1>5 DEF Report, Goto, history
<1>6. CASE Checkpoint(w) \/ Finish(w) \/ WorkerRaises(w)
  BY <1>6 DEF Checkpoint, Finish, WorkerRaises, Goto, Resting, history
<1> QED
  BY <1>1, <1>2, <1>3, <1>4, <1>5, <1>6 DEF WorkerStep, Process

LEMMA StepAnnounced ==
    ASSUME TypeOK, Idle, Announced, [Next]_vars
    PROVE  Announced'
<1>1. CASE Elsewhere
  BY <1>1, ElsewhereFrame DEF Announced
<1>2. CASE Preflight
  BY <1>2, PreflightFrame DEF Announced
<1>3. CASE Enter
  <2>1. worker' = worker \/ \A w \in Workers : worker'[w].pc = "top"
    BY <1>3, EnterFrame, PoolStarts
  <2> QED
    BY <1>3, <2>1, EnterFrame DEF Announced
<1>4. CASE Die
  <2>1. \A w \in Workers : worker'[w].pc = "done"
    BY <1>4, DieFrame DEF Resting
  <2> QED
    BY <1>4, <2>1, DieFrame DEF Announced
<1>5. ASSUME NEW w \in Workers, WorkerStep(w) \/ WorkerRaises(w)
      PROVE  Announced'
  <2> SUFFICES ASSUME intent', NEW v \in Workers
               PROVE  taken'[v] <= 1 /\ (worker'[v].pc = "claim" => taken'[v] = 0)
    BY DEF Announced
  <2>1. intent /\ taken \in [Workers -> Nat]
    BY <1>5, WorkerFrame DEF TypeOK
  <2>2. CASE v # w
    BY <1>5, <2>1, <2>2, OneMoves, WorkerTakes DEF Announced
  <2>3. CASE v = w
    BY <1>5, <2>1, <2>3, WorkerTakes DEF Announced
  <2> QED
    BY <2>2, <2>3
<1> QED
  BY <1>1, <1>2, <1>3, <1>4, <1>5, Steps5

(***************************************************************************)
(* The budget of an invocation.                                              *)
(***************************************************************************)
\* How a step of a worker moves units between the budget, the hand and the products
\* that are done.
LEMMA WorkerSpends ==
    ASSUME TypeOK, NEW w \in Workers, WorkerStep(w) \/ WorkerRaises(w)
    PROVE  \/ /\ inv'.budget = inv.budget /\ inv'.processed = inv.processed
              /\ w \in InHand \/ worker'[w].pc \notin {"claim", "resolve", "offers", "report"}
           \/ /\ inv'.budget = inv.budget - 1 /\ inv'.processed = inv.processed
              /\ w \notin InHand
           \/ /\ inv'.budget + inv'.processed = inv.budget + inv.processed + 1
              /\ w \in InHand
              /\ worker'[w].pc \notin {"claim", "resolve", "offers", "report"}
<1>0. inv \in InvRow /\ worker \in [Workers -> WorkRow]
  BY TypeRows
<1>1. CASE Top(w)
  BY <1>0, <1>1 DEF Top, Goto, InvRow, WorkRow, InHand
<1>2. CASE Claim(w)
  <2>1. CASE Unleased = {}
    <3>1. inv' = [inv EXCEPT !.budget = @ + 1] /\ Goto(w, "finish") /\ worker[w].pc = "claim"
      BY <1>2, <2>1 DEF Claim
    <3>2. inv'.budget = inv.budget + 1 /\ inv'.processed = inv.processed
          /\ inv.budget \in Nat /\ inv.processed \in Nat
      BY <1>0, <3>1, Constants DEF InvRow
    <3> QED
      BY <1>0, <3>1, <3>2 DEF Goto, WorkRow, InHand
  <2>2. CASE Unleased # {}
    BY <1>0, <1>2, <2>2 DEF Claim, InHand
  <2> QED
    BY <2>1, <2>2
<1>3. CASE Resolve(w) \/ Offers(w)
  BY <1>0, <1>3 DEF Resolve, Offers, InHand
<1>4. CASE Report(w)
  <2>1. inv'.budget = inv.budget /\ inv'.processed = inv.processed + 1
        /\ inv.budget \in Nat /\ inv.processed \in Nat
    BY <1>0, <1>4, Constants DEF Report, InvRow
  <2>2. worker'[w].pc \in {"checkpoint", "top"} /\ w \in InHand
    BY <1>0, <1>4 DEF Report, Goto, WorkRow, InHand
  <2> QED
    BY <2>1, <2>2
<1>5. CASE Checkpoint(w) \/ Finish(w)
  BY <1>0, <1>5 DEF Checkpoint, Finish, Goto, Resting, WorkRow
<1>6. CASE WorkerRaises(w)
  BY <1>0, <1>6 DEF WorkerRaises, InvRow, Resting
<1> QED
  BY <1>1, <1>2, <1>3, <1>4, <1>5, <1>6 DEF WorkerStep, Process

LEMMA HandOf ==
    ASSUME TypeOK, NEW w \in Workers, \A v \in Workers \ {w} : worker'[v] = worker[v]
    PROVE  /\ Cardinality(InHand') \in Nat
           /\ Cardinality(InHand') <= IF w \in InHand THEN Cardinality(InHand)
                                      ELSE Cardinality(InHand) + 1
           /\ worker'[w].pc \notin {"claim", "resolve", "offers", "report"} =>
                  Cardinality(InHand') = IF w \in InHand THEN Cardinality(InHand) - 1
                                         ELSE Cardinality(InHand)
<1>1. InHand' = IF worker'[w].pc \in {"claim", "resolve", "offers", "report"}
                THEN InHand \cup {w} ELSE InHand \ {w}
  BY DEF InHand
<1>2. IsFiniteSet(InHand) /\ Cardinality(InHand) \in Nat
      /\ (w \in InHand => Cardinality(InHand) >= 1)
  BY Reserved
<1>3. /\ Cardinality(InHand \cup {w}) = IF w \in InHand THEN Cardinality(InHand)
                                        ELSE Cardinality(InHand) + 1
      /\ Cardinality(InHand \ {w}) = IF w \in InHand THEN Cardinality(InHand) - 1
                                     ELSE Cardinality(InHand)
  BY <1>2, FS_AddElement, FS_RemoveElement
<1> QED
  BY <1>1, <1>2, <1>3

LEMMA NoHand ==
    ASSUME \A w \in Workers : worker'[w].pc \in {"top", "done"}
    PROVE  Cardinality(InHand') = 0
<1>1. InHand' = {}
  BY DEF InHand
<1> QED
  BY <1>1, FS_EmptySet

LEMMA StepSpent ==
    ASSUME TypeOK, Idle, Spent, [Next]_vars
    PROVE  Spent'
<1>0. /\ inv.budget \in Nat /\ inv.processed \in Nat /\ Cardinality(Products) \in Nat
      /\ Cardinality(InHand) \in Nat
      /\ inv.budget + inv.processed + Cardinality(InHand) <= Cardinality(Products)
  BY Reserved, TypeRows, Constants DEF InvRow, Spent
<1>1. CASE Elsewhere
  <2>1. InHand' = InHand
    BY <1>1, ElsewhereFrame DEF InHand
  <2> QED
    BY <1>1, <2>1, ElsewhereFrame DEF Spent
<1>2. CASE Preflight
  <2>1. \A w \in Workers : worker'[w].pc = "done"
    BY <1>2, PreflightFrame DEF Idle
  <2>2. Cardinality(InHand') = 0
    BY <2>1, NoHand
  <2>3. NewGuard.budget = 0 /\ NewGuard.processed = 0
    BY DEF NewGuard, NoInvocation
  <2> QED
    BY <1>0, <1>2, <2>2, <2>3, PreflightFrame DEF Spent
<1>3. CASE Enter
  <2>1. CASE pc' = "run" /\ StartPool
    <3>1. Cardinality(InHand') = 0
      BY <2>1, PoolStarts, NoHand
    <3>2. inv'.budget = Cardinality(Products) /\ inv'.processed = 0
      BY <1>3, <2>1, PoolStarts, EnterFrame DEF Spent
    <3> QED
      BY <1>0, <2>1, <3>1, <3>2 DEF Spent
  <2>2. CASE pc' = "loop" /\ inv' = inv /\ worker' = worker
    <3>1. InHand' = InHand
      BY <2>2 DEF InHand
    <3> QED
      BY <2>2, <3>1 DEF Spent
  <2> QED
    BY <1>3, <2>1, <2>2, EnterFrame
<1>4. CASE Die
  <2>1. Cardinality(InHand') = 0
    BY <1>4, DieFrame, NoHand DEF Resting
  <2>2. inv'.budget = 0 /\ inv'.processed = 0 /\ pc' = "down"
    BY <1>4, DieFrame DEF NoInvocation
  <2> QED
    BY <1>0, <2>1, <2>2 DEF Spent
<1>5. ASSUME NEW w \in Workers, WorkerStep(w) \/ WorkerRaises(w)
      PROVE  Spent'
  <2> DEFINE n == Cardinality(InHand)
             m == Cardinality(InHand')
  <2>1. pc' = "run"
    BY <1>5, WorkersRun, WorkerFrame
  <2>2. /\ m \in Nat
        /\ m <= IF w \in InHand THEN n ELSE n + 1
        /\ worker'[w].pc \notin {"claim", "resolve", "offers", "report"} =>
               m = IF w \in InHand THEN n - 1 ELSE n
    BY <1>5, OneMoves, HandOf
  <2>3. n \in Nat /\ inv.budget + inv.processed + n <= Cardinality(Products)
    BY <1>0
  <2> HIDE DEF n, m
  <2>4. inv'.budget \in Nat /\ inv'.processed \in Nat
    <3>1. TypeOK'
      BY <1>5, TypeWorker
    <3> QED
      BY <3>1, TypeRowsNext, Constants DEF InvRow
  <2>5. inv'.budget + inv'.processed + m <= Cardinality(Products)
    BY <1>0, <1>5, <2>2, <2>3, <2>4, WorkerSpends
  <2> QED
    BY <2>1, <2>5 DEF Spent, m
<1> QED
  BY <1>1, <1>2, <1>3, <1>4, <1>5, Steps5

(***************************************************************************)
(* The streak of automatic resumes.                                          *)
(***************************************************************************)
\* The steps that write the run row or the history, outside the workers.
LEMMA ElsewhereRow ==
    ASSUME TypeOK, Elsewhere
    PROVE  \/ /\ run'.streak = run.streak /\ run'.done = run.done /\ resumed' = resumed
              /\ pc' = "reconcile" => pc = "reconcile" \/ run.streak < MaxAutoResumes
              /\ pc' = "resume" => pc = "resume"
           \/ /\ run'.streak = run.streak /\ run'.done = Cardinality(Completed)
              /\ resumed' = resumed /\ pc = "reconcile" /\ pc' = "resume"
           \/ /\ run'.streak = run.streak + 1 /\ run'.done = run.done
              /\ resumed' = resumed + 1 /\ pc = "resume" /\ pc' = "loop"
           \/ run' = HealthUpdated /\ resumed' = resumed /\ pc = "run" /\ pc' = "joined"
<1>0. run \in RunRow
  BY TypeRows
<1> USE DEF storeVars, dutyVars, procVars, lockVars, history
<1>1. CASE Launch \/ EnsureWindow \/ Recover \/ AutoStop \/ BuildSnapshot \/ Close
             \/ HandlerStopsDuty
  BY <1>1 DEF Launch, EnsureWindow, Recover, AutoStop, BuildSnapshot, Close, HandlerStopsDuty, Fail
<1>2. CASE Stopped
  BY <1>2 DEF Stopped
<1>3. CASE Reconcile
  <2>1. run' = Checkpointed \/ run' = run
    BY <1>3 DEF Reconcile
  <2> QED
    BY <1>3, <2>1, Checkpoints DEF Reconcile, Fail
<1>4. CASE AutoResume
  <2>1. CASE MayResume
    BY <1>0, <1>4, <2>1 DEF AutoResume, RunRow
  <2>2. CASE ~MayResume
    BY <1>4, <2>2 DEF AutoResume, Fail
  <2> QED
    BY <2>1, <2>2
<1>5. CASE Join
  BY <1>5 DEF Join, Fail
<1>6. CASE Joined \/ Handler
  <2>1. run' = run \/ \E kind : run' = [run EXCEPT !.status = "auto_stopped", !.stop = kind]
    BY <1>6 DEF Joined, Handler, MarkStopped
  <2>2. run'.streak = run.streak /\ run'.done = run.done
    BY <1>0, <2>1 DEF RunRow
  <2> QED
    BY <1>6, <2>2 DEF Joined, Handler
<1>7. CASE Terminate \/ TimePasses \/ \E p \in Products : LeaseExpires(p)
  BY <1>7 DEF Terminate, TimePasses, LeaseExpires
<1>8. CASE WeeklyBegins \/ WeeklyTakes \/ WeeklyEnds \/ WeeklyGivesUp \/ ArchiveTakes
             \/ ArchiveEnds \/ UNCHANGED vars
  BY <1>8 DEF WeeklyBegins, WeeklyTakes, WeeklyEnds, WeeklyGivesUp, ArchiveTakes, ArchiveEnds,
              vars
<1> QED
  BY <1>1, <1>2, <1>3, <1>4, <1>5, <1>6, <1>7, <1>8 DEF Elsewhere

\* A worker checkpoints, finishes a product, writes one it did not finish, or
\* writes none.
LEMMA WorkerRow ==
    ASSUME TypeOK, NEW w \in Workers, WorkerStep(w) \/ WorkerRaises(w)
    PROVE  \/ /\ item' = item /\ run' = run /\ resumed' = resumed
              /\ worker'[w].pc \in AtWork => worker'[w].product \in Remaining
           \/ /\ item' = item /\ run' = HealthUpdated /\ resumed' = resumed
              /\ worker'[w].pc = "top"
           \/ /\ worker[w].pc \in AtWork /\ run' = run /\ resumed' = resumed
              /\ worker'[w].product = worker[w].product
              /\ \A p \in Products \ {worker[w].product} : item'[p] = item[p]
              /\ item'[worker[w].product].status # "enriched"
           \/ run' = run /\ resumed' = 0
<1>0. item \in [Products -> ItemRow] /\ worker \in [Workers -> WorkRow]
      /\ worker[w].product \in Products
  BY TypeRows DEF WorkRow
<1> USE DEF storeVars, history, AtWork
<1>1. CASE Top(w) \/ Report(w)
  BY <1>0, <1>1 DEF Top, Report, Goto, WorkRow
<1>2. CASE Claim(w)
  <2>1. CASE Unleased = {}
    BY <1>0, <1>2, <2>1 DEF Claim, Goto, WorkRow
  <2>2. CASE Unleased # {}
    <3>1. PICK p \in Remaining, at \in Steps :
              worker' = [worker EXCEPT ![w].product = p, ![w].pc = at]
      BY <1>2, <2>2, FirstUnleased DEF Claim, Steps
    <3>2. worker'[w].product = p
      BY <1>0, <3>1 DEF WorkRow
    <3> QED
      BY <1>2, <2>2, <3>2 DEF Claim
  <2> QED
    BY <2>1, <2>2
<1>3. CASE Resolve(w)
  BY <1>0, <1>3 DEF Resolve, Write, Goto, Outcome, ItemRow, WorkRow
<1>4. CASE Offers(w)
  BY <1>0, <1>4 DEF Offers, Write, Outcome, ItemRow, WorkRow
<1>5. CASE Checkpoint(w)
  BY <1>0, <1>5 DEF Checkpoint, Goto, WorkRow
<1>6. CASE Finish(w) \/ WorkerRaises(w)
  BY <1>0, <1>6 DEF Finish, WorkerRaises, Resting
<1> QED
  BY <1>1, <1>2, <1>3, <1>4, <1>5, <1>6 DEF WorkerStep, Process

LEMMA StepStreak ==
    ASSUME TypeOK, Idle, StreakKept, [Next]_vars
    PROVE  StreakKept'
<1>0. /\ run \in RunRow /\ run.streak \in Nat /\ run.done \in Nat /\ inv.initial \in Nat
      /\ resumed \in Nat /\ Cardinality(Completed) \in Nat /\ MaxAutoResumes \in Nat
  <2>1. run \in RunRow /\ inv \in InvRow /\ resumed \in Nat
    BY TypeRows
  <2>2. run.streak \in 0..MaxAutoResumes /\ run.done \in UpTo /\ inv.initial \in UpTo
    BY <2>1 DEF RunRow, InvRow
  <2>3. MaxAutoResumes \in Nat
    BY Limits
  <2>4. run.done \in Nat /\ inv.initial \in Nat /\ Cardinality(Completed) \in Nat
    BY <2>2, Counted, Constants, Zenon
  <2> QED
    BY <2>1, <2>2, <2>3, <2>4
<1>1. CASE Elsewhere
  <2>1. Completed' = Completed
    BY <1>1, ElsewhereFrame DEF Completed
  <2>2. inv' = inv /\ worker' = worker /\ (pc' \in {"enter", "run"} => pc' = pc)
    BY <1>1, ElsewhereFrame
  <2>3. CASE /\ run'.streak = run.streak /\ run'.done = run.done /\ resumed' = resumed
             /\ pc' = "reconcile" => pc = "reconcile" \/ run.streak < MaxAutoResumes
             /\ pc' = "resume" => pc = "resume"
    BY <2>1, <2>2, <2>3 DEF StreakKept
  <2>4. CASE /\ run'.streak = run.streak /\ run'.done = Cardinality(Completed)
             /\ resumed' = resumed /\ pc = "reconcile" /\ pc' = "resume"
    BY <2>1, <2>2, <2>4 DEF StreakKept
  <2>5. CASE /\ run'.streak = run.streak + 1 /\ run'.done = run.done
             /\ resumed' = resumed + 1 /\ pc = "resume" /\ pc' = "loop"
    BY <1>0, <2>1, <2>2, <2>5 DEF StreakKept, Idle, AtWork
  <2>6. CASE run' = HealthUpdated /\ resumed' = resumed /\ pc = "run" /\ pc' = "joined"
    <3>1. /\ run'.done = Cardinality(Completed)
          /\ run'.streak = IF Cardinality(Completed) > inv.initial THEN 0 ELSE run.streak
      BY <2>6, Checkpoints
    <3> QED
      BY <1>0, <2>1, <2>2, <2>6, <3>1 DEF StreakKept
  <2> QED
    BY <1>1, <2>3, <2>4, <2>5, <2>6, ElsewhereRow
<1>2. CASE Preflight
  <2>1. Completed' = Completed
    BY <1>2, PreflightFrame DEF Completed
  <2>2. NewGuard.initial = run.done
    BY DEF NewGuard, NoInvocation
  <2>3. pc' \notin {"reconcile", "resume"}
    BY <1>2 DEF Preflight, Fail
  <2> QED
    BY <1>0, <1>2, <2>1, <2>2, <2>3, PreflightFrame DEF StreakKept
<1>3. CASE Enter
  <2>1. Completed' = Completed
    BY <1>3, EnterFrame DEF Completed
  <2>2. \/ pc' = "run" /\ inv'.initial = inv.initial
           /\ \A w \in Workers : worker'[w].pc = "top"
        \/ pc' = "loop" /\ inv' = inv /\ worker' = worker
    BY <1>3, EnterFrame, PoolStarts
  <2> QED
    BY <1>0, <1>3, <2>1, <2>2, EnterFrame DEF StreakKept, AtWork
<1>4. CASE Die
  <2>1. Completed' = Completed
    BY <1>4, DieFrame DEF Completed
  <2>2. \A w \in Workers : worker'[w].pc = "done"
    BY <1>4, DieFrame DEF Resting
  <2> QED
    BY <1>4, <2>1, <2>2, DieFrame DEF StreakKept, AtWork
<1>5. ASSUME NEW w \in Workers, WorkerStep(w) \/ WorkerRaises(w)
      PROVE  StreakKept'
  <2>1. pc = "run" /\ pc' = "run" /\ inv'.initial = inv.initial
        /\ \A v \in Workers \ {w} : worker'[v] = worker[v]
    BY <1>5, WorkersRun, WorkerFrame, OneMoves
  <2>2. CASE /\ item' = item /\ run' = run /\ resumed' = resumed
             /\ worker'[w].pc \in AtWork => worker'[w].product \in Remaining
    <3>1. Completed' = Completed /\ \A p \in Remaining : p \notin Completed
      BY <2>2 DEF Completed, Remaining, Claimable
    <3>2. resumed' > 0 => \A v \in Workers : worker'[v].pc \in AtWork =>
                                                worker'[v].product \notin Completed'
      BY <2>1, <2>2, <3>1 DEF StreakKept
    <3> QED
      BY <2>1, <2>2, <3>1, <3>2 DEF StreakKept
  <2>3. CASE /\ item' = item /\ run' = HealthUpdated /\ resumed' = resumed
             /\ worker'[w].pc = "top"
    <3>1. Completed' = Completed
      BY <2>3 DEF Completed
    <3>2. /\ run'.done = Cardinality(Completed)
          /\ run'.streak = IF Cardinality(Completed) > inv.initial THEN 0 ELSE run.streak
      BY <2>3, Checkpoints
    <3>3. resumed' > 0 => \A v \in Workers : worker'[v].pc \in AtWork =>
                                                worker'[v].product \notin Completed'
      BY <2>1, <2>3, <3>1 DEF StreakKept, AtWork
    <3> QED
      BY <1>0, <2>1, <2>3, <3>1, <3>2, <3>3 DEF StreakKept
  <2>4. CASE /\ worker[w].pc \in AtWork /\ run' = run /\ resumed' = resumed
             /\ worker'[w].product = worker[w].product
             /\ \A p \in Products \ {worker[w].product} : item'[p] = item[p]
             /\ item'[worker[w].product].status # "enriched"
    <3>1. resumed > 0 => worker[w].product \notin Completed
      BY <2>4 DEF StreakKept
    <3>2. worker[w].product \notin Completed => Completed' = Completed
      BY <2>4 DEF Completed
    <3>3. resumed' > 0 => \A v \in Workers : worker'[v].pc \in AtWork =>
                                                worker'[v].product \notin Completed'
      BY <2>1, <2>4, <3>1, <3>2 DEF StreakKept
    <3> QED
      BY <1>0, <2>1, <2>4, <3>1, <3>2, <3>3 DEF StreakKept
  <2>5. CASE run' = run /\ resumed' = 0
    BY <1>0, <2>1, <2>5 DEF StreakKept
  <2> QED
    BY <1>5, <2>2, <2>3, <2>4, <2>5, WorkerRow
<1> QED
  BY <1>1, <1>2, <1>3, <1>4, <1>5, Steps5

(***************************************************************************)
(* The writer lock of the catalog.                                           *)
(***************************************************************************)
LEMMA StepUnderLock ==
    ASSUME TypeOK, UnderLock, [Next]_vars
    PROVE  UnderLock'
<1> USE DEF storeVars, dutyVars, procVars, lockVars, history, Inside, UnderLock
<1>1. CASE Launch \/ EnsureWindow \/ Stopped \/ Reconcile \/ AutoResume \/ Recover \/ Preflight
             \/ Enter
  BY <1>1 DEF Launch, EnsureWindow, Stopped, Reconcile, AutoResume, Recover, Preflight, Enter, Fail
<1>2. CASE Join \/ Joined \/ AutoStop \/ BuildSnapshot \/ Close \/ Handler \/ HandlerStopsDuty
  BY <1>2 DEF Join, Joined, AutoStop, BuildSnapshot, Close, Handler, HandlerStopsDuty, Fail, Free
<1>3. ASSUME NEW w \in Workers, WorkerStep(w) \/ WorkerRaises(w)
      PROVE  UnderLock'
  BY <1>3, WorkerFrame
<1>4. CASE Die \/ Terminate \/ TimePasses \/ \E p \in Products : LeaseExpires(p)
  BY <1>4 DEF Die, Terminate, TimePasses, LeaseExpires
<1>5. CASE WeeklyBegins \/ WeeklyTakes \/ WeeklyEnds \/ WeeklyGivesUp \/ ArchiveTakes
             \/ ArchiveEnds \/ UNCHANGED vars
  BY <1>5 DEF WeeklyBegins, WeeklyTakes, WeeklyEnds, WeeklyGivesUp, ArchiveTakes, ArchiveEnds,
              vars
<1> QED
  BY <1>1, <1>2, <1>3, <1>4, <1>5 DEF Next, MainStep

(***************************************************************************)
(* The invariant, and what follows from it.                                  *)
(***************************************************************************)
LEMMA Initially ==
    ASSUME Init
    PROVE  IInv
<1>1. TypeOK
  BY TypeInit
<1>2. \A w \in Workers : worker[w].pc = "done"
  BY DEF Init, Resting
<1>3. Idle /\ Announced /\ StreakKept /\ UnderLock
  BY <1>2, Limits DEF Init, Idle, Announced, StreakKept, AtWork, UnderLock, Inside
<1>4. Spent
  <2>1. InHand = {}
    BY <1>2 DEF InHand
  <2>2. Cardinality(InHand) = 0
    BY <2>1, FS_EmptySet
  <2> QED
    BY <2>2, Constants DEF Init, Spent, NoInvocation
<1> QED
  BY <1>1, <1>3, <1>4 DEF IInv

LEMMA StepType ==
    ASSUME TypeOK, Spent, StreakKept, [Next]_vars
    PROVE  TypeOK'
<1>1. \/ Launch \/ EnsureWindow \/ Stopped \/ Recover \/ Preflight \/ Enter
      \/ Reconcile \/ AutoResume \/ Join \/ Joined \/ AutoStop \/ BuildSnapshot \/ Close
      \/ Handler \/ HandlerStopsDuty
      \/ \E w \in Workers : WorkerStep(w) \/ WorkerRaises(w)
      \/ Die \/ Terminate \/ TimePasses \/ \E p \in Products : LeaseExpires(p)
      \/ WeeklyBegins \/ WeeklyTakes \/ WeeklyEnds \/ WeeklyGivesUp
      \/ ArchiveTakes \/ ArchiveEnds \/ UNCHANGED vars
  BY Zenon DEF Next, MainStep
<1> QED
  BY <1>1, TypeLoop, TypeStops, TypeWorker, TypeAround, Zenon

LEMMA Invariance == Spec => []IInv
<1>1. IInv /\ [Next]_vars => IInv'
  BY StepType, StepIdle, StepSpent, StepAnnounced, StepStreak, StepUnderLock, Zenon DEF IInv
<1> QED
  BY <1>1, Initially, PTL DEF Spec

\* The type invariant: the counters of an invocation never leave the number of
\* products, although two threads reserve, return and spend its budget.
THEOREM BootstrapTypeCorrect == Spec => []TypeOK
<1>1. IInv => TypeOK
  BY DEF IInv
<1> QED
  BY <1>1, Invariance, PTL

\* Once the weekly refresh has published its intent each worker leases at most the
\* one product it was about to lease.
THEOREM HandOffBounded == Spec => []HandOffIsBounded
<1>1. IInv => HandOffIsBounded
  BY DEF IInv, Announced, HandOffIsBounded
<1> QED
  BY <1>1, Invariance, PTL

\* Automatic resumes without a finished product in between stay within the limit.
THEOREM ResumesBounded == Spec => []ResumesAreBounded
<1>1. IInv => ResumesAreBounded
  <2> SUFFICES ASSUME IInv
               PROVE  resumed <= MaxAutoResumes
    BY DEF ResumesAreBounded
  <2>1. run \in RunRow /\ resumed \in Nat /\ resumed <= run.streak
    BY TypeRows DEF IInv, StreakKept
  <2>2. run.streak \in 0..MaxAutoResumes /\ MaxAutoResumes \in Nat
    BY <2>1, Limits DEF RunRow
  <2> QED
    BY <2>1, <2>2
<1> QED
  BY <1>1, Invariance, PTL

\* While a worker is at a product, and while the window closes, no weekly refresh and
\* no archive is inside the catalog; only the handler of main writes without the lock.
THEOREM WindowsHoldTheLock ==
    Spec => []((\E w \in Workers : worker[w].pc # "done") \/ pc \in Inside => writer = "qogita")
<1>1. IInv => ((\E w \in Workers : worker[w].pc # "done") \/ pc \in Inside => writer = "qogita")
  BY DEF IInv, Idle, UnderLock, Inside
<1> QED
  BY <1>1, Invariance, PTL

(***************************************************************************)
(* Snapshots.  The store does not ask whether a lease is still its worker's:  *)
(* what depends on that is said of the products outside `overrun`.           *)
(***************************************************************************)

\* A leased product is not finished, a worker holds the lease of its product unless
\* that ended under it, and no worker is at a product that readers see.
Leased == \A p \in Products : claim[p] # NoClaim => item[p].status \in Claimable
Held == \A w \in Workers : worker[w].pc \in AtWork /\ worker[w].product \notin overrun =>
            claim[worker[w].product] = [by |-> w, expired |-> FALSE]
Apart == \A w \in Workers : worker[w].pc \in AtWork => worker[w].product \notin served
Whole == Unfinished \subseteq overrun /\ served \subseteq Completed
Kept == Completed \subseteq Completed' \cup overrun'

SInv == IInv /\ Leased /\ Held /\ Apart /\ Whole

LEMMA ElsewhereLeases ==
    ASSUME TypeOK, Idle, Elsewhere
    PROVE  \/ claim' = claim /\ overrun' = overrun
           \/ pc # "run" /\ claim' = [p \in Products |-> NoClaim] /\ overrun' = overrun
           \/ \E p \in Products : /\ claim[p].by # Nobody
                                 /\ claim' = [claim EXCEPT ![p].expired = TRUE]
                                 /\ overrun' = IF claim[p].by = Dead THEN overrun
                                               ELSE overrun \cup {p}
<1> USE DEF storeVars, dutyVars, procVars, lockVars, history
<1>1. CASE Launch \/ EnsureWindow \/ Stopped \/ Reconcile \/ AutoResume \/ Recover
  BY <1>1 DEF Launch, EnsureWindow, Stopped, Reconcile, AutoResume, Recover
<1>2. CASE Join \/ AutoStop \/ BuildSnapshot \/ Close \/ HandlerStopsDuty
  BY <1>2 DEF Join, AutoStop, BuildSnapshot, Close, HandlerStopsDuty
<1>3. CASE Joined \/ Handler
  BY <1>3 DEF Joined, Handler, MarkStopped
<1>4. CASE Terminate \/ TimePasses
  BY <1>4 DEF Terminate, TimePasses
<1>5. ASSUME NEW p \in Products, LeaseExpires(p)
      PROVE  /\ claim[p].by # Nobody
             /\ claim' = [claim EXCEPT ![p].expired = TRUE]
             /\ overrun' = IF claim[p].by = Dead THEN overrun ELSE overrun \cup {p}
  BY <1>5 DEF LeaseExpires
<1>6. CASE WeeklyBegins \/ WeeklyTakes \/ WeeklyEnds \/ WeeklyGivesUp \/ ArchiveTakes
             \/ ArchiveEnds \/ UNCHANGED vars
  BY <1>6 DEF WeeklyBegins, WeeklyTakes, WeeklyEnds, WeeklyGivesUp, ArchiveTakes, ArchiveEnds,
              vars
<1> QED
  BY <1>1, <1>2, <1>3, <1>4, <1>5, <1>6 DEF Elsewhere

\* A worker leases a product, gives up leases of its own, or writes its product.
LEMMA WorkerLeases ==
    ASSUME TypeOK, NEW w \in Workers, WorkerStep(w) \/ WorkerRaises(w)
    PROVE  \/ /\ item' = item
              /\ \E p \in Unleased :
                    /\ claim' = [Released(Expired) EXCEPT ![p] = [by |-> w, expired |-> FALSE]]
                    /\ worker'[w].product = p
           \/ /\ item' = item /\ worker'[w].pc \notin AtWork
              /\ \A q \in Products : \/ claim'[q] = claim[q]
                                     \/ claim[q].by = w
           \/ /\ worker[w].pc \in AtWork
              /\ \A q \in Products \ {worker[w].product} : item'[q] = item[q]
              /\ LET p == worker[w].product IN
                 \/ /\ claim' = claim /\ worker'[w].product = p
                    /\ item'[p].status = "fid_resolved" /\ item'[p].rows = item[p].rows
                 \/ /\ claim' = Released({p}) /\ worker'[w].pc \notin AtWork
                    /\ \/ item'[p].status = "enriched"
                       \/ item'[p].status # "enriched" /\ item'[p].rows = item[p].rows
<1>0. /\ item \in [Products -> ItemRow] /\ worker \in [Workers -> WorkRow]
      /\ claim \in [Products -> ClaimRow] /\ worker[w].product \in Products
  BY TypeRows DEF WorkRow
<1> USE DEF storeVars, AtWork
<1>1. CASE Top(w) \/ Report(w) \/ Checkpoint(w)
  BY <1>0, <1>1 DEF Top, Report, Checkpoint, Goto, WorkRow
<1>2. CASE Claim(w)
  <2>1. CASE Unleased = {}
    BY <1>0, <1>2, <2>1 DEF Claim, Goto, WorkRow
  <2>2. CASE Unleased # {}
    <3>1. PICK p \in Unleased : p = Min(Unleased)
      BY <2>2, FirstUnleased
    <3>2. PICK at \in Steps : worker' = [worker EXCEPT ![w].product = p, ![w].pc = at]
      BY <1>2, <2>2, <3>1 DEF Claim, Steps
    <3>3. worker'[w].product = p
      BY <1>0, <3>2 DEF WorkRow
    <3>4. claim' = [Released(Expired) EXCEPT ![p] = [by |-> w, expired |-> FALSE]]
          /\ item' = item
      BY <1>2, <2>2, <3>1 DEF Claim
    <3> QED
      BY <3>3, <3>4
  <2> QED
    BY <2>1, <2>2
<1>3. CASE Resolve(w)
  BY <1>0, <1>3 DEF Resolve, Write, Goto, Outcome, ItemRow, WorkRow
<1>4. CASE Offers(w)
  BY <1>0, <1>4 DEF Offers, Write, Outcome, ItemRow, WorkRow
<1>5. CASE Finish(w) \/ WorkerRaises(w)
  <2>1. item' = item /\ worker'[w].pc \notin AtWork
    BY <1>0, <1>5 DEF Finish, WorkerRaises, Resting
  <2>2. claim' \in {Orphaned({w}), Released({p \in Products : claim[p].by = w})}
    BY <1>5 DEF Finish, WorkerRaises
  <2>3. \A q \in Products : claim'[q] = claim[q] \/ claim[q].by = w
    BY <1>0, <2>2 DEF Orphaned, Released
  <2> QED
    BY <2>1, <2>3
<1> QED
  BY <1>1, <1>2, <1>3, <1>4, <1>5 DEF WorkerStep, Process

\* Readers: only the build of a snapshot writes what they see.
LEMMA Served ==
    ASSUME [Next]_vars
    PROVE  (served' = served /\ active' = active) \/ (BuildSnapshot /\ Elsewhere)
<1> USE DEF dutyVars, procVars, lockVars, storeVars, history
<1>1. CASE Launch \/ EnsureWindow \/ Stopped \/ Reconcile \/ AutoResume \/ Recover \/ Preflight
             \/ Enter
  BY <1>1 DEF Launch, EnsureWindow, Stopped, Reconcile, AutoResume, Recover, Preflight, Enter
<1>2. CASE Join \/ Joined \/ AutoStop \/ Close \/ Handler \/ HandlerStopsDuty
  BY <1>2 DEF Join, Joined, AutoStop, Close, Handler, HandlerStopsDuty
<1>3. ASSUME NEW w \in Workers, WorkerStep(w) \/ WorkerRaises(w)
      PROVE  served' = served /\ active' = active
  BY <1>3 DEF WorkerStep, Process, Top, Claim, Resolve, Offers, Report, Checkpoint, Finish,
              WorkerRaises
<1>4. CASE Die \/ Terminate \/ TimePasses \/ \E p \in Products : LeaseExpires(p)
  BY <1>4 DEF Die, Terminate, TimePasses, LeaseExpires
<1>5. CASE WeeklyBegins \/ WeeklyTakes \/ WeeklyEnds \/ WeeklyGivesUp \/ ArchiveTakes
             \/ ArchiveEnds \/ UNCHANGED vars
  BY <1>5 DEF WeeklyBegins, WeeklyTakes, WeeklyEnds, WeeklyGivesUp, ArchiveTakes, ArchiveEnds,
              vars
<1>6. BuildSnapshot => Elsewhere
  BY DEF Elsewhere
<1> QED
  BY <1>1, <1>2, <1>3, <1>4, <1>5, <1>6 DEF Next, MainStep

LEMMA Snapshot ==
    ASSUME BuildSnapshot
    PROVE  \/ served' = Completed /\ active' = TRUE
           \/ served' = served /\ active' = active
BY DEF BuildSnapshot

LEMMA HeldBy ==
    ASSUME Held
    PROVE  \A w \in Workers : worker[w].pc \in AtWork =>
               worker[w].product \in overrun \/ claim[worker[w].product].by = w
<1>1. \A w \in Workers : [by |-> w, expired |-> FALSE].by = w
  OBVIOUS
<1> QED
  BY <1>1, Zenon DEF Held

\* What the conjuncts need of a step that writes no product.
LEMMA NoWrite ==
    ASSUME TypeOK, Leased, Held, Apart, Whole, item' = item, overrun \subseteq overrun',
           \/ served' = served
           \/ served' = Completed /\ \A w \in Workers : worker'[w].pc \notin AtWork,
           \A w \in Workers : \/ worker'[w].pc \notin AtWork
                              \/ worker'[w] = worker[w],
           \A p \in Products : claim'[p] # claim[p] =>
               /\ claim'[p] = NoClaim \/ claim[p] # NoClaim
               /\ \A w \in Workers : worker'[w].pc \in AtWork =>
                      worker[w].product # p \/ p \in overrun'
    PROVE  Leased' /\ Held' /\ Apart' /\ Whole' /\ Kept
<1>0. \A w \in Workers : worker[w].product \in Products
  BY TypeRows DEF WorkRow
<1>1. Leased'
  BY DEF Leased
<1>2. Held'
  <2> SUFFICES ASSUME NEW w \in Workers, worker'[w].pc \in AtWork, worker'[w].product \notin overrun'
               PROVE  claim'[worker'[w].product] = [by |-> w, expired |-> FALSE]
    BY DEF Held
  <2>1. worker'[w] = worker[w] /\ worker[w].product \notin overrun
    OBVIOUS
  <2>2. claim'[worker[w].product] = claim[worker[w].product]
    BY <1>0, <2>1
  <2> QED
    BY <2>1, <2>2 DEF Held
<1>3. Apart'
  BY DEF Apart
<1>4. Completed' = Completed /\ Unfinished' = Unfinished
  BY DEF Completed, Unfinished
<1>5. Whole' /\ Kept
  BY <1>4 DEF Whole, Kept
<1> QED
  BY <1>1, <1>2, <1>3, <1>5

\* A worker that leases, or writes: nobody else is at its product unless its lease
\* ended under a worker.
LEMMA WorkerSnap ==
    ASSUME TypeOK, Leased, Held, Apart, Whole, NEW w \in Workers, WorkerStep(w) \/ WorkerRaises(w),
           served' = served, overrun' = overrun
    PROVE  Leased' /\ Held' /\ Apart' /\ Whole' /\ Kept
<1>0. /\ item \in [Products -> ItemRow] /\ worker \in [Workers -> WorkRow]
      /\ claim \in [Products -> ClaimRow]
      /\ \A v \in Workers : worker[v].product \in Products
      /\ \A v \in Workers \ {w} : worker'[v] = worker[v]
      /\ Dead \notin Workers /\ Nobody \notin Workers
  <2>1. Dead \notin Workers /\ Nobody \notin Workers
    BY Constants DEF Dead, Nobody
  <2>2. \A v \in Workers \ {w} : worker'[v] = worker[v]
    BY OneMoves
  <2> QED
    BY <2>1, <2>2, TypeRows DEF WorkRow
<1>1. ASSUME item' = item, NEW p \in Unleased,
             claim' = [Released(Expired) EXCEPT ![p] = [by |-> w, expired |-> FALSE]],
             worker'[w].product = p
      PROVE  Leased' /\ Held' /\ Apart' /\ Whole' /\ Kept
  <2>1. p \in Products /\ item[p].status \in Claimable /\ (claim[p] = NoClaim \/ claim[p].expired)
    BY DEF Unleased, Remaining
  <2>2. /\ claim'[p] = [by |-> w, expired |-> FALSE]
        /\ \A q \in Products \ {p} : claim'[q] = IF q \in Expired THEN NoClaim ELSE claim[q]
    BY <1>1, <2>1 DEF Released
  <2>3. Leased'
    BY <1>1, <2>1, <2>2 DEF Leased
  <2>4. Held'
    <3> SUFFICES ASSUME NEW v \in Workers, worker'[v].pc \in AtWork,
                        worker'[v].product \notin overrun
                 PROVE  claim'[worker'[v].product] = [by |-> v, expired |-> FALSE]
      BY DEF Held
    <3>1. CASE v = w
      BY <1>1, <2>2, <3>1
    <3>2. CASE v # w
      <4>1. claim[worker[v].product] = [by |-> v, expired |-> FALSE]
            /\ worker'[v].product = worker[v].product
        BY <1>0, <3>2 DEF Held
      <4>2. claim[worker[v].product] # NoClaim /\ ~claim[worker[v].product].expired
        BY <1>0, <4>1 DEF NoClaim
      <4>3. worker[v].product # p /\ worker[v].product \notin Expired
        BY <2>1, <4>2 DEF Expired
      <4> QED
        BY <1>0, <2>2, <4>1, <4>3
    <3> QED
      BY <3>1, <3>2
  <2>5. p \notin served
    BY <2>1 DEF Whole, Completed, Claimable
  <2>6. Apart'
    BY <1>0, <1>1, <2>5 DEF Apart
  <2>7. Completed' = Completed /\ Unfinished' = Unfinished
    BY <1>1 DEF Completed, Unfinished
  <2>8. Whole' /\ Kept
    BY <2>7 DEF Whole, Kept
  <2> QED
    BY <2>3, <2>4, <2>6, <2>8
<1>2. CASE /\ item' = item /\ worker'[w].pc \notin AtWork
           /\ \A q \in Products : \/ claim'[q] = claim[q]
                                  \/ claim[q].by = w
  <2>1. \A q \in Products : claim[q].by = w => claim[q] # NoClaim
    BY <1>0 DEF NoClaim
  <2>2. \A q \in Products : claim'[q] # claim[q] =>
            \A v \in Workers : worker'[v].pc \in AtWork => worker[v].product # q \/ q \in overrun
    BY <1>0, <1>2, HeldBy
  <2> QED
    BY <1>0, <1>2, <2>1, <2>2, NoWrite
<1>3. ASSUME worker[w].pc \in AtWork,
             NEW p \in Products, p = worker[w].product,
             \A q \in Products \ {p} : item'[q] = item[q],
             \/ /\ claim' = claim /\ worker'[w].product = p
                /\ item'[p].status = "fid_resolved" /\ item'[p].rows = item[p].rows
             \/ /\ claim' = Released({p}) /\ worker'[w].pc \notin AtWork
                /\ \/ item'[p].status = "enriched"
                   \/ item'[p].status # "enriched" /\ item'[p].rows = item[p].rows
      PROVE  Leased' /\ Held' /\ Apart' /\ Whole' /\ Kept
  <2>1. p \in overrun \/ claim[p] = [by |-> w, expired |-> FALSE]
    BY <1>3 DEF Held
  <2>2. p \in overrun \/ item[p].status \in Claimable
    BY <1>0, <2>1 DEF Leased, NoClaim
  <2>3. \A q \in Products : claim'[q] = claim[q] \/ (q = p /\ claim'[q] = NoClaim)
    BY <1>3 DEF Released
  <2>4. Leased'
    BY <1>3, <2>3 DEF Leased, Claimable, Released
  <2>5. Held'
    <3> SUFFICES ASSUME NEW v \in Workers, worker'[v].pc \in AtWork,
                        worker'[v].product \notin overrun
                 PROVE  claim'[worker'[v].product] = [by |-> v, expired |-> FALSE]
      BY DEF Held
    <3>1. CASE v = w
      BY <1>3, <2>1, <3>1
    <3>2. CASE v # w
      <4>1. claim[worker[v].product] = [by |-> v, expired |-> FALSE]
            /\ worker'[v].product = worker[v].product
        BY <1>0, <3>2 DEF Held
      <4>2. worker[v].product # p
        BY <2>1, <3>2, <4>1
      <4> QED
        BY <1>0, <2>3, <4>1, <4>2
    <3> QED
      BY <3>1, <3>2
  <2>6. p \notin served /\ Apart'
    BY <1>0, <1>3 DEF Apart
  <2>7. \A q \in Completed : q # p => q \in Completed'
    BY <1>3 DEF Completed
  <2>8. p \in Completed => p \in overrun
    BY <2>2 DEF Completed, Claimable
  <2>9. served \subseteq Completed' /\ Kept
    BY <2>6, <2>7, <2>8 DEF Whole, Kept
  <2>10. Unfinished' \subseteq overrun
    <3> SUFFICES ASSUME NEW q \in Products, item'[q].rows > 0, item'[q].status # "enriched",
                        q \notin overrun
                 PROVE  FALSE
      BY DEF Unfinished
    <3>1. CASE q # p
      BY <1>3, <3>1 DEF Whole, Unfinished
    <3>2. CASE q = p
      <4>1. item'[p].rows = item[p].rows
        BY <1>3, <3>2
      <4>2. item[p].status # "enriched"
        BY <2>2, <3>2 DEF Claimable
      <4> QED
        BY <3>2, <4>1, <4>2 DEF Whole, Unfinished
    <3> QED
      BY <3>1, <3>2
  <2> QED
    BY <2>4, <2>5, <2>6, <2>9, <2>10 DEF Whole
<1> QED
  BY <1>0, <1>1, <1>2, <1>3, WorkerLeases

\* A snapshot is built when no worker is at a product.
LEMMA ServedStep ==
    ASSUME Idle, [Next]_vars
    PROVE  \/ served' = served
           \/ /\ served' = Completed /\ worker' = worker
              /\ \A w \in Workers : worker[w].pc \notin AtWork
<1>1. CASE BuildSnapshot
  <2>1. \A w \in Workers : worker[w].pc \notin AtWork
    BY <1>1 DEF BuildSnapshot, Idle, AtWork
  <2> QED
    BY <1>1, <2>1, Snapshot DEF BuildSnapshot
<1> QED
  BY <1>1, Served

LEMMA StepSnap ==
    ASSUME TypeOK, Idle, Leased, Held, Apart, Whole, [Next]_vars
    PROVE  Leased' /\ Held' /\ Apart' /\ Whole' /\ Kept
<1>0. \/ served' = served
      \/ /\ served' = Completed /\ worker' = worker
         /\ \A w \in Workers : worker[w].pc \notin AtWork
  BY ServedStep
<1>1. CASE Elsewhere
  <2>1. item' = item /\ worker' = worker
    BY <1>1, ElsewhereFrame
  <2>2. /\ overrun \subseteq overrun'
        /\ \A p \in Products : claim'[p] # claim[p] =>
               /\ claim'[p] = NoClaim \/ claim[p] # NoClaim
               /\ \A w \in Workers : worker'[w].pc \in AtWork =>
                      worker[w].product # p \/ p \in overrun'
    <3>1. CASE claim' = claim /\ overrun' = overrun
      BY <3>1
    <3>2. CASE pc # "run" /\ claim' = [p \in Products |-> NoClaim] /\ overrun' = overrun
      BY <2>1, <3>2 DEF Idle, AtWork
    <3>3. ASSUME NEW q \in Products, claim[q].by # Nobody,
                 claim' = [claim EXCEPT ![q].expired = TRUE],
                 overrun' = IF claim[q].by = Dead THEN overrun ELSE overrun \cup {q}
          PROVE  /\ overrun \subseteq overrun'
                 /\ \A p \in Products : claim'[p] # claim[p] =>
                       /\ claim'[p] = NoClaim \/ claim[p] # NoClaim
                       /\ \A w \in Workers : worker'[w].pc \in AtWork =>
                              worker[w].product # p \/ p \in overrun'
      <4>1. Dead \notin Workers
        BY Constants DEF Dead
      <4>2. claim[q] # NoClaim
        BY <3>3 DEF NoClaim
      <4>3. \A w \in Workers : worker[w].pc \in AtWork =>
                worker[w].product # q \/ q \in overrun'
        BY <3>3, <4>1, HeldBy
      <4>4. \A p \in Products : p # q => claim'[p] = claim[p]
        BY <3>3, TypeRows
      <4> QED
        BY <2>1, <3>3, <4>2, <4>3, <4>4
    <3> QED
      BY <1>1, <3>1, <3>2, <3>3, ElsewhereLeases
  <2> QED
    BY <1>0, <2>1, <2>2, NoWrite
<1>2. CASE Preflight \/ Enter
  <2>1. item' = item /\ claim' = claim /\ overrun' = overrun /\ served' = served
    BY <1>2 DEF Preflight, Enter, storeVars, dutyVars, history
  <2>2. worker' = worker \/ \A w \in Workers : worker'[w].pc = "top"
    BY <1>2, PreflightFrame, EnterFrame, PoolStarts
  <2> QED
    BY <2>1, <2>2, NoWrite DEF AtWork
<1>3. CASE Die
  <2>1. item' = item /\ served' = served /\ overrun' = overrun
        /\ \A w \in Workers : worker'[w].pc = "done"
    BY <1>3, DieFrame DEF Resting, Die, dutyVars, history
  <2>2. \A p \in Products : claim'[p] # claim[p] => claim[p].by \in Workers
    BY <1>3, TypeRows DEF Die, Orphaned
  <2>3. \A p \in Products : claim'[p] # claim[p] => claim[p] # NoClaim
    <3>1. NoClaim.by \notin Workers
      BY Constants DEF NoClaim, Nobody
    <3> QED
      BY <2>2, <3>1, Zenon
  <2> QED
    BY <2>1, <2>3, NoWrite DEF AtWork
<1>4. ASSUME NEW w \in Workers, WorkerStep(w) \/ WorkerRaises(w)
      PROVE  Leased' /\ Held' /\ Apart' /\ Whole' /\ Kept
  <2>1. served' = served /\ overrun' = overrun
    BY <1>4 DEF WorkerStep, Process, Top, Claim, Resolve, Offers, Report, Checkpoint, Finish,
                WorkerRaises, dutyVars, history
  <2> QED
    BY <1>4, <2>1, WorkerSnap
<1> QED
  BY <1>1, <1>2, <1>3, <1>4, Steps5

\* However two workers, crashes, retries and leases meet, scenarios of a product
\* whose lease did not end under its worker belong to a finished product that stays
\* finished, and a new snapshot holds the products of the one before.
THEOREM SnapshotsGrow == Spec => SnapshotsOnlyGrow
<1>1. Init => SInv
  <2> SUFFICES ASSUME Init
               PROVE  SInv
    OBVIOUS
  <2>1. IInv
    BY Initially
  <2>2. Leased /\ Held /\ Apart /\ Whole
    BY DEF Init, Leased, Held, Apart, Whole, Unfinished, Resting, AtWork, Completed
  <2> QED
    BY <2>1, <2>2 DEF SInv
<1>2. SInv /\ [Next]_vars => SInv' /\ Kept
  BY StepType, StepIdle, StepSpent, StepAnnounced, StepStreak, StepUnderLock, StepSnap, Zenon DEF SInv, IInv
<1>3. SInv /\ SInv' /\ [Next]_vars =>
          [/\ Unfinished' \subseteq overrun' /\ Completed \subseteq Completed' \cup overrun'
           /\ served' \subseteq Completed' /\ served \subseteq served' /\ (active => active')]_vars
  BY <1>2, Served, Snapshot, Zenon DEF SInv, Whole, Kept
<1> QED
  BY <1>1, <1>2, <1>3, PTL DEF Spec, SnapshotsOnlyGrow

================================================================================
