-------------------------- MODULE CheckpointRunProofs --------------------------
(******************************************************************************)
(* Proofs about CheckpointRun, for any sets of jobs and products, any number    *)
(* of cycles, retries and troubles.  The properties compare the two stores at   *)
(* rest; IInv says of each step of a run what its memory holds that neither     *)
(* store has yet, and what both have when the next phase is saved.              *)
(******************************************************************************)
EXTENDS CheckpointRun, FiniteSetTheorems, TLAPS

Early == Preparing \cup Checking
Unfiltered == Early \cup Loaded \cup {"catalog_complete"}

\* A checkpoint, in the file or in memory, next to the selection of its job.
Sound(c, s) ==
    /\ c.priced \subseteq c.passed /\ c.passed \subseteq c.cand
    /\ c.phase \in Unfiltered => c.passed = {}
    /\ \A p \in Products \ c.cand : c.catalog[p] = "none"
    /\ c.phase \in Early => \A p \in Products : c.catalog[p] = "none"
    /\ c.suppliers = TRUE => c.cand \subseteq s.ids
    /\ \A p \in s.analyzed : Definitive(c.catalog[p])
    /\ c.phase \in Settled => \A p \in c.cand :
          /\ c.catalog[p] # "none"
          /\ c.suppliers = TRUE /\ Definitive(c.catalog[p]) => p \in s.analyzed
    /\ c.phase \in {"fees_complete", "completed"} => FeePending(c) = {}

\* A job analyzes what it selected, in a cycle.
Selected(s) == s.analyzed \subseteq s.ids /\ (s.ids # {} => s.cycle # 0)

\* What a run has in memory and not on disk: the candidates of an early phase.
Memory ==
    runner # 0 =>
       LET c == saved[runner] IN
       /\ Sound(mem, sel[runner])
       /\ mem.phase = c.phase /\ mem.suppliers = c.suppliers
       /\ mem.catalog = c.catalog /\ mem.fee = c.fee /\ mem.passed = c.passed

\* The phase a run is in at each place of its code.
Whereabouts ==
    runner # 0 =>
       /\ pc = "select" => mem.phase \in Early /\ mem.suppliers = TRUE
       /\ pc = "selected" => mem.phase \in Early /\ mem.suppliers = TRUE
       /\ pc \in {"required", "refresh", "refreshed", "loaded"} =>
             mem.phase \in Early /\ mem.suppliers = FALSE
       /\ pc \in {"catalog", "commit", "settled"} => mem.phase \in Loaded
       /\ pc = "settled" => \A p \in mem.cand :
             /\ mem.catalog[p] # "none"
             /\ mem.suppliers = TRUE /\ Definitive(mem.catalog[p]) => p \in sel[runner].analyzed
       /\ pc \in {"fees", "outage"} => mem.phase = "competition_filtered"

\* The fee rows a run goes through are of two kinds and none is answered.
Waves ==
    runner # 0 =>
       /\ work.todo \cap work.wave = {}
       /\ \A p \in work.todo \cup work.wave : mem.fee[p] # "answered"

IInv ==
    /\ TypeOK
    /\ \A j \in Jobs : Sound(saved[j], sel[j]) /\ Selected(sel[j])
    /\ Memory /\ Whereabouts /\ Waves /\ ItemsAreBacked

-----------------------------------------------------------------------------
(* The checkpoint, one change at a time.                                       *)

LEMMA FirstIsPart ==
    ASSUME NEW S, NEW n PROVE First(S, n) \subseteq S
BY DEF First

LEMMA NewIsCheckpoint ==
    /\ New(TRUE) \in Checkpoints /\ New(FALSE) \in Checkpoints /\ Nobody \in Checkpoints
    /\ Idle \in [todo : SUBSET Products, wave : SUBSET Products, attempt : Nat]
BY DEF New, Nobody, Idle, All, Checkpoints, Phases, Preparing, Answer, Fees

\* A checkpoint changes its phase, and nothing else.
LEMMA PhaseIsSet ==
    ASSUME NEW c \in Checkpoints, NEW ph \in Phases, NEW d, d = [c EXCEPT !.phase = ph]
    PROVE /\ d \in Checkpoints /\ d.phase = ph /\ d.suppliers = c.suppliers /\ d.cand = c.cand
          /\ d.catalog = c.catalog /\ d.passed = c.passed /\ d.priced = c.priced /\ d.fee = c.fee
          /\ d.before = c.before
BY DEF Checkpoints

\* The parts of a checkpoint by which it is sound.
LEMMA PartsAreSound ==
    ASSUME NEW c, NEW d, NEW s, Sound(c, s),
           d.phase = c.phase, d.suppliers = c.suppliers, d.cand = c.cand, d.catalog = c.catalog,
           d.passed = c.passed, d.priced = c.priced, d.fee = c.fee
    PROVE Sound(d, s)
BY DEF Sound, FeePending

\* A checkpoint stays sound in a phase that asks of it what it has.
LEMMA PhaseIsSound ==
    ASSUME NEW c \in Checkpoints, NEW ph \in Phases, NEW d, d = [c EXCEPT !.phase = ph],
           NEW s, Sound(c, s),
           ph \in Unfiltered => c.passed = {},
           ph \in Early => c.phase \in Early,
           ph \in Settled => \A p \in c.cand :
              /\ c.catalog[p] # "none"
              /\ c.suppliers = TRUE /\ Definitive(c.catalog[p]) => p \in s.analyzed,
           ph \in {"fees_complete", "completed"} => FeePending(c) = {}
    PROVE d \in Checkpoints /\ Sound(d, s)
<1>1. /\ d \in Checkpoints /\ d.phase = ph /\ d.suppliers = c.suppliers /\ d.cand = c.cand
      /\ d.catalog = c.catalog /\ d.passed = c.passed /\ d.priced = c.priced /\ d.fee = c.fee
  BY PhaseIsSet
<1>2. FeePending(d) = FeePending(c)
  BY <1>1 DEF FeePending
<1> QED BY <1>1, <1>2 DEF Sound

LEMMA PhasesDiffer ==
    /\ Early \cap Settled = {} /\ Loaded \cap Settled = {} /\ Early \cap Loaded = {}
    /\ Early \subseteq Unfiltered /\ Loaded \subseteq Unfiltered
    /\ Phases = Early \cup Loaded \cup Settled
    /\ Early \cap {"fees_complete", "completed"} = {} /\ Loaded \cap {"fees_complete", "completed"} = {}
    /\ Settled \cap Unfiltered = {"catalog_complete"}
BY DEF Early, Preparing, Checking, Loaded, Settled, Unfiltered, Phases

\* The candidates of an early phase are chosen anew.
LEMMA CandidatesAreSound ==
    ASSUME NEW c \in Checkpoints, NEW C \in SUBSET Products, NEW d, d = [c EXCEPT !.cand = C],
           NEW s, Sound(c, s), c.phase \in Early, c.suppliers = TRUE => C \subseteq s.ids
    PROVE /\ d \in Checkpoints /\ Sound(d, s)
          /\ d.phase = c.phase /\ d.suppliers = c.suppliers /\ d.catalog = c.catalog
          /\ d.fee = c.fee /\ d.passed = c.passed
<1>1. /\ d \in Checkpoints /\ d.phase = c.phase /\ d.suppliers = c.suppliers /\ d.cand = C
      /\ d.catalog = c.catalog /\ d.passed = c.passed /\ d.priced = c.priced /\ d.fee = c.fee
  BY DEF Checkpoints
<1>2. d.passed = {}
  BY <1>1, PhasesDiffer DEF Sound
<1> QED BY <1>1, <1>2, PhasesDiffer DEF Sound

\* A selection that grows leaves a checkpoint sound.
LEMMA SelectionIsSound ==
    ASSUME NEW c, NEW s, NEW t, Sound(c, s), s.ids \subseteq t.ids, t.analyzed = s.analyzed
    PROVE Sound(c, t)
BY DEF Sound

LEMMA AnalysisIsSound ==
    ASSUME NEW c, NEW s, NEW t, NEW D, Sound(c, s), t.ids = s.ids, t.analyzed = s.analyzed \cup D,
           \A p \in D : Definitive(c.catalog[p])
    PROVE Sound(c, t)
BY DEF Sound

-----------------------------------------------------------------------------
(* What a step does to the checkpoints and the selections.                     *)

\* A fee that c lost was never an answer.
KeepsFees(c) == \A p \in Products : mem.fee[p] = "answered" => c.fee[p] = "answered"

SameStores == sel' = sel /\ items' = items

\* A run begins with a checkpoint in which every answer of the file is left.
Begins(j) ==
    /\ runner = 0 /\ runner' = j /\ SameStores
    /\ mem' \in Checkpoints /\ Sound(mem', sel[j])
    /\ \A p \in Products : saved[j].fee[p] = "answered" => mem'.fee[p] = "answered"
    /\ saved' = [saved EXCEPT ![j] = mem']

\* A run writes the checkpoint c.
Writes(c) ==
    /\ runner # 0 /\ SameStores
    /\ c \in Checkpoints /\ Sound(c, sel[runner]) /\ KeepsFees(c)
    /\ saved' = [saved EXCEPT ![runner] = c]

GoesOn(c) == Writes(c) /\ mem' = c /\ runner' = runner
Ends(c) == Writes(c) /\ mem' = Nobody /\ runner' = 0

\* A run changes in memory what the file need not have yet.
SameProgress(c, d) ==
    /\ d.phase = c.phase /\ d.suppliers = c.suppliers
    /\ d.catalog = c.catalog /\ d.fee = c.fee /\ d.passed = c.passed

Picks ==
    /\ runner # 0 /\ SameStores /\ saved' = saved /\ runner' = runner
    /\ mem' \in Checkpoints /\ Sound(mem', sel[runner]) /\ SameProgress(mem, mem')

Commits == Commit(mem.cand) /\ runner # 0 /\ saved' = saved /\ mem' = mem /\ runner' = runner
Stays ==
    /\ SameStores /\ saved' = saved
    /\ <<runner', mem'>> = <<0, Nobody>> \/ <<runner', mem'>> = <<runner, mem>>

LEMMA MemoryIsSound ==
    ASSUME IInv, runner # 0
    PROVE /\ runner \in Jobs /\ mem \in Checkpoints /\ Sound(mem, sel[runner]) /\ saved[runner] \in Checkpoints
          /\ KeepsFees(mem)
BY DEF IInv, TypeOK, Memory, KeepsFees

\* A step that saves the phase ph.
LEMMA SavesPhase ==
    ASSUME IInv, runner # 0, SameStores, NEW ph \in Phases,
           NEW d, d = [mem EXCEPT !.phase = ph], saved' = [saved EXCEPT ![runner] = d],
           ph \in Unfiltered => mem.passed = {},
           ph \in Early => mem.phase \in Early,
           ph \in Settled => \A p \in mem.cand :
              /\ mem.catalog[p] # "none"
              /\ mem.suppliers = TRUE /\ Definitive(mem.catalog[p]) => p \in sel[runner].analyzed,
           ph \in {"fees_complete", "completed"} => FeePending(mem) = {}
    PROVE Writes(d)
<1>1. mem \in Checkpoints /\ Sound(mem, sel[runner])
  BY MemoryIsSound
<1>2. d \in Checkpoints /\ Sound(d, sel[runner])
  BY <1>1, PhaseIsSound
<1>3. d.fee = mem.fee
  BY <1>1, PhaseIsSet
<1> QED BY <1>2, <1>3 DEF Writes, KeepsFees

\* In an early phase nothing has passed; from a settled one every answer has been consumed.
LEMMA PhaseTells ==
    ASSUME IInv, runner # 0
    PROVE /\ mem.phase \in Unfiltered => mem.passed = {}
          /\ mem.phase \in Early => mem.phase \in Unfiltered
          /\ mem.phase \in Settled => \A p \in mem.cand :
              /\ mem.catalog[p] # "none"
              /\ mem.suppliers = TRUE /\ Definitive(mem.catalog[p]) => p \in sel[runner].analyzed
          /\ mem.phase \in {"fees_complete", "completed"} => FeePending(mem) = {}
          /\ mem.phase \in Phases
<1>1. mem \in Checkpoints /\ Sound(mem, sel[runner])
  BY MemoryIsSound
<1>2. mem.phase \in Phases
  BY <1>1 DEF Checkpoints
<1> QED BY <1>1, <1>2, PhasesDiffer DEF Sound

\* A step from a settled phase to a later one asks nothing more, fees apart.
LEMMA SavesSettled ==
    ASSUME IInv, runner # 0, SameStores, mem.phase \in Settled,
           NEW ph \in Settled \ {"catalog_complete"},
           NEW d, d = [mem EXCEPT !.phase = ph], saved' = [saved EXCEPT ![runner] = d],
           ph \in {"fees_complete", "completed"} => FeePending(mem) = {}
    PROVE Writes(d)
<1>1. ph \in Phases /\ ph \notin Unfiltered /\ ph \notin Early
  BY PhasesDiffer
<1> QED BY <1>1, SavesPhase, PhaseTells

LEMMA SavesEarly ==
    ASSUME IInv, runner # 0, SameStores, mem.phase \in Early,
           NEW ph \in Early \cup Loaded,
           NEW d, d = [mem EXCEPT !.phase = ph], saved' = [saved EXCEPT ![runner] = d]
    PROVE Writes(d)
<1>1. /\ ph \in Phases /\ ph \notin Settled /\ ph \notin {"fees_complete", "completed"}
  BY PhasesDiffer
<1> QED BY <1>1, SavesPhase, PhaseTells


\* What Checkpoint and Return write.
LEMMA CheckpointGoesOn ==
    ASSUME NEW m, NEW ph, NEW at, Checkpoint(m, ph, at), runner' = runner,
           Writes([m EXCEPT !.phase = ph])
    PROVE \E c : GoesOn(c)
BY DEF Checkpoint, Save, GoesOn

LEMMA ReturnEnds ==
    ASSUME NEW m, NEW ph, Return(m, ph), Writes([m EXCEPT !.phase = ph])
    PROVE \E c : Ends(c)
BY DEF Return, Ends

LEMMA KeepsStores ==
    ASSUME UNCHANGED rotationVars
    PROVE SameStores
BY DEF rotationVars, SameStores

\* The step of a run that saves the phase ph and goes on, or returns with it.
LEMMA EarlyGoesOn ==
    ASSUME IInv, runner # 0, SameStores, mem.phase \in Early, runner' = runner,
           NEW ph \in Early \cup Loaded, NEW at, Checkpoint(mem, ph, at)
    PROVE \E c : GoesOn(c)
<1>1. saved' = [saved EXCEPT ![runner] = [mem EXCEPT !.phase = ph]]
  BY DEF Checkpoint, Save
<1>2. Writes([mem EXCEPT !.phase = ph])
  BY <1>1, SavesEarly
<1> QED BY <1>2, CheckpointGoesOn

LEMMA EarlyEnds ==
    ASSUME IInv, runner # 0, SameStores, mem.phase \in Early,
           NEW ph \in Early, Return(mem, ph)
    PROVE \E c : Ends(c)
<1>1. saved' = [saved EXCEPT ![runner] = [mem EXCEPT !.phase = ph]]
  BY DEF Return
<1>2. Writes([mem EXCEPT !.phase = ph])
  BY <1>1, SavesEarly
<1> QED BY <1>2, ReturnEnds

LEMMA SettledGoesOn ==
    ASSUME IInv, runner # 0, SameStores, mem.phase \in Settled, runner' = runner,
           NEW ph \in Settled \ {"catalog_complete"}, NEW at, Checkpoint(mem, ph, at),
           ph \in {"fees_complete", "completed"} => FeePending(mem) = {}
    PROVE \E c : GoesOn(c)
<1>1. saved' = [saved EXCEPT ![runner] = [mem EXCEPT !.phase = ph]]
  BY DEF Checkpoint, Save
<1>2. Writes([mem EXCEPT !.phase = ph])
  BY <1>1, SavesSettled
<1> QED BY <1>2, CheckpointGoesOn

LEMMA SettledEnds ==
    ASSUME IInv, runner # 0, SameStores, mem.phase \in Settled,
           NEW ph \in Settled \ {"catalog_complete"}, Return(mem, ph),
           ph \in {"fees_complete", "completed"} => FeePending(mem) = {}
    PROVE \E c : Ends(c)
<1>1. saved' = [saved EXCEPT ![runner] = [mem EXCEPT !.phase = ph]]
  BY DEF Return
<1>2. Writes([mem EXCEPT !.phase = ph])
  BY <1>1, SavesSettled
<1> QED BY <1>2, ReturnEnds

LEMMA PhaseNames ==
    /\ Preparing \subseteq Early /\ Checking \subseteq Early
    /\ "supplier_preparing" \in Early /\ "supplier_preparation_failed" \in Early
    /\ {"qogita_refresh_required", "qogita_refreshing", "qogita_refresh_failed"} \subseteq Early
    /\ {"suppliers_loaded", "qogita_loaded"} \subseteq Loaded
    /\ Settled \subseteq Phases /\ Early \subseteq Phases /\ Loaded \subseteq Phases
BY DEF Early, Preparing, Checking, Loaded, Settled, Phases

\* What a place of the code says of the run.
LEMMA PlaceTells ==
    ASSUME IInv, runner # 0
    PROVE /\ pc \in {"select", "selected"} => mem.phase \in Early /\ mem.suppliers = TRUE
          /\ pc \in {"required", "refresh", "refreshed", "loaded"} => mem.phase \in Early
          /\ pc \in {"catalog", "commit", "settled"} => mem.phase \in Loaded
          /\ pc = "settled" => \A p \in mem.cand :
                /\ mem.catalog[p] # "none"
                /\ mem.suppliers = TRUE /\ Definitive(mem.catalog[p]) => p \in sel[runner].analyzed
          /\ pc \in {"fees", "outage"} => mem.phase = "competition_filtered"
          /\ \A p \in work.todo \cup work.wave : mem.fee[p] # "answered"
BY DEF IInv, Whereabouts, Waves

-----------------------------------------------------------------------------
(* One lemma for each kind of action.                                          *)

LEMMA EarlyActions ==
    ASSUME IInv, PrepareSuppliers \/ SuppliersLoaded \/ NoSupplier \/ Refreshing \/ QogitaLoaded
    PROVE (\E c : GoesOn(c)) \/ (\E c : Ends(c))
<1>1. CASE PrepareSuppliers
  <2>1. runner # 0 /\ SameStores /\ mem.phase \in Early /\ runner' = runner
    BY <1>1, PhaseNames, KeepsStores DEF PrepareSuppliers, InPhase, At, KeepRotation
  <2> QED BY <1>1, <2>1, EarlyGoesOn, PhaseNames DEF PrepareSuppliers
<1>2. CASE SuppliersLoaded
  <2>1. runner # 0 /\ SameStores /\ mem.phase \in Early /\ runner' = runner
    BY <1>2, PlaceTells, KeepsStores DEF SuppliersLoaded, At, KeepRotation
  <2> QED BY <1>2, <2>1, EarlyGoesOn, PhaseNames DEF SuppliersLoaded
<1>3. CASE NoSupplier
  <2>1. runner # 0 /\ SameStores /\ mem.phase \in Early
    BY <1>3, PlaceTells, KeepsStores DEF NoSupplier, At, KeepRotation
  <2> QED BY <1>3, <2>1, EarlyEnds, PhaseNames DEF NoSupplier
<1>4. CASE Refreshing
  <2>1. runner # 0 /\ SameStores /\ mem.phase \in Early /\ runner' = runner
    BY <1>4, PlaceTells, KeepsStores DEF Refreshing, At, KeepRotation
  <2> QED BY <1>4, <2>1, EarlyGoesOn, PhaseNames DEF Refreshing
<1>5. CASE QogitaLoaded
  <2>1. runner # 0 /\ SameStores /\ mem.phase \in Early /\ runner' = runner
    BY <1>5, PlaceTells, KeepsStores DEF QogitaLoaded, At, KeepRotation
  <2> QED BY <1>5, <2>1, EarlyGoesOn, PhaseNames DEF QogitaLoaded
<1> QED BY <1>1, <1>2, <1>3, <1>4, <1>5

\* The cache is used, or the phase saved says that a refresh is required.
LEMMA CacheIsChecked ==
    ASSUME IInv, CheckCache PROVE Picks \/ \E c : GoesOn(c)
<1> DEFINE m == [mem EXCEPT !.before = IF @ = 0 THEN cache.version + 1 ELSE @]
<1>1. /\ runner # 0 /\ SameStores /\ mem.phase \in Early /\ runner' = runner /\ mem.suppliers = FALSE
  BY PhaseNames, KeepsStores, MemoryIsSound DEF CheckCache, InPhase, At, KeepRotation, Checkpoints
<1>2. mem \in Checkpoints /\ Sound(mem, sel[runner]) /\ cache.version \in Nat
  BY <1>1, MemoryIsSound DEF IInv, TypeOK
<1>3. /\ m \in Checkpoints /\ m.phase = mem.phase /\ m.suppliers = mem.suppliers /\ m.cand = mem.cand
      /\ m.catalog = mem.catalog /\ m.passed = mem.passed /\ m.priced = mem.priced /\ m.fee = mem.fee
  BY <1>2 DEF Checkpoints
<1>4. Sound(m, sel[runner])
  BY <1>2, <1>3, PartsAreSound
<1>5. CASE Usable
  <2>1. mem' = [m EXCEPT !.cand = Products] /\ saved' = saved
    BY <1>5 DEF CheckCache
  <2>0. PICK n : n = m
    OBVIOUS
  <2> HIDE DEF m
  <2>3. /\ n \in Checkpoints /\ Sound(n, sel[runner]) /\ n.phase \in Early /\ n.suppliers = FALSE
        /\ mem' = [n EXCEPT !.cand = Products]
    BY <1>1, <1>3, <1>4, <2>0, <2>1
  <2>4. mem' \in Checkpoints /\ Sound(mem', sel[runner]) /\ SameProgress(n, mem')
    BY <2>3, CandidatesAreSound DEF SameProgress
  <2>2. mem' \in Checkpoints /\ Sound(mem', sel[runner]) /\ SameProgress(m, mem')
    BY <2>0, <2>4
  <2> QED BY <1>1, <1>3, <2>1, <2>2 DEF Picks, SameProgress
<1>6. CASE ~Usable
  <2>1. Checkpoint(m, "qogita_refresh_required", "required")
    BY <1>6 DEF CheckCache
  <2> HIDE DEF m
  <2> DEFINE d == [m EXCEPT !.phase = "qogita_refresh_required"]
  <2>2. saved' = [saved EXCEPT ![runner] = d]
    BY <2>1 DEF Checkpoint, Save
  <2>3. m.phase \in Early /\ m.passed = {} /\ "qogita_refresh_required" \in Early
    BY <1>1, <1>3, PhaseTells, PhaseNames, PhasesDiffer
  <2>4. d \in Checkpoints /\ Sound(d, sel[runner])
    BY <1>3, <1>4, <2>3, PhaseIsSound, PhasesDiffer
  <2>5. d.fee = mem.fee
    BY <1>3, PhaseIsSet, PhaseNames
  <2>6. Writes(d)
    BY <1>1, <2>2, <2>4, <2>5 DEF Writes, KeepsFees
  <2> QED BY <1>1, <2>1, <2>6, CheckpointGoesOn
<1> QED BY <1>5, <1>6

LEMMA CacheIsRefreshed ==
    ASSUME IInv, Refreshed PROVE Picks \/ \E c : Ends(c)
<1>1. runner # 0 /\ SameStores /\ mem.phase \in Early /\ mem.suppliers = FALSE
  BY KeepsStores DEF Refreshed, At, KeepRotation, IInv, Whereabouts
<1>2. mem \in Checkpoints /\ Sound(mem, sel[runner])
  BY <1>1, MemoryIsSound
<1>3. CASE cache.fresh /\ cache.version + 1 > mem.before
  <2>1. mem' = [mem EXCEPT !.cand = Products] /\ saved' = saved /\ runner' = runner
    BY <1>3 DEF Refreshed
  <2>2. mem' \in Checkpoints /\ Sound(mem', sel[runner]) /\ SameProgress(mem, mem')
    BY <1>1, <1>2, <2>1, CandidatesAreSound DEF SameProgress
  <2> QED BY <1>1, <2>1, <2>2 DEF Picks
<1>4. CASE ~(cache.fresh /\ cache.version + 1 > mem.before)
  <2>1. Return(mem, "qogita_refresh_failed")
    BY <1>4 DEF Refreshed
  <2> QED BY <1>1, <2>1, EarlyEnds, PhaseNames
<1> QED BY <1>3, <1>4

LEMMA CacheIsAsked ==
    ASSUME IInv, Refresh PROVE Stays \/ \E c : Ends(c)
<1>1. runner # 0 /\ SameStores /\ mem.phase \in Early
  BY PlaceTells, KeepsStores DEF Refresh, At
<1>2. CASE Return(mem, "qogita_refresh_failed")
  BY <1>1, <1>2, EarlyEnds, PhaseNames
<1>3. CASE UNCHANGED <<saved, runner, mem, work, count>>
  BY <1>1, <1>3 DEF Stays
<1> QED BY <1>2, <1>3 DEF Refresh

\* An answer of the catalog is for a candidate that had none.
LEMMA CatalogIsAnswered ==
    ASSUME IInv, CatalogBatch PROVE \E c : GoesOn(c)
<1>1. runner # 0 /\ SameStores /\ mem.phase \in Loaded /\ runner' = runner
  BY PlaceTells, KeepsStores DEF CatalogBatch, At, KeepRotation
<1>2. mem \in Checkpoints /\ Sound(mem, sel[runner])
  BY <1>1, MemoryIsSound
<1>3. PICK a \in Answers(First(Unanswered, Batch)) : mem' = [mem EXCEPT !.catalog = a]
  BY DEF CatalogBatch
<1>4. /\ a \in [Products -> Answer]
      /\ \A p \in Products : a[p] # mem.catalog[p] => p \in mem.cand /\ mem.catalog[p] = "none"
  BY <1>3, FirstIsPart DEF Answers, Unanswered, Answer
<1>5. mem' \in Checkpoints /\ Sound(mem', sel[runner]) /\ mem'.fee = mem.fee
  <2>1. /\ mem'.phase = mem.phase /\ mem'.suppliers = mem.suppliers /\ mem'.cand = mem.cand
        /\ mem'.catalog = a /\ mem'.passed = mem.passed /\ mem'.priced = mem.priced
        /\ mem'.fee = mem.fee /\ mem' \in Checkpoints
    BY <1>2, <1>3, <1>4 DEF Checkpoints
  <2>2. mem.phase \notin Early /\ mem.phase \notin Settled /\ mem.phase \notin {"fees_complete", "completed"}
    BY <1>1, PhasesDiffer
  <2>3. ASSUME NEW p \in sel[runner].analyzed PROVE Definitive(a[p])
    <3>1. Definitive(mem.catalog[p]) /\ p \in Products
      BY <1>1, <1>2, MemoryIsSound DEF Sound, IInv, TypeOK
    <3> QED BY <1>4, <3>1 DEF Definitive
  <2>4. \A p \in Products \ mem.cand : a[p] = "none"
    BY <1>2, <1>4 DEF Sound
  <2> QED BY <1>2, <2>1, <2>2, <2>3, <2>4 DEF Sound
<1>6. GoesOn(mem')
  BY <1>1, <1>5 DEF GoesOn, Writes, KeepsFees, CatalogBatch, Save
<1> QED BY <1>6

\* The catalog phase is saved when every answer has consumed its identifier.
LEMMA CatalogIsComplete ==
    ASSUME IInv, CatalogComplete PROVE \E c : GoesOn(c)
<1>1. runner # 0 /\ SameStores /\ mem.phase \in Loaded /\ runner' = runner /\ pc = "settled"
  BY PlaceTells, KeepsStores DEF CatalogComplete, At, KeepRotation
<1>2. saved' = [saved EXCEPT ![runner] = [mem EXCEPT !.phase = "catalog_complete"]]
  BY DEF CatalogComplete, Checkpoint, Save
<1>3. "catalog_complete" \in Settled /\ "catalog_complete" \notin Early
  BY PhasesDiffer DEF Settled
<1>4. mem.passed = {}
  BY <1>1, PhaseTells, PhasesDiffer
<1>5. Writes([mem EXCEPT !.phase = "catalog_complete"])
  BY <1>1, <1>2, <1>3, <1>4, SavesPhase, PlaceTells, PhaseNames
<1> QED BY <1>1, <1>5, CheckpointGoesOn DEF CatalogComplete

\* The filters drop candidates, and pricing asks for what passed.
LEMMA FiltersGoOn ==
    ASSUME IInv, NEW P, NEW R, NEW ph \in {"bsr_filtered", "competition_filtered"},
           runner # 0, mem.phase \in Settled, SameStores, runner' = runner,
           P \subseteq mem.cand, R \subseteq P,
           mem' = [mem EXCEPT !.passed = P, !.priced = R, !.phase = ph], Save
    PROVE GoesOn(mem')
<1>1. mem \in Checkpoints /\ Sound(mem, sel[runner])
  BY MemoryIsSound
<1>2. ph \in Settled /\ ph \in Phases /\ ph \notin Unfiltered /\ ph \notin Early
  BY PhasesDiffer DEF Settled
<1>3. /\ mem'.phase = ph /\ mem'.suppliers = mem.suppliers /\ mem'.cand = mem.cand
      /\ mem'.catalog = mem.catalog /\ mem'.passed = P /\ mem'.priced = R
      /\ mem'.fee = mem.fee /\ mem' \in Checkpoints
  BY <1>1, <1>2 DEF Checkpoints, Sound
<1>4. Sound(mem', sel[runner])
  BY <1>1, <1>2, <1>3 DEF Sound
<1> QED BY <1>3, <1>4 DEF GoesOn, Writes, KeepsFees, Save

LEMMA BsrIsFiltered ==
    ASSUME IInv, FilterBsr PROVE \E c : GoesOn(c)
<1>1. runner # 0 /\ SameStores /\ mem.phase = "catalog_complete" /\ runner' = runner
  BY KeepsStores DEF FilterBsr, InPhase, At, KeepRotation
<1>2. mem \in Checkpoints /\ Sound(mem, sel[runner]) /\ mem.priced = {}
  BY <1>1, MemoryIsSound DEF Sound, Unfiltered
<1>3. PICK P \in SUBSET {p \in mem.cand : mem.catalog[p] = "resolved"} :
         Checkpoint([mem EXCEPT !.passed = P], "bsr_filtered", "go")
  BY DEF FilterBsr
<1>0. PICK R : R = {}
  OBVIOUS
<1>4. mem' = [mem EXCEPT !.passed = P, !.priced = R, !.phase = "bsr_filtered"] /\ Save /\ R \subseteq P
  BY <1>0, <1>2, <1>3 DEF Checkpoint, Checkpoints
<1>5. P \subseteq mem.cand
  BY <1>2 DEF Checkpoints
<1>6. mem.phase \in Settled
  BY <1>1 DEF Settled
<1> HIDE <1>0
<1>7. GoesOn(mem')
  BY <1>1, <1>4, <1>5, <1>6, FiltersGoOn
<1> QED BY <1>7

LEMMA BatchIsPriced ==
    ASSUME IInv, PricingBatch PROVE \E c : GoesOn(c)
<1>1. runner # 0 /\ SameStores /\ mem.phase = "bsr_filtered" /\ runner' = runner
  BY KeepsStores DEF PricingBatch, InPhase, At, KeepRotation
<1>2. mem \in Checkpoints /\ Sound(mem, sel[runner])
  BY <1>1, MemoryIsSound
<1> DEFINE R == mem.priced \cup First(Unpriced, Batch)
<1>3. R \subseteq mem.passed
  BY <1>2, FirstIsPart DEF Unpriced, Sound
<1>4. mem' = [mem EXCEPT !.priced = R] /\ Save
  BY DEF PricingBatch
<1> HIDE DEF R
<1>5. mem' = [mem EXCEPT !.passed = mem.passed, !.priced = R, !.phase = "bsr_filtered"]
  BY <1>1, <1>2, <1>4 DEF Checkpoints
<1>6. mem.passed \subseteq mem.cand /\ mem.phase \in Settled
  BY <1>1, <1>2 DEF Sound, Settled
<1>7. GoesOn(mem')
  BY <1>1, <1>3, <1>4, <1>5, <1>6, FiltersGoOn
<1> QED BY <1>7

LEMMA CompetitionIsFiltered ==
    ASSUME IInv, FilterCompetition PROVE \E c : GoesOn(c)
<1>1. runner # 0 /\ SameStores /\ mem.phase = "pricing_complete" /\ runner' = runner
  BY KeepsStores DEF FilterCompetition, InPhase, At, KeepRotation
<1>2. mem \in Checkpoints /\ Sound(mem, sel[runner])
  BY <1>1, MemoryIsSound
<1>3. PICK P \in SUBSET mem.passed :
         Checkpoint([mem EXCEPT !.passed = P, !.priced = {}], "competition_filtered", "go")
  BY DEF FilterCompetition
<1>0. PICK R : R = {}
  OBVIOUS
<1>4. mem' = [mem EXCEPT !.passed = P, !.priced = R, !.phase = "competition_filtered"] /\ Save /\ R \subseteq P
  BY <1>0, <1>2, <1>3 DEF Checkpoint, Checkpoints
<1>5. P \subseteq mem.cand
  BY <1>2 DEF Checkpoints, Sound
<1>6. mem.phase \in Settled
  BY <1>1 DEF Settled
<1> HIDE <1>0
<1>7. GoesOn(mem')
  BY <1>1, <1>4, <1>5, <1>6, FiltersGoOn
<1> QED BY <1>7


\* A row of a wave that comes back had no answer.
LEMMA WaveIsAnswered ==
    ASSUME IInv, FeeWave PROVE GoesOn(mem')
<1>1. runner # 0 /\ SameStores /\ mem.phase = "competition_filtered" /\ runner' = runner
  BY PlaceTells, KeepsStores DEF FeeWave, At, KeepRotation
<1>2. mem \in Checkpoints /\ Sound(mem, sel[runner]) /\ \A p \in work.wave : mem.fee[p] # "answered"
  BY <1>1, MemoryIsSound, PlaceTells
<1>3. PICK f : /\ mem' = [mem EXCEPT !.fee = f] /\ f \in [Products -> Fees]
               /\ \A p \in Products \ work.wave : f[p] = mem.fee[p]
  <2>1. PICK transient \in SUBSET work.wave : \E internal \in SUBSET transient :
           LET outage == ~MayRetry /\ Systemic(transient)
               as(p) == IF p \notin transient THEN "answered"
                        ELSE IF MayRetry \/ outage THEN "retryable_error"
                        ELSE IF p \in internal THEN "unavailable" ELSE "answered"
           IN mem' = [mem EXCEPT !.fee = [p \in Products |-> IF p \in work.wave THEN as(p) ELSE @[p]]]
    BY DEF FeeWave
  <2>5. PICK internal \in SUBSET transient :
           LET outage == ~MayRetry /\ Systemic(transient)
               as(p) == IF p \notin transient THEN "answered"
                        ELSE IF MayRetry \/ outage THEN "retryable_error"
                        ELSE IF p \in internal THEN "unavailable" ELSE "answered"
           IN mem' = [mem EXCEPT !.fee = [p \in Products |-> IF p \in work.wave THEN as(p) ELSE @[p]]]
    BY <2>1
  <2> DEFINE as(p) == IF p \notin transient THEN "answered"
                      ELSE IF MayRetry \/ (~MayRetry /\ Systemic(transient)) THEN "retryable_error"
                      ELSE IF p \in internal THEN "unavailable" ELSE "answered"
             f == [p \in Products |-> IF p \in work.wave THEN as(p) ELSE mem.fee[p]]
  <2>2. \A p \in Products : as(p) \in Fees /\ mem.fee[p] \in Fees
    BY <1>2 DEF Fees, Checkpoints
  <2>3. mem' = [mem EXCEPT !.fee = f]
    BY <2>5
  <2> HIDE DEF as
  <2>4. f \in [Products -> Fees] /\ \A p \in Products \ work.wave : f[p] = mem.fee[p]
    BY <2>2
  <2> HIDE DEF f
  <2> QED BY <2>3, <2>4
<1>4. /\ mem'.phase = mem.phase /\ mem'.suppliers = mem.suppliers /\ mem'.cand = mem.cand
      /\ mem'.catalog = mem.catalog /\ mem'.passed = mem.passed /\ mem'.priced = mem.priced
      /\ mem'.fee = f /\ mem' \in Checkpoints
  BY <1>2, <1>3 DEF Checkpoints
<1>5. Sound(mem', sel[runner])
  BY <1>1, <1>2, <1>4 DEF Sound
<1> QED BY <1>1, <1>2, <1>3, <1>4, <1>5 DEF GoesOn, Writes, KeepsFees, FeeWave, Save

LEMMA FeesEndSoundly ==
    ASSUME IInv, FeesEnd \/ Outage PROVE (\E c : GoesOn(c)) \/ (\E c : Ends(c))
<1>1. runner # 0 /\ SameStores /\ mem.phase = "competition_filtered"
  BY PlaceTells, KeepsStores DEF FeesEnd, Outage, At, KeepRotation
<1>2. /\ mem.phase \in Settled /\ "fees_complete" \in Settled \ {"catalog_complete"}
      /\ "fees_pending" \in Settled \ {"catalog_complete"}
      /\ "fees_pending" \notin {"fees_complete", "completed"}
  BY <1>1 DEF Settled
<1>3. CASE Return(mem, "fees_pending")
  BY <1>1, <1>2, <1>3, SettledEnds
<1>4. CASE FeesEnd /\ FeePending(mem) = {}
  BY <1>1, <1>2, <1>4, SettledGoesOn DEF FeesEnd
<1> QED BY <1>3, <1>4 DEF FeesEnd, Outage

LEMMA LateActions ==
    ASSUME IInv, PricingComplete \/ Evaluate PROVE (\E c : GoesOn(c)) \/ (\E c : Ends(c))
<1>1. CASE PricingComplete
  <2>1. runner # 0 /\ SameStores /\ mem.phase = "bsr_filtered" /\ runner' = runner
    BY <1>1, KeepsStores DEF PricingComplete, InPhase, At, KeepRotation
  <2>2. /\ mem.phase \in Settled /\ "pricing_complete" \in Settled \ {"catalog_complete"}
        /\ "pricing_complete" \notin {"fees_complete", "completed"}
    BY <2>1 DEF Settled
  <2> QED BY <1>1, <2>1, <2>2, SettledGoesOn DEF PricingComplete
<1>2. CASE Evaluate
  <2>1. runner # 0 /\ SameStores /\ mem.phase = "fees_complete"
    BY <1>2, KeepsStores DEF Evaluate, InPhase, At, KeepRotation
  <2>2. mem.phase \in Settled /\ "completed" \in Settled \ {"catalog_complete"} /\ FeePending(mem) = {}
    BY <2>1, PhaseTells DEF Settled
  <2> QED BY <1>2, <2>1, <2>2, SettledEnds DEF Evaluate
<1> QED BY <1>1, <1>2

\* An exception leaves the checkpoint that is in memory.
LEMMA RaiseEnds ==
    ASSUME IInv, Raise PROVE \E c : Ends(c)
<1>1. runner # 0 /\ SameStores
  BY KeepsStores DEF Raise
<1>2. mem \in Checkpoints /\ Sound(mem, sel[runner]) /\ KeepsFees(mem)
  BY <1>1, MemoryIsSound
<1>3. mem = [mem EXCEPT !.phase = mem.phase]
  BY <1>2 DEF Checkpoints
<1>4. saved' = [saved EXCEPT ![runner] = mem] /\ mem' = Nobody /\ runner' = 0
  BY <1>3 DEF Raise, Return
<1> QED BY <1>1, <1>2, <1>4 DEF Ends, Writes

\* What a checkpoint is resumed with.
LEMMA FeeResumedIsSound ==
    ASSUME NEW c \in Checkpoints, NEW s, Sound(c, s)
    PROVE /\ FeeResumed(c) \in Checkpoints /\ Sound(FeeResumed(c), s)
          /\ \A p \in Products : c.fee[p] = "answered" => FeeResumed(c).fee[p] = "answered"
<1> DEFINE rows == CASE c.phase = "fees_pending" -> FeePending(c)
                     [] c.phase = "completed" -> {p \in c.passed : c.fee[p] \in {"fee_pending", "retryable_error", "unavailable"}}
                     [] OTHER -> {}
           f == [p \in Products |-> IF p \in rows THEN "fee_pending" ELSE c.fee[p]]
           d == [c EXCEPT !.phase = "competition_filtered", !.fee = f]
<1>1. FeeResumed(c) = IF rows = {} THEN c ELSE d
  BY DEF FeeResumed
<1>2. CASE rows = {}
  BY <1>1, <1>2
<1>3. CASE rows # {}
  <2>1. c.phase \in {"fees_pending", "completed"} /\ \A p \in rows : c.fee[p] # "answered"
    BY <1>3 DEF FeePending
  <2>2. \A p \in Products : c.fee[p] \in Fees
    BY DEF Checkpoints
  <2> HIDE DEF rows
  <2>3. /\ f \in [Products -> Fees]
        /\ \A p \in Products : c.fee[p] = "answered" => f[p] = "answered"
    BY <2>1, <2>2 DEF Fees
  <2> HIDE DEF f
  <2>4. /\ "competition_filtered" \in Settled /\ "competition_filtered" \in Phases
        /\ "competition_filtered" \notin Unfiltered /\ "competition_filtered" \notin Early
        /\ c.phase \in Settled
    BY <2>1, PhasesDiffer DEF Settled
  <2>5. /\ d.phase = "competition_filtered" /\ d.suppliers = c.suppliers /\ d.cand = c.cand
        /\ d.catalog = c.catalog /\ d.passed = c.passed /\ d.priced = c.priced
        /\ d.fee = f /\ d \in Checkpoints
    BY <2>3, <2>4 DEF Checkpoints
  <2> HIDE DEF d
  <2>6. Sound(d, s)
    BY <2>4, <2>5 DEF Sound
  <2> QED BY <1>1, <1>3, <2>3, <2>5, <2>6
<1> QED BY <1>2, <1>3

LEMMA StartBegins ==
    ASSUME IInv, NEW j \in Jobs, Start(j) PROVE Begins(j)
<1>1. saved[j] \in Checkpoints /\ Sound(saved[j], sel[j]) /\ SameStores
  BY KeepsStores DEF IInv, TypeOK, Start
<1>2. /\ FeeResumed(saved[j]) \in Checkpoints /\ Sound(FeeResumed(saved[j]), sel[j])
      /\ \A p \in Products : saved[j].fee[p] = "answered" => FeeResumed(saved[j]).fee[p] = "answered"
  BY <1>1, FeeResumedIsSound
<1> QED BY <1>1, <1>2 DEF Begins, Start

LEMMA CommitsHappen ==
    ASSUME Reconcile \/ CatalogCommit \/ CatalogSettle PROVE Commits
BY DEF Commits, Reconcile, CatalogCommit, CatalogSettle, KeepRun, InPhase, At

\* What a step of [Next]_vars does to the checkpoints and the selections.
LEMMA NextDoes ==
    ASSUME IInv, [Next]_vars
    PROVE \/ \E j \in Jobs : Begins(j)
          \/ \E c : GoesOn(c)
          \/ \E c : Ends(c)
          \/ Picks \/ Select \/ Commits \/ Stays
<1>1. CASE UNCHANGED vars
  BY <1>1 DEF vars, runVars, rotationVars, Stays, SameStores
<1>2. CASE PublishGeneration \/ Expire
  BY <1>2, KeepsStores DEF PublishGeneration, Expire, runVars, Stays
<1>3. CASE StartNewCycle
  BY <1>3 DEF StartNewCycle, runVars, Stays, SameStores
<1>4. CASE FeesBegin \/ FeeBatch
  BY <1>4, KeepsStores DEF FeesBegin, FeeBatch, KeepRotation, Stays
<1>5. CASE FeeRequestFails
  BY <1>5, KeepsStores DEF FeeRequestFails, Stays
<1>6. CASE Die
  BY <1>6, KeepsStores DEF Die, Stays
<1>7. CASE \E j \in Jobs : Start(j)
  BY <1>7, StartBegins
<1>8. CASE RunStep /\ ~(FeesBegin \/ FeeBatch)
  BY <1>8, EarlyActions, CacheIsChecked, CacheIsAsked, CacheIsRefreshed, CommitsHappen, CatalogIsAnswered,
     CatalogIsComplete, BsrIsFiltered, BatchIsPriced, LateActions, CompetitionIsFiltered,
     WaveIsAnswered, FeesEndSoundly DEF RunStep
<1>9. CASE Raise
  BY <1>9, RaiseEnds
<1> QED BY <1>1, <1>2, <1>3, <1>4, <1>5, <1>6, <1>7, <1>8, <1>9 DEF Next, RunStep


-----------------------------------------------------------------------------
(* The checkpoints stay sound next to the selections.                          *)

JobsAreSound == \A j \in Jobs : Sound(saved[j], sel[j]) /\ Selected(sel[j])

\* What a selection becomes.
LEMMA Selecting ==
    ASSUME IInv, Select
    PROVE /\ runner \in Jobs /\ runner # 0 /\ saved' = saved /\ runner' = runner
          /\ sel' \in [Jobs -> [ids : SUBSET Products, cycle : Nat, analyzed : SUBSET Products]]
          /\ \A j \in Jobs : sel'[j].analyzed = sel[j].analyzed /\ sel[j].ids \subseteq sel'[j].ids
          /\ \A j \in Jobs : sel'[j] # sel[j] => sel[j].analyzed = {} /\ sel'[j].cycle = cycle
          /\ mem' = [mem EXCEPT !.cand = sel'[runner].ids \cap universe]
          /\ mem.phase \in Early
<1> DEFINE chosen == {p \in Remaining : Cardinality({q \in Remaining : Before(q, p)}) < Budget}
           picked == [sel EXCEPT ![runner].ids = chosen, ![runner].cycle = cycle]
<1>1. runner \in Jobs /\ runner # 0 /\ mem.phase \in Early
  BY MemoryIsSound, PlaceTells DEF Select, At
<1>2. /\ sel \in [Jobs -> [ids : SUBSET Products, cycle : Nat, analyzed : SUBSET Products]]
      /\ cycle \in Nat /\ universe \subseteq Products /\ Selected(sel[runner])
  BY <1>1, CheckpointAssumption DEF IInv, TypeOK
<1>3. chosen \subseteq Products
  BY <1>2 DEF Remaining
<1>4. /\ sel' = IF sel[runner].ids # {} THEN sel ELSE picked
      /\ saved' = saved /\ runner' = runner /\ mem' = [mem EXCEPT !.cand = sel'[runner].ids \cap universe]
  BY DEF Select
<1>5. CASE sel[runner].ids # {}
  BY <1>1, <1>2, <1>4, <1>5
<1>6. CASE sel[runner].ids = {}
  <2> HIDE DEF chosen
  <2>1. sel[runner].analyzed = {}
    BY <1>2, <1>6 DEF Selected
  <2>2. /\ picked \in [Jobs -> [ids : SUBSET Products, cycle : Nat, analyzed : SUBSET Products]]
        /\ picked[runner].ids = chosen /\ picked[runner].cycle = cycle
        /\ picked[runner].analyzed = sel[runner].analyzed
        /\ \A j \in Jobs \ {runner} : picked[j] = sel[j]
    BY <1>1, <1>2, <1>3
  <2> HIDE DEF picked
  <2>3. sel' = picked
    BY <1>4, <1>6
  <2>4. \A j \in Jobs : sel'[j].analyzed = sel[j].analyzed /\ sel[j].ids \subseteq sel'[j].ids
    BY <1>6, <2>2, <2>3
  <2>5. \A j \in Jobs : sel'[j] # sel[j] => sel[j].analyzed = {} /\ sel'[j].cycle = cycle
    BY <2>1, <2>2, <2>3
  <2> QED BY <1>1, <1>4, <2>2, <2>3, <2>4, <2>5
<1> QED BY <1>5, <1>6

\* What a commit makes of the selection of its job and of the items.
Done == {p \in mem.cand \cap (sel[runner].ids \ sel[runner].analyzed) : Definitive(mem.catalog[p])}
Counted == {p \in Done : items.cycle[p] # sel[runner].cycle}

LEMMA Committing ==
    ASSUME IInv, Commits
    PROVE /\ runner \in Jobs /\ runner # 0
          /\ Done \subseteq sel[runner].ids /\ Done \cap sel[runner].analyzed = {}
          /\ sel' \in [Jobs -> [ids : SUBSET Products, cycle : Nat, analyzed : SUBSET Products]]
          /\ sel'[runner].analyzed = sel[runner].analyzed \cup Done
          /\ \A j \in Jobs : sel'[j].ids = sel[j].ids /\ sel'[j].cycle = sel[j].cycle
          /\ \A j \in Jobs \ {runner} : sel'[j] = sel[j]
          /\ items' = [items EXCEPT
                !.cycle = [p \in Products |-> IF p \in Counted THEN sel[runner].cycle ELSE items.cycle[p]],
                !.count = [p \in Products |-> IF p \in Counted THEN items.count[p] + 1 ELSE items.count[p]],
                !.fresh = items.fresh \ Counted]
<1>1. runner \in Jobs /\ runner # 0 /\ mem \in Checkpoints
  BY MemoryIsSound DEF Commits
<1>2. sel \in [Jobs -> [ids : SUBSET Products, cycle : Nat, analyzed : SUBSET Products]]
  BY DEF IInv, TypeOK
<1>3. Done \subseteq sel[runner].ids /\ Done \cap sel[runner].analyzed = {} /\ Done \subseteq Products
  BY <1>1, <1>2 DEF Done
<1>4. sel' = [sel EXCEPT ![runner].analyzed = @ \cup Done]
  BY DEF Commits, Commit, Done
<1>5. items' = [items EXCEPT
         !.cycle = [p \in Products |-> IF p \in Counted THEN sel[runner].cycle ELSE items.cycle[p]],
         !.count = [p \in Products |-> IF p \in Counted THEN items.count[p] + 1 ELSE items.count[p]],
         !.fresh = items.fresh \ Counted]
  BY DEF Commits, Commit, Counted, Done
<1>6. /\ sel' \in [Jobs -> [ids : SUBSET Products, cycle : Nat, analyzed : SUBSET Products]]
      /\ sel'[runner].analyzed = sel[runner].analyzed \cup Done
      /\ sel'[runner].ids = sel[runner].ids /\ sel'[runner].cycle = sel[runner].cycle
      /\ \A j \in Jobs \ {runner} : sel'[j] = sel[j]
  BY <1>1, <1>2, <1>3, <1>4
<1> QED BY <1>1, <1>3, <1>5, <1>6

LEMMA StepSound ==
    ASSUME IInv, [Next]_vars PROVE JobsAreSound' /\ Memory'
<1>0. /\ saved \in [Jobs -> Checkpoints] /\ 0 \notin Jobs
      /\ \A j \in Jobs : Sound(saved[j], sel[j]) /\ Selected(sel[j])
  BY CheckpointAssumption DEF IInv, TypeOK
<1>1. ASSUME NEW j \in Jobs, Begins(j) PROVE JobsAreSound' /\ Memory'
  <2>1. saved'[j] = mem' /\ runner' = j /\ sel' = sel /\ \A k \in Jobs \ {j} : saved'[k] = saved[k]
    BY <1>0, <1>1 DEF Begins, SameStores
  <2>2. Sound(mem', sel[j])
    BY <1>1 DEF Begins
  <2>3. JobsAreSound'
    BY <1>0, <2>1, <2>2 DEF JobsAreSound
  <2> QED BY <2>1, <2>2, <2>3 DEF Memory
<1>2. ASSUME NEW c, GoesOn(c) PROVE JobsAreSound' /\ Memory'
  <2>1. runner \in Jobs
    BY <1>2, MemoryIsSound DEF GoesOn, Writes
  <2>2. /\ saved'[runner] = c /\ mem' = c /\ runner' = runner /\ sel' = sel /\ Sound(c, sel[runner])
        /\ \A k \in Jobs \ {runner} : saved'[k] = saved[k]
    BY <1>0, <1>2, <2>1 DEF GoesOn, Writes, SameStores
  <2>3. JobsAreSound'
    BY <1>0, <2>2 DEF JobsAreSound
  <2> QED BY <2>2, <2>3 DEF Memory
<1>3. ASSUME NEW c, Ends(c) PROVE JobsAreSound' /\ Memory'
  <2>1. runner \in Jobs
    BY <1>3, MemoryIsSound DEF Ends, Writes
  <2>2. /\ saved'[runner] = c /\ runner' = 0 /\ sel' = sel /\ Sound(c, sel[runner])
        /\ \A k \in Jobs \ {runner} : saved'[k] = saved[k]
    BY <1>0, <1>3, <2>1 DEF Ends, Writes, SameStores
  <2>3. JobsAreSound'
    BY <1>0, <2>2 DEF JobsAreSound
  <2> QED BY <2>2, <2>3 DEF Memory
<1>4. CASE Picks
  <2>1. /\ saved' = saved /\ runner' = runner /\ sel' = sel /\ runner # 0
        /\ Sound(mem', sel[runner]) /\ SameProgress(mem, mem')
    BY <1>4 DEF Picks, SameStores
  <2>2. Memory
    BY DEF IInv
  <2> QED BY <1>0, <2>1, <2>2 DEF JobsAreSound, Memory, SameProgress
<1>5. CASE Select
  <2>1. /\ runner \in Jobs /\ runner # 0 /\ saved' = saved /\ runner' = runner /\ mem.phase \in Early
        /\ \A j \in Jobs : sel'[j].analyzed = sel[j].analyzed /\ sel[j].ids \subseteq sel'[j].ids
        /\ \A j \in Jobs : sel'[j] # sel[j] => sel'[j].cycle = cycle
        /\ mem' = [mem EXCEPT !.cand = sel'[runner].ids \cap universe]
    BY <1>5, Selecting
  <2>2. \A j \in Jobs : Sound(saved[j], sel'[j])
    BY <1>0, <2>1, SelectionIsSound
  <2>3. cycle # 0
    BY CheckpointAssumption DEF IInv, TypeOK
  <2>4. \A j \in Jobs : Selected(sel'[j])
    BY <1>0, <2>1, <2>3 DEF Selected
  <2>5. mem \in Checkpoints /\ Sound(mem, sel[runner])
    BY <2>1, MemoryIsSound
  <2>6. Sound(mem, sel'[runner])
    BY <2>1, <2>5, SelectionIsSound
  <2>7. Sound(mem', sel'[runner]) /\ SameProgress(mem, mem')
    <3>1. PICK C : C = sel'[runner].ids \cap universe
      OBVIOUS
    <3>2. C \in SUBSET Products /\ C \subseteq sel'[runner].ids
      BY <3>1 DEF IInv, TypeOK
    <3>3. PICK s : s = sel'[runner]
      OBVIOUS
    <3>4. /\ mem \in Checkpoints /\ Sound(mem, s) /\ mem.phase \in Early
          /\ (mem.suppliers = TRUE => C \subseteq s.ids)
          /\ mem' = [mem EXCEPT !.cand = C]
      BY <2>1, <2>5, <2>6, <3>1, <3>2, <3>3
    <3>5. /\ mem' \in Checkpoints /\ Sound(mem', s)
          /\ mem'.phase = mem.phase /\ mem'.suppliers = mem.suppliers /\ mem'.catalog = mem.catalog
          /\ mem'.fee = mem.fee /\ mem'.passed = mem.passed
      <4>1. PICK c, d : c = mem /\ d = mem'
        OBVIOUS
      <4>2. /\ c \in Checkpoints /\ Sound(c, s) /\ c.phase \in Early
            /\ (c.suppliers = TRUE => C \subseteq s.ids) /\ C \in SUBSET Products
            /\ d = [c EXCEPT !.cand = C]
        BY <3>2, <3>4, <4>1
      <4>3. /\ d \in Checkpoints /\ Sound(d, s)
            /\ d.phase = c.phase /\ d.suppliers = c.suppliers /\ d.catalog = c.catalog
            /\ d.fee = c.fee /\ d.passed = c.passed
        BY ONLY <4>2, CandidatesAreSound
      <4> QED BY <4>1, <4>3
    <3> QED BY <3>3, <3>5 DEF SameProgress
  <2>8. Memory
    BY DEF IInv
  <2> QED BY <2>1, <2>2, <2>4, <2>7, <2>8 DEF JobsAreSound, Memory, SameProgress
<1>6. CASE Commits
  <2>1. /\ runner \in Jobs /\ runner # 0 /\ saved' = saved /\ runner' = runner /\ mem' = mem
        /\ Done \subseteq sel[runner].ids
        /\ sel'[runner].analyzed = sel[runner].analyzed \cup Done
        /\ \A j \in Jobs : sel'[j].ids = sel[j].ids /\ sel'[j].cycle = sel[j].cycle
        /\ \A j \in Jobs \ {runner} : sel'[j] = sel[j]
    BY <1>6, Committing DEF Commits
  <2>2. Memory /\ \A p \in Done : Definitive(mem.catalog[p])
    BY DEF IInv, Done
  <2>3. /\ Sound(mem, sel[runner]) /\ Sound(saved[runner], sel[runner])
        /\ \A p \in Done : Definitive(saved[runner].catalog[p])
    BY <1>0, <2>1, <2>2 DEF Memory
  <2>4. Sound(mem, sel'[runner]) /\ Sound(saved[runner], sel'[runner])
    BY <2>1, <2>2, <2>3, AnalysisIsSound
  <2>5. \A j \in Jobs : Sound(saved[j], sel'[j])
    BY <1>0, <2>1, <2>4
  <2>6. \A j \in Jobs : Selected(sel'[j])
    BY <1>0, <2>1 DEF Selected
  <2> QED BY <2>1, <2>2, <2>4, <2>5, <2>6 DEF JobsAreSound, Memory
<1>7. CASE Stays
  <2>1. saved' = saved /\ sel' = sel /\ (<<runner', mem'>> = <<0, Nobody>> \/ <<runner', mem'>> = <<runner, mem>>)
    BY <1>7 DEF Stays, SameStores
  <2>2. Memory
    BY DEF IInv
  <2> QED BY <1>0, <2>1, <2>2 DEF JobsAreSound, Memory
<1> QED BY NextDoes, <1>1, <1>2, <1>3, <1>4, <1>5, <1>6, <1>7


-----------------------------------------------------------------------------
(* What the rotation says of an item is backed by selections.                  *)

By(p) == {j \in Jobs : p \in sel[j].analyzed}

LEMMA BackedAlike ==
    ASSUME ItemsAreBacked, items'.cycle = items.cycle, items'.count = items.count,
           \A j \in Jobs : sel'[j].analyzed = sel[j].analyzed,
           \A j \in Jobs : sel[j].analyzed # {} => sel'[j].cycle = sel[j].cycle
    PROVE ItemsAreBacked'
<1> SUFFICES ASSUME NEW p \in Products
             PROVE /\ (By(p)' = {}) <=> (items'.count[p] = 0)
                   /\ items'.count[p] <= Cardinality(By(p)')
                   /\ items'.cycle[p] # 0 => \E j \in By(p)' : sel'[j].cycle = items'.cycle[p]
  BY DEF ItemsAreBacked, By
<1>1. By(p)' = By(p)
  BY DEF By
<1>2. /\ (By(p) = {}) <=> (items.count[p] = 0)
      /\ items.count[p] <= Cardinality(By(p))
      /\ items.cycle[p] # 0 => \E j \in By(p) : sel[j].cycle = items.cycle[p]
  BY DEF ItemsAreBacked, By
<1>3. \A j \in By(p) : sel'[j].cycle = sel[j].cycle
  BY DEF By
<1> QED BY <1>1, <1>2, <1>3

LEMMA StepBacked ==
    ASSUME IInv, [Next]_vars PROVE ItemsAreBacked'
<1>0. ItemsAreBacked /\ IsFiniteSet(Jobs) /\ 0 \notin Jobs
      /\ sel \in [Jobs -> [ids : SUBSET Products, cycle : Nat, analyzed : SUBSET Products]]
      /\ items \in [known : SUBSET Products, active : SUBSET Products, fresh : SUBSET Products,
                    cycle : [Products -> Nat], count : [Products -> Nat]]
  BY CheckpointAssumption DEF IInv, TypeOK
<1>1. CASE SameStores
  BY <1>0, <1>1, BackedAlike DEF SameStores
<1>2. CASE Select
  <2>1. items'.cycle = items.cycle /\ items'.count = items.count
    BY <1>0, <1>2 DEF Select, Synced
  <2>2. /\ \A j \in Jobs : sel'[j].analyzed = sel[j].analyzed
        /\ \A j \in Jobs : sel'[j] # sel[j] => sel[j].analyzed = {}
    BY <1>2, Selecting
  <2> QED BY <1>0, <2>1, <2>2, BackedAlike
<1>3. CASE Commits
  <2>1. /\ runner \in Jobs /\ Done \subseteq sel[runner].ids /\ Done \cap sel[runner].analyzed = {}
        /\ sel'[runner].analyzed = sel[runner].analyzed \cup Done
        /\ \A j \in Jobs : sel'[j].cycle = sel[j].cycle
        /\ \A j \in Jobs \ {runner} : sel'[j] = sel[j]
        /\ items' = [items EXCEPT
              !.cycle = [p \in Products |-> IF p \in Counted THEN sel[runner].cycle ELSE items.cycle[p]],
              !.count = [p \in Products |-> IF p \in Counted THEN items.count[p] + 1 ELSE items.count[p]],
              !.fresh = items.fresh \ Counted]
    BY <1>3, Committing
  <2>2. /\ \A p \in Products : items'.cycle[p] = IF p \in Counted THEN sel[runner].cycle ELSE items.cycle[p]
        /\ \A p \in Products : items'.count[p] = IF p \in Counted THEN items.count[p] + 1 ELSE items.count[p]
    BY <1>0, <2>1
  <2> SUFFICES ASSUME NEW p \in Products
               PROVE /\ (By(p)' = {}) <=> (items'.count[p] = 0)
                     /\ items'.count[p] <= Cardinality(By(p)')
                     /\ items'.cycle[p] # 0 => \E j \in By(p)' : sel'[j].cycle = items'.cycle[p]
    BY DEF ItemsAreBacked, By
  <2>3. /\ (By(p) = {}) <=> (items.count[p] = 0)
        /\ items.count[p] <= Cardinality(By(p)) /\ items.count[p] \in Nat /\ items.cycle[p] \in Nat
        /\ items.cycle[p] # 0 => \E j \in By(p) : sel[j].cycle = items.cycle[p]
    BY <1>0 DEF ItemsAreBacked, By
  <2>4. By(p)' = IF p \in Done THEN By(p) \cup {runner} ELSE By(p)
    BY <2>1 DEF By
  <2>5. p \in Done => runner \notin By(p)
    BY <2>1 DEF By
  <2>6. /\ IsFiniteSet(By(p)) /\ Cardinality(By(p)) \in Nat
        /\ runner \notin By(p) => Cardinality(By(p) \cup {runner}) = Cardinality(By(p)) + 1
    <3>1. By(p) \subseteq Jobs
      BY DEF By
    <3>2. IsFiniteSet(By(p))
      BY <1>0, <3>1, FS_Subset
    <3> QED BY <3>2, FS_CardinalityType, FS_AddElement
  <2>7. CASE p \in Counted
    <3>1. p \in Done /\ runner \in By(p)' /\ Cardinality(By(p)') = Cardinality(By(p)) + 1
      BY <2>4, <2>5, <2>6, <2>7 DEF Counted
    <3>2. items'.count[p] = items.count[p] + 1 /\ items'.cycle[p] = sel[runner].cycle
      BY <2>2, <2>7
    <3> QED BY <2>1, <2>3, <2>6, <3>1, <3>2
  <2>8. CASE p \in Done \ Counted
    <3>1. runner \in By(p)' /\ Cardinality(By(p)') = Cardinality(By(p)) + 1 /\ By(p) \subseteq By(p)'
      BY <2>4, <2>5, <2>6, <2>8
    <3>2. items'.count[p] = items.count[p] /\ items'.cycle[p] = items.cycle[p]
      BY <2>2, <2>8
    <3>3. items.cycle[p] = sel[runner].cycle /\ sel[runner].cycle # 0
      <4>1. Selected(sel[runner]) /\ p \in sel[runner].ids
        BY <2>1, <2>8 DEF IInv
      <4> QED BY <2>8, <4>1 DEF Counted, Selected
    <3>4. By(p) # {}
      BY <2>3, <3>3
    <3> QED BY <2>1, <2>3, <2>6, <3>1, <3>2, <3>3, <3>4
  <2>9. CASE p \notin Done
    <3>1. p \notin Counted /\ By(p)' = By(p)
      BY <2>4, <2>9 DEF Counted
    <3>2. items'.count[p] = items.count[p] /\ items'.cycle[p] = items.cycle[p]
      BY <2>2, <3>1
    <3>3. \A j \in By(p) : sel'[j].cycle = sel[j].cycle
      BY <2>1 DEF By
    <3> QED BY <2>3, <3>1, <3>2, <3>3
  <2> QED BY <2>7, <2>8, <2>9
<1> QED
  BY NextDoes, <1>1, <1>2, <1>3 DEF Begins, GoesOn, Ends, Writes, Picks, Stays

-----------------------------------------------------------------------------
(* Types.                                                                      *)

WorkType == [todo : SUBSET Products, wave : SUBSET Products, attempt : Nat]
ItemsType == [known : SUBSET Products, active : SUBSET Products, fresh : SUBSET Products,
              cycle : [Products -> Nat], count : [Products -> Nat]]
SelType == [Jobs -> [ids : SUBSET Products, cycle : Nat, analyzed : SUBSET Products]]
CountType == [troubles : 0 .. MaxTroubles, universes : 0 .. MaxUniverses, expiries : 0 .. MaxExpiries]
ItemsKnown(i) == i \in ItemsType /\ i.active \cup i.fresh \subseteq i.known

LEMMA StepRunTyped ==
    ASSUME IInv, [Next]_vars
    PROVE saved' \in [Jobs -> Checkpoints] /\ mem' \in Checkpoints /\ runner' \in Jobs \cup {0}
<1>0. saved \in [Jobs -> Checkpoints] /\ mem \in Checkpoints /\ runner \in Jobs \cup {0}
  BY DEF IInv, TypeOK
<1>1. CASE \E j \in Jobs : Begins(j)
  BY <1>0, <1>1 DEF Begins
<1>2. CASE \E c : GoesOn(c)
  BY <1>0, <1>2 DEF GoesOn, Writes
<1>3. CASE \E c : Ends(c)
  BY <1>0, <1>3, NewIsCheckpoint DEF Ends, Writes
<1>4. CASE Picks
  BY <1>0, <1>4 DEF Picks
<1>5. CASE Select
  <2>1. mem' = [mem EXCEPT !.cand = sel'[runner].ids \cap universe] /\ saved' = saved /\ runner' = runner
    BY <1>5, Selecting
  <2>2. sel'[runner].ids \cap universe \in SUBSET Products
    BY DEF IInv, TypeOK
  <2> QED BY <1>0, <2>1, <2>2 DEF Checkpoints
<1>6. CASE Commits
  BY <1>0, <1>6 DEF Commits
<1>7. CASE Stays
  BY <1>0, <1>7, NewIsCheckpoint DEF Stays
<1> QED BY NextDoes, <1>1, <1>2, <1>3, <1>4, <1>5, <1>6, <1>7


\* The selections and the items.
LEMMA StepStoresTyped ==
    ASSUME IInv, [Next]_vars PROVE sel' \in SelType /\ ItemsKnown(items')
<1>0. sel \in SelType /\ ItemsKnown(items) /\ universe \subseteq Products
  BY DEF IInv, TypeOK, SelType, ItemsType, ItemsKnown
<1>1. CASE SameStores
  BY <1>0, <1>1 DEF SameStores
<1>2. CASE Select
  <2>1. items' = Synced
    BY <1>2 DEF Select
  <2>2. ItemsKnown(Synced)
    BY <1>0 DEF Synced, ItemsKnown, ItemsType
  <2> QED BY <1>2, <2>1, <2>2, Selecting DEF SelType
<1>3. CASE Commits
  <2>1. /\ runner \in Jobs /\ sel' \in SelType
        /\ items' = [items EXCEPT
              !.cycle = [p \in Products |-> IF p \in Counted THEN sel[runner].cycle ELSE items.cycle[p]],
              !.count = [p \in Products |-> IF p \in Counted THEN items.count[p] + 1 ELSE items.count[p]],
              !.fresh = items.fresh \ Counted]
    BY <1>3, Committing DEF SelType
  <2>2. sel[runner].cycle \in Nat /\ \A p \in Products : items.cycle[p] \in Nat /\ items.count[p] \in Nat
    BY <1>0, <2>1 DEF SelType, ItemsKnown, ItemsType
  <2> DEFINE cy == [p \in Products |-> IF p \in Counted THEN sel[runner].cycle ELSE items.cycle[p]]
             co == [p \in Products |-> IF p \in Counted THEN items.count[p] + 1 ELSE items.count[p]]
  <2>3. cy \in [Products -> Nat] /\ co \in [Products -> Nat]
    BY <2>2
  <2>4. items' = [items EXCEPT !.cycle = cy, !.count = co, !.fresh = items.fresh \ Counted]
    BY <2>1
  <2> HIDE DEF cy, co
  <2>5. ItemsKnown(items')
    BY <1>0, <2>3, <2>4 DEF ItemsKnown, ItemsType
  <2> QED BY <2>1, <2>5
<1> QED BY NextDoes, <1>1, <1>2, <1>3 DEF Begins, GoesOn, Ends, Writes, Picks, Stays

LEMMA FeesPendingArePassed ==
    ASSUME NEW c \in Checkpoints
    PROVE /\ FeePending(c) \subseteq Products
          /\ \A p \in FeePending(c) : c.fee[p] # "answered"
BY DEF FeePending, Checkpoints

\* What is left of a wave.
LEMMA WaveGoesOn ==
    ASSUME work \in WorkType, NEW t \in SUBSET work.wave,
           work' = IF MayRetry /\ t # {} THEN [work EXCEPT !.wave = t, !.attempt = @ + 1]
                   ELSE [work EXCEPT !.wave = {}, !.attempt = 0]
    PROVE /\ work' \in WorkType /\ work'.todo = work.todo /\ work'.wave \subseteq t
          /\ work'.wave # {} => MayRetry
<1>1. CASE MayRetry /\ t # {}
  <2>1. work' = [work EXCEPT !.wave = t, !.attempt = @ + 1]
    BY <1>1
  <2>2. t \in SUBSET Products /\ work.attempt + 1 \in Nat
    BY DEF WorkType
  <2>3. work' \in WorkType /\ work'.todo = work.todo /\ work'.wave = t
    BY ONLY <2>1, <2>2, work \in WorkType DEF WorkType
  <2> QED BY <1>1, <2>3
<1>2. CASE ~(MayRetry /\ t # {})
  <2>1. work' = [work EXCEPT !.wave = {}, !.attempt = 0]
    BY <1>2
  <2> QED BY ONLY <2>1, work \in WorkType DEF WorkType
<1> QED BY <1>1, <1>2

\* A bound counter goes up.
LEMMA CountsGoUp ==
    ASSUME count \in CountType, {MaxTroubles, MaxUniverses, MaxExpiries} \subseteq Nat,
           \/ count.troubles < MaxTroubles /\ count' = [count EXCEPT !.troubles = @ + 1]
           \/ count.universes < MaxUniverses /\ count' = [count EXCEPT !.universes = @ + 1]
           \/ count.expiries < MaxExpiries /\ count' = [count EXCEPT !.expiries = @ + 1]
    PROVE count' \in CountType
<1>1. CASE count.troubles < MaxTroubles /\ count' = [count EXCEPT !.troubles = @ + 1]
  BY <1>1 DEF CountType
<1>2. CASE count.universes < MaxUniverses /\ count' = [count EXCEPT !.universes = @ + 1]
  BY <1>2 DEF CountType
<1>3. CASE count.expiries < MaxExpiries /\ count' = [count EXCEPT !.expiries = @ + 1]
  BY <1>3 DEF CountType
<1> QED BY <1>1, <1>2, <1>3

\* The rows that a run goes through, and where it is.
LEMMA StepWorkTyped ==
    ASSUME IInv, [Next]_vars PROVE work' \in WorkType /\ pc' \in Places
<1>0. work \in WorkType /\ pc \in Places /\ mem \in Checkpoints
  BY DEF IInv, TypeOK, WorkType
<1>1. Idle \in WorkType
  BY NewIsCheckpoint DEF WorkType
<1>2. {"go", "select", "selected", "required", "refresh", "refreshed", "loaded", "catalog",
       "commit", "settled", "fees", "outage"} = Places
  BY DEF Places
<1>3. CASE UNCHANGED <<work, pc>> \/ (work' = Idle /\ pc' = "go")
  BY <1>0, <1>1, <1>2, <1>3
<1>4. CASE work' = work /\ pc' \in Places
  BY <1>0, <1>4
<1>5. CASE FeesBegin
  <2>1. work' = [Idle EXCEPT !.todo = FeePending(mem)] /\ pc' = "fees"
    BY <1>5 DEF FeesBegin
  <2>2. FeePending(mem) \subseteq Products
    BY <1>0, FeesPendingArePassed
  <2> QED BY <1>1, <1>2, <2>1, <2>2 DEF WorkType
<1>6. CASE FeeBatch
  <2>1. First(work.todo, Batch) \subseteq work.todo
    BY FirstIsPart
  <2> QED BY <1>0, <1>6, <2>1 DEF FeeBatch, WorkType
<1>7. CASE FeeWave
  <2>1. /\ pc' \in {"outage", "fees"}
        /\ \E t \in SUBSET work.wave :
              work' = IF MayRetry /\ t # {} THEN [work EXCEPT !.wave = t, !.attempt = @ + 1]
                      ELSE [work EXCEPT !.wave = {}, !.attempt = 0]
    BY <1>7 DEF FeeWave
  <2> QED BY <1>0, <1>2, <2>1, WaveGoesOn
<1>8. CASE PrepareSuppliers \/ SuppliersLoaded \/ Refreshing \/ QogitaLoaded
  BY <1>8, <1>2, <1>4 DEF PrepareSuppliers, SuppliersLoaded, Refreshing, QogitaLoaded, Checkpoint
<1>9. CASE Select \/ Reconcile \/ CatalogBatch \/ CatalogCommit \/ CatalogSettle \/ CatalogComplete
  BY <1>9, <1>2, <1>4 DEF Select, Reconcile, CatalogBatch, CatalogCommit, CatalogSettle, CatalogComplete,
     Checkpoint, KeepRun
<1>10. CASE CheckCache
  BY <1>10, <1>2, <1>4 DEF CheckCache, Checkpoint
<1>11. CASE Refresh \/ Refreshed
  BY <1>11, <1>2, <1>3, <1>4 DEF Refresh, Refreshed, Return
<1>12. CASE FilterBsr \/ PricingComplete \/ FilterCompetition
  BY <1>12, <1>2, <1>4 DEF FilterBsr, PricingComplete, FilterCompetition, Checkpoint
<1>13. CASE NoSupplier \/ Outage \/ Evaluate \/ Raise
  BY <1>13, <1>3 DEF NoSupplier, Outage, Evaluate, Raise, Return
<1>14. CASE FeesEnd
  BY <1>14, <1>2, <1>3, <1>4 DEF FeesEnd, Checkpoint, Return
<1>15. CASE PublishGeneration \/ Expire \/ StartNewCycle \/ PricingBatch \/ UNCHANGED vars
  BY <1>15, <1>3 DEF PublishGeneration, Expire, StartNewCycle, PricingBatch, vars, runVars
<1>16. CASE FeeRequestFails
  BY <1>16, <1>2, <1>4 DEF FeeRequestFails
<1>17. CASE Die \/ \E j \in Jobs : Start(j)
  BY <1>17, <1>3 DEF Die, Start
<1> QED
  BY <1>5, <1>6, <1>7, <1>8, <1>9, <1>10, <1>11, <1>12, <1>13, <1>14, <1>15, <1>16, <1>17 DEF Next, RunStep

\* What surrounds a run.
LEMMA StepRestTyped ==
    ASSUME IInv, [Next]_vars
    PROVE /\ universe' \subseteq Products /\ cycle' \in 1 .. MaxCycles
          /\ cache' \in [version : Nat, fresh : BOOLEAN] /\ count' \in CountType
<1>0. /\ universe \subseteq Products /\ cycle \in 1 .. MaxCycles
      /\ cache \in [version : Nat, fresh : BOOLEAN] /\ count \in CountType
      /\ MaxCycles \in Nat /\ {MaxTroubles, MaxUniverses, MaxExpiries} \subseteq Nat
  BY CheckpointAssumption DEF IInv, TypeOK, CountType
<1>1. CASE UNCHANGED <<universe, cycle, cache, count>>
  BY <1>0, <1>1
<1>2. CASE PublishGeneration
  BY <1>0, <1>2, CountsGoUp DEF PublishGeneration, rotationVars
<1>3. CASE Expire
  BY <1>0, <1>3, CountsGoUp DEF Expire, rotationVars
<1>4. CASE StartNewCycle
  BY <1>0, <1>4 DEF StartNewCycle
<1>5. CASE Refresh
  <2>1. cache' \in [version : Nat, fresh : BOOLEAN] /\ universe' = universe /\ cycle' = cycle
    <3>1. CASE cache' = [version |-> cache.version + 1, fresh |-> TRUE]
      BY <1>0, <1>5, <3>1 DEF Refresh, rotationVars
    <3>2. CASE UNCHANGED cache
      BY <1>0, <1>5, <3>2 DEF Refresh, rotationVars
    <3> QED BY <1>5, <3>1, <3>2 DEF Refresh
  <2>2. count' \in CountType
    BY <1>0, <1>5, CountsGoUp DEF Refresh
  <2> QED BY <1>0, <2>1, <2>2
<1>6. CASE FeeRequestFails \/ Raise \/ Die
  BY <1>0, <1>6, CountsGoUp DEF FeeRequestFails, Raise, Die, rotationVars
<1>7. CASE Select \/ Reconcile \/ CatalogCommit \/ CatalogSettle
  BY <1>1, <1>7 DEF Select, Reconcile, CatalogCommit, CatalogSettle, Commit, KeepRun
<1>8. CASE UNCHANGED vars \/ \E j \in Jobs : Start(j)
  BY <1>1, <1>8 DEF vars, runVars, rotationVars, Start
<1>9. CASE KeepRotation
  BY <1>1, <1>9 DEF KeepRotation, rotationVars
<1>10. CASE RunStep
  BY <1>5, <1>7, <1>9, <1>10 DEF RunStep, PrepareSuppliers, SuppliersLoaded, NoSupplier, CheckCache,
     Refreshing, Refreshed, QogitaLoaded, CatalogBatch, CatalogComplete, FilterBsr, PricingBatch,
     PricingComplete, FilterCompetition, FeesBegin, FeeBatch, FeeWave, Outage, FeesEnd, Evaluate
<1> QED BY <1>2, <1>3, <1>4, <1>6, <1>8, <1>10 DEF Next

LEMMA StepTyped ==
    ASSUME IInv, [Next]_vars PROVE TypeOK'
BY StepRunTyped, StepStoresTyped, StepWorkTyped, StepRestTyped
   DEF TypeOK, WorkType, ItemsType, SelType, CountType, ItemsKnown

-----------------------------------------------------------------------------
(* Where a run is, and the rows it goes through.                               *)

\* A run that is at no place of its code says nothing of it.
LEMMA NowhereTells ==
    ASSUME runner' = 0 \/ pc' = "go" PROVE Whereabouts'
BY DEF Whereabouts

LEMMA IdleTells ==
    ASSUME runner' = 0 \/ work' = Idle PROVE Waves'
BY DEF Waves, Idle

LEMMA StepWaves ==
    ASSUME IInv, [Next]_vars PROVE Waves'
<1>0. Waves /\ mem \in Checkpoints
  BY DEF IInv, TypeOK
<1>1. CASE runner' = 0 \/ work' = Idle
  BY <1>1, IdleTells
<1>2. CASE UNCHANGED <<work, runner>> /\ mem'.fee = mem.fee
  BY <1>0, <1>2 DEF Waves
<1>3. CASE FeesBegin
  <2>1. /\ work'.todo = FeePending(mem) /\ work'.wave = {} /\ mem' = mem /\ runner' = runner
        /\ \A p \in FeePending(mem) : mem.fee[p] # "answered"
    BY <1>0, <1>3, FeesPendingArePassed DEF FeesBegin, Idle
  <2> QED BY <2>1 DEF Waves
<1>4. CASE FeeBatch
  <2>1. PICK rows : rows = First(work.todo, Batch)
    OBVIOUS
  <2>2. /\ work'.todo = work.todo \ rows /\ work'.wave = rows /\ rows \subseteq work.todo
        /\ mem' = mem /\ runner' = runner
    BY <1>4, <2>1, FirstIsPart DEF FeeBatch
  <2> QED BY <1>0, <2>2 DEF Waves
<1>5. CASE FeeWave
  <2>0. work \in WorkType /\ runner # 0 /\ runner' = runner
    BY <1>5 DEF IInv, TypeOK, WorkType, FeeWave, At
  <2>1. PICK transient \in SUBSET work.wave : \E internal \in SUBSET transient :
           LET outage == ~MayRetry /\ Systemic(transient)
               as(p) == IF p \notin transient THEN "answered"
                        ELSE IF MayRetry \/ outage THEN "retryable_error"
                        ELSE IF p \in internal THEN "unavailable" ELSE "answered"
           IN  /\ mem' = [mem EXCEPT !.fee = [p \in Products |-> IF p \in work.wave THEN as(p) ELSE @[p]]]
               /\ work' = IF MayRetry /\ transient # {}
                          THEN [work EXCEPT !.wave = transient, !.attempt = @ + 1]
                          ELSE [work EXCEPT !.wave = {}, !.attempt = 0]
    BY <1>5 DEF FeeWave
  <2>2. /\ work' \in WorkType /\ work'.todo = work.todo /\ work'.wave \subseteq transient
        /\ work'.wave # {} => MayRetry
    BY <2>0, <2>1, WaveGoesOn
  <2>3. \A p \in Products : p \in work.todo => mem'.fee[p] = mem.fee[p]
    BY <1>0, <2>0, <2>1 DEF Waves, Checkpoints
  <2>4. MayRetry => \A p \in Products : p \in transient => mem'.fee[p] = "retryable_error"
    BY <1>0, <2>0, <2>1 DEF Checkpoints
  <2>5. work'.todo \cap work'.wave = {}
    BY <1>0, <2>0, <2>2 DEF Waves
  <2>6. \A p \in work'.todo : mem'.fee[p] # "answered"
    BY <1>0, <2>0, <2>2, <2>3 DEF Waves, WorkType
  <2>7. \A p \in work'.wave : mem'.fee[p] # "answered"
    BY <2>0, <2>2, <2>4 DEF WorkType
  <2> QED BY <2>5, <2>6, <2>7 DEF Waves
<1>6. CASE Refresh \/ Refreshed \/ FeesEnd \/ NoSupplier \/ Outage \/ Evaluate \/ Raise \/ Die
  BY <1>0, <1>1, <1>2, <1>6 DEF Refresh, Refreshed, FeesEnd, NoSupplier, Outage, Evaluate, Raise, Die,
     Return, Checkpoint, Checkpoints
<1>7. CASE \E j \in Jobs : Start(j)
  BY <1>1, <1>7 DEF Start
<1>8. CASE UNCHANGED vars \/ PublishGeneration \/ Expire \/ StartNewCycle \/ FeeRequestFails
  BY <1>2, <1>8 DEF vars, runVars, PublishGeneration, Expire, StartNewCycle, FeeRequestFails
<1>9. CASE PrepareSuppliers \/ SuppliersLoaded \/ Refreshing \/ QogitaLoaded \/ CatalogComplete \/ PricingComplete
  BY <1>0, <1>2, <1>9 DEF PrepareSuppliers, SuppliersLoaded, Refreshing, QogitaLoaded, CatalogComplete,
     PricingComplete, Checkpoint, Checkpoints
<1>10. CASE Select \/ Reconcile \/ CatalogCommit \/ CatalogSettle \/ CatalogBatch \/ PricingBatch
  BY <1>0, <1>2, <1>10 DEF Select, Reconcile, CatalogCommit, CatalogSettle, CatalogBatch, PricingBatch,
     KeepRun, Checkpoints
<1>11. CASE FilterBsr \/ FilterCompetition \/ CheckCache
  BY <1>0, <1>2, <1>11 DEF FilterBsr, FilterCompetition, CheckCache, Checkpoint, Checkpoints
<1> QED BY <1>3, <1>4, <1>5, <1>6, <1>7, <1>8, <1>9, <1>10, <1>11 DEF Next, RunStep


\* A place says the same as long as the run is what it was.
LEMMA PlaceStays ==
    ASSUME Whereabouts, mem \in Checkpoints, UNCHANGED <<runner, mem, sel>>,
           \/ pc' = pc
           \/ pc' = "refreshed" /\ pc = "refresh"
           \/ mem.phase = "competition_filtered" /\ pc' \in {"fees", "outage"}
    PROVE Whereabouts'
<1>1. "competition_filtered" \notin Early /\ "competition_filtered" \notin Loaded
  BY DEF Early, Loaded, Preparing, Checking
<1> QED BY <1>1 DEF Whereabouts

LEMMA StepWhere ==
    ASSUME IInv, [Next]_vars PROVE Whereabouts'
<1>0. Whereabouts /\ mem \in Checkpoints /\ (runner # 0 => Sound(mem, sel[runner]))
  BY DEF IInv, TypeOK, Memory
<1>1. CASE runner' = 0 \/ pc' = "go"
  BY <1>1, NowhereTells
<1>2. CASE /\ UNCHANGED <<runner, mem, sel>>
           /\ \/ pc' = pc
              \/ pc' = "refreshed" /\ pc = "refresh"
  BY <1>0, <1>2, PlaceStays
<1>3. CASE PrepareSuppliers
  <2>1. /\ pc' = "select" /\ mem' = [mem EXCEPT !.phase = "supplier_preparing"] /\ mem.suppliers = TRUE
    BY <1>0, <1>3 DEF PrepareSuppliers, Checkpoint, Checkpoints
  <2>2. mem'.phase \in Early /\ mem'.suppliers = TRUE
    BY <1>0, <2>1, PhaseNames DEF Checkpoints
  <2> QED BY <2>1, <2>2 DEF Whereabouts
<1>4. CASE Select
  <2>1. /\ pc' = "selected" /\ pc = "select" /\ runner' = runner /\ runner # 0
        /\ mem' = [mem EXCEPT !.cand = sel'[runner].ids \cap universe]
    BY <1>4 DEF Select, At
  <2>2. mem'.phase = mem.phase /\ mem'.suppliers = mem.suppliers
    BY <1>0, <2>1 DEF Checkpoints
  <2> QED BY <1>0, <2>1, <2>2 DEF Whereabouts
<1>5. CASE CheckCache
  <2>1. /\ mem.suppliers = FALSE /\ mem.phase \in Early /\ runner' = runner /\ runner # 0
    BY <1>0, <1>5, PhaseNames DEF CheckCache, InPhase, At, Checkpoints
  <2> DEFINE m == [mem EXCEPT !.before = IF @ = 0 THEN cache.version + 1 ELSE @]
  <2>2. m.suppliers = FALSE /\ m.phase \in Early
    BY <1>0, <2>1 DEF Checkpoints
  <2>3. CASE Usable
    <3>1. mem' = [m EXCEPT !.cand = Products] /\ pc' = "loaded"
      BY <1>5, <2>3 DEF CheckCache
    <3>2. mem'.suppliers = FALSE /\ mem'.phase \in Early
      BY <1>0, <2>1, <3>1 DEF Checkpoints
    <3> QED BY <3>1, <3>2 DEF Whereabouts
  <2>4. CASE ~Usable
    <3>1. mem' = [m EXCEPT !.phase = "qogita_refresh_required"] /\ pc' = "required"
      BY <1>5, <2>4 DEF CheckCache, Checkpoint
    <3>2. mem'.suppliers = FALSE /\ mem'.phase \in Early
      BY <1>0, <2>1, <3>1, PhaseNames DEF Checkpoints
    <3> QED BY <3>1, <3>2 DEF Whereabouts
  <2> QED BY <2>3, <2>4
<1>6. CASE Refreshing
  <2>1. /\ pc' = "refresh" /\ mem' = [mem EXCEPT !.phase = "qogita_refreshing"] /\ mem.suppliers = FALSE
    BY <1>0, <1>6 DEF Refreshing, Checkpoint, At, Whereabouts
  <2>2. mem'.phase \in Early /\ mem'.suppliers = FALSE
    BY <1>0, <2>1, PhaseNames DEF Checkpoints
  <2> QED BY <2>1, <2>2 DEF Whereabouts
<1>7. CASE Refreshed
  <2>1. CASE Return(mem, "qogita_refresh_failed")
    BY <1>1, <2>1 DEF Return
  <2>2. CASE mem' = [mem EXCEPT !.cand = Products] /\ pc' = "loaded"
    <3>1. mem.phase \in Early /\ mem.suppliers = FALSE
      BY <1>0, <1>7 DEF Refreshed, At, Whereabouts
    <3>2. mem'.phase \in Early /\ mem'.suppliers = FALSE
      BY <1>0, <2>2, <3>1 DEF Checkpoints
    <3> QED BY <2>2, <3>2 DEF Whereabouts
  <2> QED BY <1>7, <2>1, <2>2 DEF Refreshed
<1>8. CASE Refresh
  <2>1. pc = "refresh" /\ sel' = sel
    BY <1>8 DEF Refresh, At, rotationVars
  <2>2. CASE Return(mem, "qogita_refresh_failed")
    BY <1>1, <2>2 DEF Return
  <2>3. CASE pc' = "refreshed" /\ UNCHANGED <<saved, runner, mem, work, count>>
    BY <1>2, <2>1, <2>3
  <2> QED BY <1>8, <2>2, <2>3 DEF Refresh
<1>9. CASE Reconcile \/ CatalogCommit
  <2>1. pc' = "catalog" /\ mem' = mem /\ runner' = runner /\ mem.phase \in Loaded
    BY <1>0, <1>9 DEF Reconcile, CatalogCommit, KeepRun, InPhase, At, Whereabouts
  <2> QED BY <2>1 DEF Whereabouts
<1>10. CASE CatalogBatch
  <2>1. /\ pc' = "commit" /\ mem.phase \in Loaded
        /\ \E a \in Answers(First(Unanswered, Batch)) : mem' = [mem EXCEPT !.catalog = a]
    BY <1>0, <1>10 DEF CatalogBatch, At, Whereabouts
  <2>2. mem'.phase = mem.phase
    BY <1>0, <2>1 DEF Checkpoints
  <2> QED BY <2>1, <2>2 DEF Whereabouts
<1>11. CASE CatalogSettle
  <2>1. /\ pc' = "settled" /\ mem' = mem /\ runner' = runner /\ mem.phase \in Loaded
        /\ runner # 0 /\ Commits /\ Unanswered = {}
    BY <1>0, <1>11, CommitsHappen DEF CatalogSettle, KeepRun, At, Whereabouts
  <2>2. sel'[runner].analyzed = sel[runner].analyzed \cup Done
    BY <2>1, Committing
  <2>3. ASSUME NEW p \in mem.cand
        PROVE /\ mem.catalog[p] # "none"
              /\ mem.suppliers = TRUE /\ Definitive(mem.catalog[p]) => p \in sel'[runner].analyzed
    BY <1>0, <2>1, <2>2 DEF Unanswered, Done, Sound
  <2> QED BY <2>1, <2>3 DEF Whereabouts
<1>12. CASE FeesBegin
  <2>1. /\ mem.phase = "competition_filtered" /\ pc' = "fees" /\ UNCHANGED <<runner, mem, sel>>
    BY <1>12 DEF FeesBegin, InPhase, KeepRotation, rotationVars
  <2> QED BY <1>0, <2>1, PlaceStays
<1>13. CASE FeeRequestFails
  <2>1. /\ mem.phase = "competition_filtered" /\ pc' = "outage" /\ UNCHANGED <<runner, mem, sel>>
    BY <1>0, <1>13 DEF FeeRequestFails, At, rotationVars, Whereabouts
  <2> QED BY <1>0, <2>1, PlaceStays
<1>14. CASE FeeWave
  <2>1. /\ mem.phase = "competition_filtered" /\ pc' \in {"fees", "outage"}
        /\ \E f : mem' = [mem EXCEPT !.fee = f]
    BY <1>0, <1>14 DEF FeeWave, At, Whereabouts
  <2>2. mem'.phase = "competition_filtered"
    BY <1>0, <2>1 DEF Checkpoints
  <2> QED BY <2>1, <2>2 DEF Whereabouts
<1>15. CASE NoSupplier \/ Outage \/ Evaluate \/ Raise \/ Die \/ \E j \in Jobs : Start(j)
  BY <1>1, <1>15 DEF NoSupplier, Outage, Evaluate, Raise, Die, Start, Return
<1>16. CASE SuppliersLoaded \/ QogitaLoaded \/ CatalogComplete \/ PricingComplete \/ FilterBsr \/ FilterCompetition
  BY <1>1, <1>16 DEF SuppliersLoaded, QogitaLoaded, CatalogComplete, PricingComplete, FilterBsr,
     FilterCompetition, Checkpoint
<1>17. CASE FeesEnd
  BY <1>1, <1>17 DEF FeesEnd, Checkpoint, Return
<1>18. CASE PricingBatch
  BY <1>1, <1>18 DEF PricingBatch, InPhase, At
<1>19. CASE FeeBatch
  BY <1>2, <1>19 DEF FeeBatch, KeepRotation, rotationVars
<1>20. CASE UNCHANGED vars \/ PublishGeneration \/ Expire \/ StartNewCycle
  BY <1>2, <1>20 DEF vars, runVars, rotationVars, PublishGeneration, Expire, StartNewCycle
<1> QED
  BY <1>3, <1>4, <1>5, <1>6, <1>7, <1>8, <1>9, <1>10, <1>11, <1>12, <1>13, <1>14, <1>15, <1>16, <1>17,
     <1>18, <1>19, <1>20 DEF Next, RunStep

-----------------------------------------------------------------------------
(* The theorems.                                                               *)

LEMMA InitIInv == Init => IInv
<1> SUFFICES ASSUME Init PROVE IInv
  OBVIOUS
<1>1. /\ saved \in [Jobs -> {New(TRUE), New(FALSE)}] /\ runner = 0 /\ mem = Nobody /\ pc = "go"
      /\ work = Idle /\ universe = Products /\ cycle = 1
      /\ items = [known |-> {}, active |-> {}, fresh |-> {}, cycle |-> All(0), count |-> All(0)]
      /\ sel = [j \in Jobs |-> [ids |-> {}, cycle |-> 0, analyzed |-> {}]]
      /\ cache = [version |-> 0, fresh |-> FALSE]
      /\ count = [troubles |-> 0, universes |-> 0, expiries |-> 0]
  BY DEF Init
<1>2. TypeOK
  <2>1. saved \in [Jobs -> Checkpoints] /\ mem \in Checkpoints
    BY <1>1, NewIsCheckpoint
  <2>2. work \in [todo : SUBSET Products, wave : SUBSET Products, attempt : Nat] /\ pc \in Places
    BY <1>1, NewIsCheckpoint DEF Places
  <2>3. /\ items \in [known : SUBSET Products, active : SUBSET Products, fresh : SUBSET Products,
                      cycle : [Products -> Nat], count : [Products -> Nat]]
        /\ items.active \cup items.fresh \subseteq items.known
    BY <1>1 DEF All
  <2>4. sel \in [Jobs -> [ids : SUBSET Products, cycle : Nat, analyzed : SUBSET Products]]
    BY <1>1
  <2>5. cycle \in 1 .. MaxCycles /\ cache \in [version : Nat, fresh : BOOLEAN]
    BY <1>1, CheckpointAssumption
  <2>6. count \in [troubles : 0 .. MaxTroubles, universes : 0 .. MaxUniverses, expiries : 0 .. MaxExpiries]
    BY <1>1, CheckpointAssumption
  <2> QED BY <1>1, <2>1, <2>2, <2>3, <2>4, <2>5, <2>6 DEF TypeOK
<1>3. ASSUME NEW j \in Jobs PROVE Sound(saved[j], sel[j]) /\ Selected(sel[j])
  <2>1. /\ saved[j].phase = "initialized" /\ saved[j].cand = {} /\ saved[j].passed = {} /\ saved[j].priced = {}
        /\ saved[j].catalog = All("none") /\ sel[j].analyzed = {} /\ sel[j].ids = {}
    BY <1>1 DEF New
  <2>2. "initialized" \notin Settled \cup {"fees_complete", "completed"}
    BY DEF Settled
  <2> QED BY <2>1, <2>2 DEF Sound, Selected, All
<1>4. ItemsAreBacked
  <2> SUFFICES ASSUME NEW p \in Products
               PROVE /\ (By(p) = {}) <=> (items.count[p] = 0)
                     /\ items.count[p] <= Cardinality(By(p))
                     /\ items.cycle[p] # 0 => \E j \in By(p) : sel[j].cycle = items.cycle[p]
    BY DEF ItemsAreBacked, By
  <2>1. By(p) = {}
    BY <1>1 DEF By
  <2>2. items.count[p] = 0 /\ items.cycle[p] = 0
    BY <1>1 DEF All
  <2> QED BY <2>1, <2>2, FS_EmptySet
<1> QED BY <1>1, <1>2, <1>3, <1>4 DEF IInv, Memory, Whereabouts, Waves

LEMMA NextIInv == IInv /\ [Next]_vars => IInv'
BY StepTyped, StepSound, StepWhere, StepWaves, StepBacked DEF IInv, JobsAreSound

LEMMA Invariant == Spec => []IInv
BY InitIInv, NextIInv, PTL DEF Spec

\* Every variable keeps its type.
THEOREM RunTypeCorrect == Spec => []TypeOK
<1>1. IInv => TypeOK
  BY DEF IInv
<1> QED BY <1>1, Invariant, PTL

\* The checkpoint and the rotation store, which no transaction covers together,
\* never disagree about what was done (run_discovery, commit_catalog_results).
THEOREM StoresNeverDisagree == Spec => []StoresAgree
<1>1. IInv => StoresAgree
  <2> SUFFICES ASSUME IInv PROVE StoresAgree
    OBVIOUS
  <2>1. \A j \in Jobs : saved[j] \in Checkpoints /\ Sound(saved[j], sel[j])
    BY DEF IInv, TypeOK
  <2>2. ConsumedIsDurable
    BY <2>1 DEF ConsumedIsDurable, Sound
  <2>3. AnsweredIsConsumed
    <3> SUFFICES ASSUME NEW j \in Jobs, saved[j].suppliers, saved[j].phase \in Settled, NEW p \in saved[j].cand,
                        Definitive(saved[j].catalog[p])
                 PROVE p \in sel[j].analyzed
      BY DEF AnsweredIsConsumed
    <3>1. saved[j].suppliers = TRUE
      BY <2>1 DEF Checkpoints
    <3> QED BY <2>1, <3>1 DEF Sound
  <2> QED BY <2>2, <2>3 DEF StoresAgree, IInv
<1> QED BY <1>1, Invariant, PTL

\* A run that ends has every candidate answered and every fee final, after any
\* outage, retry and resume (run_discovery, _prepare_fee_resume).
THEOREM CompletedRunsAreWhole == Spec => []CompletedIsWhole
<1>1. IInv => CompletedIsWhole
  <2> SUFFICES ASSUME IInv, NEW j \in Jobs, saved[j].phase \in {"fees_complete", "completed"}
               PROVE /\ \A p \in saved[j].cand : saved[j].catalog[p] # "none"
                     /\ FeePending(saved[j]) = {}
    BY DEF CompletedIsWhole
  <2>1. Sound(saved[j], sel[j]) /\ saved[j].phase \in Settled
    BY DEF IInv, Settled
  <2> QED BY <2>1 DEF Sound
<1> QED BY <1>1, Invariant, PTL

LEMMA StepKeepsFees ==
    ASSUME IInv, [Next]_vars, NEW j \in Jobs, NEW p \in Products, saved[j].fee[p] = "answered"
    PROVE saved'[j].fee[p] = "answered"
<1>0. saved \in [Jobs -> Checkpoints] /\ 0 \notin Jobs
  BY CheckpointAssumption DEF IInv, TypeOK
<1>1. ASSUME NEW k \in Jobs, Begins(k) PROVE saved'[j].fee[p] = "answered"
  BY <1>0, <1>1 DEF Begins
<1>2. ASSUME NEW c, Writes(c) PROVE saved'[j].fee[p] = "answered"
  <2>1. runner \in Jobs /\ mem.fee = saved[runner].fee
    BY <1>2, MemoryIsSound DEF Writes, IInv, Memory
  <2>2. CASE j = runner
    <3>1. saved'[j] = c /\ c.fee[p] = "answered"
      BY <1>0, <1>2, <2>1, <2>2 DEF Writes, KeepsFees
    <3> QED BY <3>1
  <2>3. CASE j # runner
    BY <1>0, <1>2, <2>1, <2>3 DEF Writes
  <2> QED BY <2>2, <2>3
<1>3. CASE saved' = saved
  BY <1>3
<1> QED BY NextDoes, <1>1, <1>2, <1>3, Selecting DEF GoesOn, Ends, Picks, Commits, Stays

\* A fee that Amazon has answered is never asked again and never lost
\* (_process_fee_batch, _prepare_fee_resume).
THEOREM AnsweredFeesStay == Spec => AnsweredFeesAreKept
<1>1. IInv /\ [Next]_vars =>
         [\A j \in Jobs : \A p \in Products : saved[j].fee[p] = "answered" => saved'[j].fee[p] = "answered"]_vars
  BY StepKeepsFees
<1> QED BY <1>1, Invariant, PTL DEF Spec, AnsweredFeesAreKept
===============================================================================
