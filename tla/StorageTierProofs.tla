--------------------------- MODULE StorageTierProofs ---------------------------
(***************************************************************************)
(* Proofs about StorageTier, for any number of jobs, any scopes, any sizes   *)
(* and levels of the volume, and any bounds on cycles, deaths and reference  *)
(* changes.  The invariants of the run say nothing of the process that has   *)
(* read and not yet written; IInv says what the archive and the retention    *)
(* know of the rows at each of their steps, and what the lock keeps away.    *)
(***************************************************************************)
EXTENDS StorageTier, FiniteSetTheorems, WellFoundedInduction, TLAPS

\* The completed jobs after a job, and a job that retention may have pruned.
Newer(j) == {k \in Jobs : k > j /\ status[k] = "completed"}
Superseded(j) ==
    /\ \E k \in Newer(j) : Scope[k] = Scope[j]
    /\ Cardinality(Newer(j)) >= KeepPressure

\* A registered job has the file that is registered, and a file is never poorer
\* than the rows that are left.
RowsFollow == \A j \in Jobs :
    /\ (status[j] = "none") = (rows[j] = "none")
    /\ segment[j] # "none" => rows[j] # "none"
    /\ catalog[j] # "none" => segment[j] = catalog[j]
    /\ segment[j] = "final" => rows[j] # "full"

\* Who holds the maintenance lock at which step, and what that keeps away.
Guarded == {"fresh", "register", "repointed", "cleanup", "delete"}
Swapping == {"swapOut", "swapIn"}
GuardHeld ==
    /\ arch.pc \in Guarded => guard = "archive"
    /\ (arch.pc \in Swapping) <=> (guard = "compact")
    /\ (guard = "retention") <=> (ret.pc = "prune")
    /\ guard = "compact" => Running = {}

\* The archive works on a file that is there, whatever cycle wrote it.
SegmentThere ==
    /\ \A j \in Jobs : life[j].state \in {"COPIED", "VERIFIED"} => segment[j] # "none"
    /\ arch.pc \in {"copied", "verify", "fresh", "register"} => segment[arch.job] # "none"
    /\ arch.pc = "place" => segment[arch.job] = "none" /\ arch.seen \in {"full", "final"}

\* What is pruned, or about to be, has a newer job of its scope and enough newer
\* jobs of all.
PrunedIsOld ==
    /\ \A j \in Jobs : rows[j] = "final" \/ segment[j] = "final" => Superseded(j)
    /\ ret.pc = "prune" => Superseded(ret.job) /\ ret.hash[1] = "full"

IInv ==
    /\ TypeOK /\ NothingLost
    /\ RowsFollow /\ GuardHeld /\ SegmentThere /\ PrunedIsOld

LifeRow == [state : LifeStates, hash : Hashes]
ArchRow == [pc : ArchPcs, job : Jobs, hash : Hashes, seen : RowStates, todo : SUBSET (Jobs \X Hashes)]
RetRow == [pc : {"idle", "lock", "prune"}, job : Jobs, hash : Hashes,
           wm : {"NORMAL", "PREVENTIVE", "PRESSURE"}]

(***************************************************************************)
(* Facts about the constants and about the greatest job of a set.           *)
(***************************************************************************)
LEMMA Bounds ==
    /\ Jobs \subseteq Nat /\ 1 \in Jobs /\ IsFiniteSet(Jobs)
    /\ Cardinality(Jobs) \in Nat /\ Jobs = 1..Cardinality(Jobs)
    /\ KeepPreventive \in Nat /\ KeepPressure \in Nat /\ KeepPreventive >= KeepPressure
    /\ MaxRefs \in Nat /\ MaxCycles \in Nat /\ MaxCrashes \in Nat
<1>1. IsFiniteSet(Jobs) /\ Jobs # {} /\ Jobs = 1..Cardinality(Jobs)
  BY StorageAssumption
<1>2. Cardinality(Jobs) \in Nat
  BY <1>1, FS_CardinalityType
<1>3. Jobs \subseteq Nat /\ 1 \in Jobs
  BY <1>1, <1>2
<1> QED
  BY <1>1, <1>2, <1>3, StorageAssumption

Less == {ss \in Nat \X Nat : ss[1] < ss[2]}

LEMMA Least ==
    ASSUME NEW S, S \subseteq Nat, S # {}
    PROVE  \E x \in S : \A y \in S : x <= y
<1>1. OpToRel(<, Nat) = Less
  BY Zenon DEF OpToRel, Less
<1>2. PICK x \in S : \A y \in S : <<y, x>> \notin Less
  BY <1>1, NatLessThanWellFounded, WFMin, Zenon
<1>3. ASSUME NEW a \in Nat, NEW b \in Nat, a < b
      PROVE  <<a, b>> \in Less
  <2>1. <<a, b>> \in Nat \X Nat /\ <<a, b>>[1] < <<a, b>>[2]
    BY <1>3
  <2> QED
    BY <2>1 DEF Less
<1>4. ASSUME NEW y \in S
      PROVE  x <= y
  <2>1. x \in Nat /\ y \in Nat /\ <<y, x>> \notin Less
    BY <1>2
  <2>2. ~(y < x)
    BY <1>3, <2>1, Zenon
  <2> QED
    BY <2>1, <2>2
<1> QED
  BY <1>4

LEMMA Greatest ==
    ASSUME NEW S, S \subseteq Jobs, S # {}
    PROVE  Max(S) \in S
<1> DEFINE n == Cardinality(Jobs)  T == {n - x : x \in S}
<1>1. n \in Nat /\ \A x \in S : x \in 1..n
  BY Bounds
<1>2. T \subseteq Nat /\ T # {}
  BY <1>1
<1>3. PICK m \in T : \A y \in T : m <= y
  BY <1>2, Least
<1>4. PICK x \in S : m = n - x
  BY <1>3
<1>5. ASSUME NEW y \in S
      PROVE  x >= y
  <2>1. m <= n - y
    BY <1>3
  <2> QED
    BY <1>1, <1>4, <2>1
<1> QED
  BY <1>5 DEF Max

LEMMA NewerIsFinite ==
    ASSUME NEW j
    PROVE  /\ IsFiniteSet(Newer(j)) /\ IsFiniteSet(Newer(j)')
           /\ Cardinality(Newer(j)) \in Nat /\ Cardinality(Newer(j)') \in Nat
<1>1. Newer(j) \subseteq Jobs /\ Newer(j)' \subseteq Jobs
  BY DEF Newer
<1> QED
  BY <1>1, Bounds, FS_Subset, FS_CardinalityType

\* Completed jobs only grow in number.
LEMMA StaysSuperseded ==
    ASSUME \A k \in Jobs : status[k] = "completed" => status'[k] = "completed",
           NEW j, Superseded(j)
    PROVE  Superseded(j)'
<1>1. Newer(j) \subseteq Newer(j)'
  BY DEF Newer
<1>2. Cardinality(Newer(j)) <= Cardinality(Newer(j)')
  BY <1>1, NewerIsFinite, FS_Subset
<1> QED
  BY <1>1, <1>2, NewerIsFinite, Bounds DEF Superseded

\* What the planner of retention selects is superseded, by jobs that count as full.
LEMMA EligibleIsSuperseded ==
    ASSUME NEW w, NEW j \in FinalOnlyEligible(w)
    PROVE  j \in Jobs /\ rows[j] = "full" /\ Superseded(j)
<1> DEFINE full == {k \in FullCompleted : k > j}
<1>1. /\ j \in Jobs /\ RetentionGate(j)
      /\ \E k \in full : Scope[k] = Scope[j]
      /\ Cardinality(full) >= Keep(w)
  BY DEF FinalOnlyEligible
<1>2. full \subseteq Newer(j)
  BY DEF FullCompleted, Newer
<1>3. IsFiniteSet(full) /\ Cardinality(full) \in Nat /\ Cardinality(full) <= Cardinality(Newer(j))
  BY <1>2, NewerIsFinite, FS_Subset, FS_CardinalityType
<1>4. Keep(w) >= KeepPressure /\ Keep(w) \in Nat
  BY Bounds DEF Keep
<1> HIDE DEF full
<1>5. Cardinality(Newer(j)) >= KeepPressure
  BY <1>1, <1>3, <1>4, NewerIsFinite, Bounds
<1> QED
  BY <1>1, <1>2, <1>5 DEF Superseded, RetentionGate

(***************************************************************************)
(* What a step leaves in the archive's memory, in its state file and in the  *)
(* lock.                                                                     *)
(***************************************************************************)
ArchIs(pc) == arch' \in ArchRow /\ arch'.pc = pc /\ arch'.job = arch.job /\ arch'.seen = arch.seen
LifeIs(state) ==
    /\ life' \in [Jobs -> LifeRow] /\ life'[arch.job].state = state
    /\ \A j \in Jobs : j # arch.job => life'[j] = life[j]
GivesUp(state) ==
    /\ LifeIs(state) /\ ArchIs("next")
    /\ guard' = IF guard = "archive" THEN "free" ELSE guard

LEMMA Typed ==
    ASSUME TypeOK
    PROVE  /\ arch \in ArchRow /\ arch.pc \in ArchPcs /\ arch.job \in Jobs /\ arch.hash \in Hashes
           /\ arch.seen \in RowStates /\ arch.todo \subseteq Jobs \X Hashes
           /\ ret \in RetRow /\ ret.pc \in {"idle", "lock", "prune"} /\ ret.job \in Jobs
           /\ ret.hash \in Hashes
           /\ life \in [Jobs -> LifeRow]
           /\ \A j \in Jobs : /\ life[j].state \in LifeStates /\ life[j].hash \in Hashes
                              /\ Hash(j) \in Hashes
<1>1. arch \in ArchRow /\ ret \in RetRow /\ life \in [Jobs -> LifeRow]
  BY DEF TypeOK, ArchRow, RetRow, LifeRow
<1>2. \A j \in Jobs : life[j] \in LifeRow /\ Hash(j) \in Hashes
  BY <1>1 DEF TypeOK, Hash, Hashes, References
<1> HIDE DEF Hashes, Hash
<1> QED
  BY <1>1, <1>2 DEF ArchRow, RetRow, LifeRow

LEMMA Names ==
    /\ "idle" \in ArchPcs /\ "next" \in ArchPcs /\ "copy" \in ArchPcs /\ "place" \in ArchPcs
    /\ "copied" \in ArchPcs /\ "verify" \in ArchPcs /\ "guard" \in ArchPcs /\ "fresh" \in ArchPcs
    /\ "register" \in ArchPcs /\ "repointed" \in ArchPcs /\ "cleanup" \in ArchPcs
    /\ "delete" \in ArchPcs /\ "archived" \in ArchPcs /\ "compact" \in ArchPcs
    /\ "swapOut" \in ArchPcs /\ "swapIn" \in ArchPcs
    /\ "INTERNAL" \in LifeStates /\ "COPYING" \in LifeStates /\ "COPIED" \in LifeStates
    /\ "VERIFIED" \in LifeStates /\ "REPOINTED" \in LifeStates /\ "INTERNAL_CLEANUP" \in LifeStates
    /\ "RETRYABLE" \in LifeStates /\ "ARCHIVED" \in LifeStates /\ "BLOCKED" \in LifeStates
<1> QED
  BY DEF ArchPcs, LifeStates, Resumable

LEMMA IdleTyped == Idle \in ArchRow /\ [Idle EXCEPT !.pc = "compact"] \in ArchRow /\ IdleRet \in RetRow
<1>1. NoHash \in Hashes /\ "none" \in RowStates
  BY Bounds DEF NoHash, Hashes, RowStates
<1> QED
  BY <1>1, Bounds, Names DEF Idle, IdleRet, ArchRow, RetRow

LEMMA GotoDoes ==
    ASSUME TypeOK, NEW pc \in ArchPcs, Goto(pc)
    PROVE  ArchIs(pc)
<1> QED
  BY Typed DEF Goto, ArchIs, ArchRow

LEMMA SaveDoes ==
    ASSUME TypeOK, NEW st \in LifeStates, life' = Save(arch.job, st)
    PROVE  LifeIs(st)
<1> DEFINE q == [state |-> st, hash |-> arch.hash]
<1>1. q \in LifeRow /\ q.state = st
  BY Typed DEF LifeRow
<1> HIDE DEF q
<1>2. life' = [life EXCEPT ![arch.job] = q]
  BY DEF Save, q
<1> QED
  BY <1>1, <1>2, Typed DEF LifeIs

LEMMA GiveUpDoes ==
    ASSUME TypeOK, NEW st \in LifeStates, GiveUp(st)
    PROVE  GivesUp(st)
<1>1. ArchIs("next")
  BY Names, GotoDoes DEF GiveUp, Goto
<1> QED
  BY <1>1, SaveDoes DEF GiveUp, GivesUp

\* The state that a picked candidate is resumed with.
LEMMA PickDoes ==
    ASSUME TypeOK, PickCandidate
    PROVE  /\ arch' \in ArchRow /\ life' \in [Jobs -> LifeRow]
           /\ arch'.pc \in {"next", "copy", "verify", "guard"}
           /\ arch'.pc = "verify" => life[arch'.job].state = "COPIED"
           /\ \A k \in Jobs : life'[k].state \in {life[k].state, "RETRYABLE", "COPYING"}
           /\ UNCHANGED <<jobVars, dataVars, envVars, guard, database, ret, cooling, boundVars>>
<1> DEFINE at(s) == CASE s = "COPIED" -> "verify"
                      [] s \in {"VERIFIED", "REPOINTED", "INTERNAL_CLEANUP"} -> "guard"
                      [] OTHER -> "copy"
           row(s, h) == [state |-> s, hash |-> h]
<1>1. PICK c \in arch.todo :
        /\ arch' = [arch EXCEPT !.pc = IF mounted THEN at(life[c[1]].state) ELSE "next",
                                !.job = c[1], !.hash = c[2], !.todo = @ \ {c}]
        /\ life' = IF ~mounted THEN [life EXCEPT ![c[1]] = row("RETRYABLE", c[2])]
                   ELSE IF at(life[c[1]].state) = "copy" THEN [life EXCEPT ![c[1]] = row("COPYING", c[2])]
                   ELSE life
  BY DEF PickCandidate
<1>2. c[1] \in Jobs /\ c[2] \in Hashes
  BY <1>1, Typed
<1>3. at(life[c[1]].state) \in {"copy", "verify", "guard"}
  OBVIOUS
<1>4. at(life[c[1]].state) = "verify" => life[c[1]].state = "COPIED"
  OBVIOUS
<1> HIDE DEF at
<1>5. /\ arch' \in ArchRow /\ arch'.job = c[1]
      /\ arch'.pc = IF mounted THEN at(life[c[1]].state) ELSE "next"
  BY <1>1, <1>2, <1>3, Typed, Names DEF ArchRow
<1>6. life' \in [Jobs -> LifeRow] /\ \A k \in Jobs : life'[k].state \in {life[k].state, "RETRYABLE", "COPYING"}
  <2>1. \A s \in {"RETRYABLE", "COPYING"} : row(s, c[2]) \in LifeRow /\ row(s, c[2]).state = s
    BY <1>2, Names DEF LifeRow
  <2> HIDE DEF row
  <2> QED
    BY <1>1, <1>2, <2>1, Typed
<1> QED
  BY <1>3, <1>4, <1>5, <1>6 DEF PickCandidate

(***************************************************************************)
(* The steps of the archive cycle by what they do.                          *)
(***************************************************************************)
Frame == <<jobVars, ret, cooling>>
Lost == GivesUp("BLOCKED") \/ GivesUp("RETRYABLE")
Saves(state, pc) == LifeIs(state) /\ ArchIs(pc) /\ UNCHANGED guard
GoesOn(pc) == ArchIs(pc) /\ UNCHANGED <<life, guard>>
Stops(pcs) == arch' \in ArchRow /\ arch'.pc \in pcs /\ UNCHANGED life

\* The steps that leave the rows, the files and the catalog alone.
Works ==
    /\ UNCHANGED <<Frame, dataVars>>
    /\ \/ arch.pc = "idle" /\ Stops({"next"}) /\ UNCHANGED guard
       \/ /\ arch.pc = "next" /\ UNCHANGED guard
          /\ arch' \in ArchRow /\ life' \in [Jobs -> LifeRow]
          /\ arch'.pc \in {"next", "copy", "verify", "guard"}
          /\ arch'.pc = "verify" => life[arch'.job].state = "COPIED"
          /\ \A k \in Jobs : life'[k].state \in {life[k].state, "RETRYABLE", "COPYING"}
       \/ arch.pc = "copy" /\ segment[arch.job] # "none" /\ GoesOn("copied")
       \/ /\ arch.pc = "copy" /\ segment[arch.job] = "none" /\ Present(arch.job)
          /\ arch' \in ArchRow /\ arch'.pc = "place" /\ arch'.job = arch.job
          /\ arch'.seen = rows[arch.job] /\ UNCHANGED <<life, guard>>
       \/ arch.pc \in {"copy", "place", "verify", "guard", "fresh", "register", "delete"} /\ Lost
       \/ arch.pc = "copied" /\ Saves("COPIED", "verify")
       \/ arch.pc = "verify" /\ Saves("VERIFIED", "guard")
       \/ /\ arch.pc = "guard" /\ guard = "free" /\ guard' = "archive" /\ UNCHANGED life
          /\ ArchIs(IF life[arch.job].state = "VERIFIED" THEN "fresh" ELSE "cleanup")
       \/ arch.pc = "fresh" /\ arch.job \in Candidates /\ GoesOn("register")
       \/ arch.pc = "repointed" /\ Saves("REPOINTED", "cleanup")
       \/ arch.pc = "cleanup" /\ Saves("INTERNAL_CLEANUP", "delete")
       \/ /\ arch.pc = "delete" /\ ~Present(arch.job)
          /\ ArchIs("archived") /\ guard' = "free" /\ UNCHANGED life
       \/ arch.pc = "archived" /\ Saves("ARCHIVED", "next")
       \/ arch.pc = "next" /\ Stops({"idle", "compact"}) /\ UNCHANGED guard
       \/ /\ arch.pc = "compact" /\ guard = "free" /\ guard' = "compact" /\ Running = {}
          /\ Stops({"swapOut"})
       \/ arch.pc = "compact" /\ Stops({"idle"}) /\ UNCHANGED guard
       \/ arch.pc = "swapOut" /\ Stops({"swapIn"}) /\ UNCHANGED guard
       \/ arch.pc \in Swapping /\ Stops({"idle"}) /\ guard' = "free"
       \/ Stops({"idle"}) /\ guard' = IF guard \in {"archive", "compact"} THEN "free" ELSE guard

Places ==
    /\ UNCHANGED <<Frame, rows, catalog, deleted>>
    /\ arch.pc = "place" /\ rows[arch.job] = arch.seen /\ GoesOn("copied")
    /\ segment' = [segment EXCEPT ![arch.job] = rows[arch.job]]

Registers ==
    /\ UNCHANGED <<Frame, rows, segment, deleted>>
    /\ arch.pc = "register" /\ GoesOn("repointed")
    /\ catalog' = [catalog EXCEPT ![arch.job] = segment[arch.job]]

Deletes ==
    /\ UNCHANGED <<Frame, segment, catalog>>
    /\ arch.pc = "delete" /\ Present(arch.job) /\ rows[arch.job] = catalog[arch.job]
    /\ rows' = [rows EXCEPT ![arch.job] = "gone"]
    /\ deleted' = [deleted EXCEPT ![arch.job] = rows[arch.job]]
    /\ ArchIs("archived") /\ guard' = "free" /\ UNCHANGED life

LEMMA FirstSteps ==
    ASSUME TypeOK, BeginCycle \/ PickCandidate \/ Copy \/ Place \/ SaveCopied \/ Verify
    PROVE  Works \/ Places
<1> USE Names
<1>1. CASE BeginCycle
  <2>1. {<<j, Hash(j)>> : j \in Candidates} \cup {<<j, life[j].hash>> : j \in Resumed}
           \subseteq Jobs \X Hashes
    <3>1. Candidates \subseteq Jobs /\ Resumed \subseteq Jobs
      BY DEF Candidates, InternalJobs, Resumed
    <3> HIDE DEF Candidates, Resumed
    <3> QED
      BY <3>1, Typed
  <2>2. arch' \in ArchRow /\ arch'.pc = "next"
    BY <1>1, <2>1, Typed DEF BeginCycle, ArchRow
  <2> QED
    BY <1>1, <2>2 DEF BeginCycle, AtPc, Works, Stops, Frame
<1>2. CASE PickCandidate
  BY <1>2, PickDoes DEF PickCandidate, AtPc, Works, Frame
<1>3. CASE Copy
  <2>1. CASE segment[arch.job] # "none" /\ Goto("copied") /\ UNCHANGED <<life, guard>>
    <3>1. GoesOn("copied")
      BY <2>1, GotoDoes DEF GoesOn
    <3> QED
      BY <1>3, <2>1, <3>1 DEF Copy, AtPc, Works, Frame
  <2>2. CASE /\ segment[arch.job] = "none" /\ Present(arch.job)
             /\ arch' = [arch EXCEPT !.pc = "place", !.seen = rows[arch.job]]
             /\ UNCHANGED <<life, guard>>
    <3>1. rows[arch.job] \in RowStates
      BY Typed DEF TypeOK
    <3>2. /\ arch' \in ArchRow /\ arch'.pc = "place" /\ arch'.job = arch.job
          /\ arch'.seen = rows[arch.job]
      BY <2>2, <3>1, Typed DEF ArchRow
    <3> QED
      BY <1>3, <2>2, <3>2 DEF Copy, AtPc, Works, Frame
  <2>3. CASE GiveUp("BLOCKED") \/ GiveUp("RETRYABLE")
    BY <1>3, <2>3, GiveUpDoes DEF Copy, AtPc, Works, Frame, Lost
  <2> QED
    BY <1>3, <2>1, <2>2, <2>3 DEF Copy
<1>4. CASE Place
  <2>1. CASE (GiveUp("BLOCKED") \/ GiveUp("RETRYABLE")) /\ UNCHANGED segment
    <3>1. Lost
      BY <2>1, GiveUpDoes DEF Lost
    <3> QED
      BY <1>4, <2>1, <3>1 DEF Place, AtPc, Works, Frame, dataVars
  <2>2. CASE /\ rows[arch.job] = arch.seen /\ Goto("copied") /\ UNCHANGED <<life, guard>>
             /\ segment' = [segment EXCEPT ![arch.job] = rows[arch.job]]
    BY <1>4, <2>2, GotoDoes DEF Place, AtPc, Places, GoesOn, Frame
  <2> QED
    BY <1>4, <2>1, <2>2 DEF Place
<1>5. CASE SaveCopied
  BY <1>5, SaveDoes, GotoDoes DEF SaveCopied, AtPc, Works, Saves, Frame
<1>6. CASE Verify
  <2>1. Saves("VERIFIED", "guard") \/ Lost
    BY <1>6, SaveDoes, GotoDoes, GiveUpDoes DEF Verify, Saves, Lost
  <2> QED
    BY <1>6, <2>1 DEF Verify, AtPc, Works, Frame
<1> QED
  BY <1>1, <1>2, <1>3, <1>4, <1>5, <1>6

LEMMA GuardedSteps ==
    ASSUME TypeOK, TakeGuard \/ FreshCandidate \/ Register \/ SaveRepointed \/ SaveCleanup
                   \/ DeleteInternal \/ SaveArchived
    PROVE  Works \/ Registers \/ Deletes
<1> USE Names
<1>1. CASE TakeGuard
  <2>1. CASE guard = "free"
    <3>1. ArchIs(IF life[arch.job].state = "VERIFIED" THEN "fresh" ELSE "cleanup")
      BY <1>1, <2>1, GotoDoes DEF TakeGuard
    <3> QED
      BY <1>1, <2>1, <3>1 DEF TakeGuard, AtPc, Works, Frame
  <2>2. CASE guard # "free"
    BY <1>1, <2>2, GiveUpDoes DEF TakeGuard, AtPc, Works, Frame, Lost
  <2> QED
    BY <2>1, <2>2
<1>2. CASE FreshCandidate
  <2>1. (arch.job \in Candidates /\ GoesOn("register")) \/ Lost
    BY <1>2, GotoDoes, GiveUpDoes DEF FreshCandidate, GoesOn, Lost
  <2> QED
    BY <1>2, <2>1 DEF FreshCandidate, AtPc, Works, Frame
<1>3. CASE Register
  <2>1. CASE /\ catalog' = [catalog EXCEPT ![arch.job] = segment[arch.job]]
             /\ Goto("repointed") /\ UNCHANGED <<life, guard>>
    BY <1>3, <2>1, GotoDoes DEF Register, AtPc, Registers, GoesOn, Frame
  <2>2. CASE GiveUp("RETRYABLE") /\ UNCHANGED catalog
    BY <1>3, <2>2, GiveUpDoes DEF Register, AtPc, Works, Frame, dataVars, Lost
  <2> QED
    BY <1>3, <2>1, <2>2 DEF Register
<1>4. CASE SaveRepointed
  BY <1>4, SaveDoes, GotoDoes DEF SaveRepointed, AtPc, Works, Saves, Frame
<1>5. CASE SaveCleanup
  BY <1>5, SaveDoes, GotoDoes DEF SaveCleanup, AtPc, Works, Saves, Frame
<1>6. CASE DeleteInternal
  <2>1. CASE /\ Present(arch.job) /\ rows[arch.job] = catalog[arch.job]
             /\ rows' = [rows EXCEPT ![arch.job] = "gone"]
             /\ deleted' = [deleted EXCEPT ![arch.job] = rows[arch.job]]
             /\ Goto("archived") /\ guard' = "free" /\ UNCHANGED life
    BY <1>6, <2>1, GotoDoes DEF DeleteInternal, AtPc, Deletes, Frame
  <2>2. CASE /\ ~Present(arch.job)
             /\ Goto("archived") /\ guard' = "free" /\ UNCHANGED <<rows, deleted, life>>
    <3>1. ArchIs("archived")
      BY <2>2, GotoDoes
    <3> QED
      BY <1>6, <2>2, <3>1 DEF DeleteInternal, AtPc, Works, Frame, dataVars
  <2>3. CASE (GiveUp("BLOCKED") \/ GiveUp("RETRYABLE")) /\ UNCHANGED <<rows, deleted>>
    <3>1. Lost
      BY <2>3, GiveUpDoes DEF Lost
    <3> QED
      BY <1>6, <2>3, <3>1 DEF DeleteInternal, AtPc, Works, Frame, dataVars
  <2> QED
    BY <1>6, <2>1, <2>2, <2>3 DEF DeleteInternal
<1>7. CASE SaveArchived
  BY <1>7, SaveDoes, GotoDoes DEF SaveArchived, AtPc, Works, Saves, Frame
<1> QED
  BY <1>1, <1>2, <1>3, <1>4, <1>5, <1>6, <1>7

LEMMA CompactionSteps ==
    ASSUME TypeOK, Compaction \/ ArchiveDies
    PROVE  Works
<1> USE Names
<1>1. CASE FinishRun
  <2>1. Stops({"idle", "compact"})
    BY <1>1, IdleTyped DEF FinishRun, Stops, Idle
  <2> QED
    BY <1>1, <2>1 DEF FinishRun, AtPc, Works, Frame
<1>2. CASE CompactGuard
  <2>1. CASE guard = "free" /\ Running = {}
    <3>1. Stops({"swapOut"}) /\ guard' = "compact"
      BY <1>2, <2>1, GotoDoes DEF CompactGuard, Stops, ArchIs
    <3> QED
      BY <1>2, <2>1, <3>1 DEF CompactGuard, AtPc, Works, Frame
  <2>2. CASE ~(guard = "free" /\ Running = {})
    <3>1. Stops({"idle"}) /\ UNCHANGED guard
      BY <1>2, <2>2, IdleTyped DEF CompactGuard, Stops, Idle
    <3> QED
      BY <1>2, <3>1 DEF CompactGuard, AtPc, Works, Frame
  <2> QED
    BY <2>1, <2>2
<1>3. CASE SwapOut
  <2>1. (Stops({"swapIn"}) /\ UNCHANGED guard) \/ (Stops({"idle"}) /\ guard' = "free")
    BY <1>3, GotoDoes, IdleTyped DEF SwapOut, Stops, ArchIs, Idle
  <2> QED
    BY <1>3, <2>1 DEF SwapOut, AtPc, Works, Frame, Swapping
<1>4. CASE SwapIn
  <2>1. Stops({"idle"})
    BY <1>4, IdleTyped DEF SwapIn, Stops, Idle
  <2> QED
    BY <1>4, <2>1 DEF SwapIn, Works, Frame, Swapping
<1>5. CASE ArchiveDies
  <2>1. Stops({"idle"})
    BY <1>5, IdleTyped DEF ArchiveDies, Stops, Idle
  <2> QED
    BY <1>5, <2>1 DEF ArchiveDies, Works, Frame
<1> QED
  BY <1>1, <1>2, <1>3, <1>4, <1>5 DEF Compaction

(***************************************************************************)
(* All steps.                                                                *)
(***************************************************************************)
ArchiveStep == Works \/ Places \/ Registers \/ Deletes

\* Steps of Discovery and of retention, which leave the archive alone.
JobStep == \E j \in Jobs : StartJob(j) \/ CompleteJob(j) \/ TouchReferences(j)

\* Retention plans, takes the lock for what is still eligible, prunes, or stops.
Plans == ret' \in RetRow /\ ret'.pc # "prune" /\ UNCHANGED <<rows, guard>>
Locks ==
    /\ guard = "free" /\ guard' = "retention" /\ Running = {} /\ UNCHANGED rows
    /\ ret' \in RetRow /\ ret'.pc = "prune" /\ ret'.job = ret.job /\ ret'.hash = ret.hash
    /\ ret.job \in FinalOnlyEligible(ret.wm) /\ Fingerprint(ret.job) = ret.hash
Prunes ==
    /\ ret.pc = "prune" /\ ret' = IdleRet /\ guard' = "free"
    /\ rows' = IF Fingerprint(ret.job) = ret.hash THEN [rows EXCEPT ![ret.job] = "final"] ELSE rows
Gone == ret' = IdleRet /\ guard' = (IF guard = "retention" THEN "free" ELSE guard) /\ UNCHANGED rows

RetentionWorks ==
    /\ UNCHANGED <<jobVars, segment, catalog, deleted, life, arch>>
    /\ \/ ret.pc # "prune" /\ Plans
       \/ ret.pc = "lock" /\ Locks
       \/ Prunes \/ Gone

Elsewhere == UNCHANGED <<jobVars, dataVars, life, guard, arch, ret>>

LEMMA RetentionDoes ==
    ASSUME TypeOK, BeginRetention \/ LockRetention \/ Prune \/ RetentionDies
    PROVE  RetentionWorks
<1>1. CASE BeginRetention
  <2> DEFINE w == Watermark(free)
             eligible == FinalOnlyEligible(w)
             j == Max(eligible)
             plan == [pc |-> "lock", job |-> j, hash |-> Fingerprint(j), wm |-> w]
  <2>1. CASE ret' = IdleRet
    BY <1>1, <2>1, IdleTyped DEF BeginRetention, RetentionWorks, Plans, IdleRet, dataVars
  <2>2. CASE w \in {"PREVENTIVE", "PRESSURE"} /\ eligible # {} /\ ret' = plan
    <3>1. j \in Jobs
      <4>1. eligible \subseteq Jobs
        BY DEF FinalOnlyEligible
      <4> HIDE DEF eligible
      <4> QED
        BY <2>2, <4>1, Greatest
    <3> HIDE DEF j
    <3>2. Fingerprint(j) \in Hashes
      BY <3>1 DEF TypeOK, Fingerprint, Closure, References, Hashes
    <3>3. ret' \in RetRow /\ ret'.pc = "lock"
      BY <2>2, <3>1, <3>2 DEF RetRow
    <3> QED
      BY <1>1, <3>3 DEF BeginRetention, RetentionWorks, Plans, dataVars
  <2> QED
    BY <1>1, <2>1, <2>2 DEF BeginRetention
<1>2. CASE LockRetention
  <2>1. CASE ret' = IdleRet /\ UNCHANGED guard
    BY <1>2, <2>1, IdleTyped DEF LockRetention, RetentionWorks, Plans, IdleRet, dataVars
  <2>2. CASE /\ guard = "free" /\ Running = {} /\ guard' = "retention"
             /\ ret.job \in FinalOnlyEligible(ret.wm) /\ Fingerprint(ret.job) = ret.hash
             /\ ret' = [ret EXCEPT !.pc = "prune"]
    <3>1. ret' \in RetRow /\ ret'.pc = "prune" /\ ret'.job = ret.job /\ ret'.hash = ret.hash
      BY <2>2, Typed DEF RetRow
    <3> QED
      BY <1>2, <2>2, <3>1 DEF LockRetention, RetentionWorks, Locks, dataVars
  <2> QED
    BY <1>2, <2>1, <2>2 DEF LockRetention
<1>3. CASE Prune
  BY <1>3 DEF Prune, RetentionWorks, Prunes
<1>4. CASE RetentionDies
  BY <1>4 DEF RetentionDies, RetentionWorks, Gone, dataVars
<1> QED
  BY <1>1, <1>2, <1>3, <1>4

LEMMA NextDoes ==
    ASSUME TypeOK, [Next]_vars
    PROVE  JobStep \/ ArchiveStep \/ RetentionWorks \/ Elsewhere
<1>1. CASE BeginCycle \/ CycleStep \/ ArchiveDies
  BY <1>1, FirstSteps, GuardedSteps, CompactionSteps DEF CycleStep, ProcessJob, ArchiveStep
<1>2. CASE BeginRetention \/ RetentionStep \/ RetentionDies
  BY <1>2, RetentionDoes DEF RetentionStep
<1>3. CASE MountOrUnmount \/ FreeSpaceMoves \/ OpenMissingDatabase \/ CooldownElapses
  BY <1>3 DEF MountOrUnmount, FreeSpaceMoves, OpenMissingDatabase, CooldownElapses, Elsewhere
<1>4. CASE UNCHANGED vars
  BY <1>4 DEF vars, Elsewhere
<1> QED
  BY <1>1, <1>2, <1>3, <1>4 DEF Next, JobStep

(***************************************************************************)
(* The parts of the invariant.                                               *)
(***************************************************************************)
LEMMA OthersTyped ==
    ASSUME TypeOK, [Next]_vars
    PROVE  /\ free' \in FreeLevels /\ mounted' \in BOOLEAN /\ cooling' \in BOOLEAN
           /\ cycles' \in 0..MaxCycles /\ crashes' \in 0..MaxCrashes
           /\ database' \in {"live", "aside", "empty"}
<1> USE DEF Next, vars, envVars, boundVars, StartJob, CompleteJob, TouchReferences, MountOrUnmount,
            FreeSpaceMoves, BeginCycle, CycleStep, PickCandidate, ProcessJob, Copy, Place,
            SaveCopied, Verify, TakeGuard, FreshCandidate, Register, SaveRepointed, SaveCleanup,
            DeleteInternal, SaveArchived, Compaction, FinishRun, CompactGuard, SwapOut, SwapIn,
            ArchiveDies, OpenMissingDatabase, BeginRetention, RetentionStep, LockRetention, Prune,
            RetentionDies, CooldownElapses
<1>1. free' = free \/ free' \in FreeLevels
  OBVIOUS
<1>2. mounted' = mounted \/ mounted' = ~mounted
  OBVIOUS
<1>3. cooling' = cooling \/ cooling' \in BOOLEAN
  OBVIOUS
<1>4. \/ UNCHANGED <<cycles, crashes>>
      \/ cycles < MaxCycles /\ cycles' = cycles + 1 /\ UNCHANGED crashes
      \/ crashes < MaxCrashes /\ crashes' = crashes + 1 /\ UNCHANGED cycles
  OBVIOUS
<1>5. database' = database \/ database' \in {"live", "aside", "empty"}
  OBVIOUS
<1> HIDE DEF Next, vars
<1>6. free' \in FreeLevels /\ database' \in {"live", "aside", "empty"}
  BY <1>1, <1>5 DEF TypeOK
<1>7. mounted' \in BOOLEAN /\ cooling' \in BOOLEAN
  BY <1>2, <1>3, Zenon DEF TypeOK
<1>8. cycles' \in 0..MaxCycles /\ crashes' \in 0..MaxCrashes
  BY <1>4, Bounds DEF TypeOK
<1> QED
  BY <1>6, <1>7, <1>8

LEMMA JobDoes ==
    ASSUME TypeOK, JobStep
    PROVE  /\ UNCHANGED <<segment, catalog, deleted, life, guard, arch, ret>>
           /\ status' \in [Jobs -> {"none", "running", "completed"}]
           /\ rows' \in [Jobs -> RowStates] /\ refs' \in [Jobs -> 0..MaxRefs]
           /\ \A j \in Jobs : status[j] = "completed" => status'[j] = "completed"
           /\ \/ /\ \A j \in Jobs : rows'[j] = rows[j] /\ (status'[j] = "none" <=> status[j] = "none")
                 /\ \A j \in Jobs : status'[j] = "running" => status[j] = "running"
              \/ /\ guard = "free"
                 /\ \E j \in Jobs :
                      /\ status[j] = "none" /\ status' = [status EXCEPT ![j] = "running"]
                      /\ rows' = [rows EXCEPT ![j] = "full"]
<1>1. PICK j \in Jobs : StartJob(j) \/ CompleteJob(j) \/ TouchReferences(j)
  BY DEF JobStep
<1>2. CASE StartJob(j)
  BY <1>2 DEF StartJob, TypeOK, RowStates
<1>3. CASE CompleteJob(j)
  BY <1>3 DEF CompleteJob, dataVars, TypeOK
<1>4. CASE TouchReferences(j)
  <2>1. refs' \in [Jobs -> 0..MaxRefs]
    BY <1>4, Bounds DEF TouchReferences, TypeOK
  <2> QED
    BY <1>4, <2>1 DEF TouchReferences, dataVars, TypeOK
<1> QED
  BY <1>1, <1>2, <1>3, <1>4

LEMMA StepTypeOK ==
    ASSUME IInv, [Next]_vars
    PROVE  TypeOK'
<1> USE DEF IInv
<1>1. CASE JobStep
  BY <1>1, JobDoes, OthersTyped DEF TypeOK
<1>2. CASE ArchiveStep
  <2>1. arch' \in ArchRow /\ life' \in [Jobs -> LifeRow]
    <3>1. CASE Works
      BY <3>1, Typed DEF Works, Lost, GivesUp, Saves, GoesOn, Stops, ArchIs, LifeIs
    <3>2. CASE Places \/ Registers \/ Deletes
      BY <3>2, Typed DEF Places, Registers, Deletes, GoesOn, ArchIs
    <3> QED
      BY <1>2, <3>1, <3>2 DEF ArchiveStep
  <2>2. guard' \in {"free", "archive", "compact", "retention"}
    BY <1>2 DEF TypeOK, ArchiveStep, Works, Places, Registers, Deletes, Lost, GivesUp, Saves, GoesOn
  <2>3. /\ rows' \in [Jobs -> RowStates] /\ deleted' \in [Jobs -> RowStates]
        /\ segment' \in [Jobs -> Contents] /\ catalog' \in [Jobs -> Contents]
    <3>1. arch.job \in Jobs
      BY Typed
    <3>2. CASE Works
      BY <3>2 DEF Works, dataVars, TypeOK
    <3>3. CASE Places
      <4>1. rows[arch.job] \in Contents
        BY <3>3 DEF Places, SegmentThere, Contents
      <4> QED
        BY <3>1, <3>3, <4>1 DEF Places, TypeOK
    <3>4. CASE Registers
      BY <3>1, <3>4 DEF Registers, TypeOK
    <3>5. CASE Deletes
      BY <3>1, <3>5 DEF Deletes, TypeOK, RowStates
    <3> QED
      BY <1>2, <3>2, <3>3, <3>4, <3>5 DEF ArchiveStep
  <2>4. UNCHANGED <<status, refs, ret>>
    BY <1>2 DEF ArchiveStep, Works, Places, Registers, Deletes, Frame, jobVars
  <2> QED
    BY <2>1, <2>2, <2>3, <2>4, OthersTyped DEF TypeOK, LifeRow, ArchRow
<1>3. CASE RetentionWorks
  <2>1. ret' \in RetRow /\ guard' \in {"free", "archive", "compact", "retention"}
    BY <1>3, IdleTyped DEF RetentionWorks, Plans, Locks, Prunes, Gone, TypeOK
  <2>2. rows' \in [Jobs -> RowStates]
    BY <1>3, Typed DEF RetentionWorks, Plans, Locks, Prunes, Gone, TypeOK, RowStates
  <2> QED
    BY <1>3, <2>1, <2>2, OthersTyped DEF RetentionWorks, jobVars, TypeOK, RetRow
<1>4. CASE Elsewhere
  BY <1>4, OthersTyped DEF Elsewhere, jobVars, dataVars, TypeOK
<1> QED
  BY <1>1, <1>2, <1>3, <1>4, NextDoes

LEMMA StepGuardHeld ==
    ASSUME IInv, [Next]_vars
    PROVE  GuardHeld'
<1> USE DEF IInv
<1>1. CASE JobStep
  <2>1. UNCHANGED <<guard, arch, ret>>
    BY <1>1, JobDoes
  <2>2. guard = "compact" => Running' = {}
    BY <1>1, JobDoes DEF GuardHeld, Running
  <2> QED
    BY <2>1, <2>2 DEF GuardHeld
<1>2. CASE ArchiveStep
  <2>1. UNCHANGED <<status, ret>>
    BY <1>2 DEF ArchiveStep, Works, Places, Registers, Deletes, Frame, jobVars
  <2>2. Running' = Running
    BY <2>1 DEF Running
  <2>3. CASE Works
    BY <2>1, <2>2, <2>3 DEF Works, Lost, GivesUp, Saves, GoesOn, Stops, ArchIs, GuardHeld, Guarded,
                            Swapping
  <2>4. CASE Places \/ Registers \/ Deletes
    BY <2>1, <2>2, <2>4 DEF Places, Registers, Deletes, GoesOn, ArchIs, GuardHeld, Guarded, Swapping
  <2> QED
    BY <1>2, <2>3, <2>4 DEF ArchiveStep
<1>3. CASE RetentionWorks
  <2>1. UNCHANGED <<arch, Running>>
    BY <1>3 DEF RetentionWorks, jobVars, Running
  <2> QED
    BY <1>3, <2>1 DEF RetentionWorks, Plans, Locks, Prunes, Gone, IdleRet, GuardHeld, Guarded, Swapping
<1>4. CASE Elsewhere
  BY <1>4 DEF Elsewhere, jobVars, GuardHeld, Running
<1> QED
  BY <1>1, <1>2, <1>3, <1>4, NextDoes

LEMMA StepSegmentThere ==
    ASSUME IInv, [Next]_vars
    PROVE  SegmentThere'
<1> USE DEF IInv
<1>1. CASE JobStep \/ RetentionWorks \/ Elsewhere
  BY <1>1, JobDoes DEF RetentionWorks, Elsewhere, dataVars, SegmentThere
<1>2. CASE Works
  <2>1. arch.job \in Jobs /\ segment' = segment
    BY <1>2, Typed DEF Works, dataVars
  <2>2. \A j \in Jobs : life'[j].state \in {"COPIED", "VERIFIED"} => segment[j] # "none"
    BY <1>2, <2>1 DEF Works, Lost, GivesUp, Saves, GoesOn, Stops, LifeIs, SegmentThere
  <2>3. arch'.pc \in {"copied", "verify", "fresh", "register"} => segment[arch'.job] # "none"
    <3>1. CASE arch.pc = "next"
      <4>1. arch'.pc = "verify" => arch'.job \in Jobs /\ life[arch'.job].state = "COPIED"
        BY <1>2, <3>1 DEF Works, Stops, ArchRow, Lost, Swapping
      <4>2. arch'.pc \in {"copied", "fresh", "register"} => FALSE
        BY <1>2, <3>1 DEF Works, Stops, Lost, Swapping
      <4> QED
        BY <4>1, <4>2 DEF SegmentThere
    <3>2. CASE arch.pc # "next"
      BY <1>2, <2>1, <3>2 DEF Works, Lost, GivesUp, Saves, GoesOn, Stops, ArchIs, SegmentThere
    <3> QED
      BY <3>1, <3>2
  <2>4. arch'.pc = "place" => segment[arch'.job] = "none" /\ arch'.seen \in {"full", "final"}
    BY <1>2 DEF Works, Lost, GivesUp, Saves, GoesOn, Stops, ArchIs, Present
  <2> QED
    BY <2>1, <2>2, <2>3, <2>4 DEF SegmentThere
<1>3. CASE Places
  <2>1. arch.job \in Jobs /\ rows[arch.job] # "none" /\ segment \in [Jobs -> Contents]
    BY <1>3, Typed DEF Places, SegmentThere, TypeOK
  <2> QED
    BY <1>3, <2>1 DEF Places, GoesOn, ArchIs, SegmentThere
<1>4. CASE Registers \/ Deletes
  BY <1>4 DEF Registers, Deletes, GoesOn, ArchIs, SegmentThere
<1> QED
  BY <1>1, <1>2, <1>3, <1>4, NextDoes DEF ArchiveStep

\* The steps that write the rows, the files or the catalog, by their job.
LEMMA DataSteps ==
    ASSUME IInv, [Next]_vars
    PROVE  \/ UNCHANGED <<status, dataVars>>
           \/ JobStep \/ Places \/ Registers \/ Deletes
           \/ /\ ret.pc = "prune" /\ ret.job \in Jobs /\ rows[ret.job] = "full"
              /\ rows' = [rows EXCEPT ![ret.job] = "final"]
              /\ UNCHANGED <<status, segment, catalog, deleted>>
<1> USE DEF IInv
<1>1. CASE RetentionWorks
  <2>1. CASE UNCHANGED rows
    BY <1>1, <2>1 DEF RetentionWorks, jobVars, dataVars
  <2>2. CASE Prunes /\ Fingerprint(ret.job) = ret.hash
    <3>1. ret.hash[1] = rows[ret.job]
      BY <2>2 DEF Fingerprint, Closure
    <3> QED
      BY <1>1, <2>2, <3>1, Typed DEF RetentionWorks, jobVars, Prunes, PrunedIsOld
  <2> QED
    BY <1>1, <2>1, <2>2 DEF RetentionWorks, Plans, Locks, Prunes, Gone
<1>2. CASE Works \/ Elsewhere
  BY <1>2 DEF Works, Elsewhere, Frame, jobVars
<1> QED
  BY <1>1, <1>2, NextDoes DEF ArchiveStep

LEMMA StepRows ==
    ASSUME IInv, [Next]_vars
    PROVE  RowsFollow' /\ NothingLost'
<1> USE DEF IInv
<1>1. CASE UNCHANGED <<status, dataVars>>
  BY <1>1 DEF dataVars, RowsFollow, NothingLost
<1>2. CASE JobStep
  <2>1. UNCHANGED <<segment, catalog, deleted>>
    BY <1>2, JobDoes
  <2>2. CASE \A j \in Jobs : rows'[j] = rows[j] /\ (status'[j] = "none" <=> status[j] = "none")
    BY <2>1, <2>2 DEF RowsFollow, NothingLost
  <2>3. CASE \E j \in Jobs : /\ status[j] = "none" /\ status' = [status EXCEPT ![j] = "running"]
                             /\ rows' = [rows EXCEPT ![j] = "full"]
    BY <2>1, <2>3 DEF TypeOK, RowsFollow, NothingLost
  <2> QED
    BY <1>2, <2>2, <2>3, JobDoes
<1>3. CASE Places
  <2>1. /\ arch.job \in Jobs /\ segment[arch.job] = "none" /\ rows[arch.job] \in {"full", "final"}
        /\ segment' = [segment EXCEPT ![arch.job] = rows[arch.job]]
        /\ UNCHANGED <<status, rows, catalog, deleted>>
    BY <1>3, Typed DEF Places, SegmentThere, Frame, jobVars
  <2>2. catalog[arch.job] = "none"
    BY <2>1 DEF RowsFollow
  <2>3. rows[arch.job] # "gone"
    BY <2>1
  <2> QED
    BY <2>1, <2>2, <2>3 DEF TypeOK, RowsFollow, NothingLost
<1>4. CASE Registers
  <2>1. /\ arch.job \in Jobs /\ catalog' = [catalog EXCEPT ![arch.job] = segment[arch.job]]
        /\ UNCHANGED <<status, rows, segment, deleted>>
    BY <1>4, Typed DEF Registers, Frame, jobVars
  <2> QED
    BY <2>1 DEF TypeOK, RowsFollow, NothingLost
<1>5. CASE Deletes
  <2>1. /\ arch.job \in Jobs /\ rows[arch.job] = catalog[arch.job]
        /\ rows[arch.job] \in {"full", "final"}
        /\ rows' = [rows EXCEPT ![arch.job] = "gone"]
        /\ deleted' = [deleted EXCEPT ![arch.job] = rows[arch.job]]
        /\ UNCHANGED <<status, segment, catalog>>
    BY <1>5, Typed DEF Deletes, Present, Frame, jobVars
  <2> QED
    BY <2>1 DEF TypeOK, RowsFollow, NothingLost
<1>6. CASE /\ ret.job \in Jobs /\ rows[ret.job] = "full"
           /\ rows' = [rows EXCEPT ![ret.job] = "final"]
           /\ UNCHANGED <<status, segment, catalog, deleted>>
  BY <1>6 DEF TypeOK, RowsFollow, NothingLost
<1> QED
  BY <1>1, <1>2, <1>3, <1>4, <1>5, <1>6, DataSteps

LEMMA StepPrunedIsOld ==
    ASSUME IInv, [Next]_vars
    PROVE  PrunedIsOld'
<1> USE DEF IInv
<1>1. \A k \in Jobs : status[k] = "completed" => status'[k] = "completed"
  BY JobDoes, NextDoes DEF ArchiveStep, Works, Places, Registers, Deletes, Frame, RetentionWorks,
     Elsewhere, jobVars
<1>2. \A j : Superseded(j) => Superseded(j)'
  BY <1>1, StaysSuperseded
<1>3. \A j \in Jobs : rows'[j] = "final" \/ segment'[j] = "final" => Superseded(j)
  <2>1. CASE UNCHANGED <<status, dataVars>>
    BY <2>1 DEF dataVars, PrunedIsOld
  <2>2. CASE JobStep
    BY <2>2, JobDoes DEF PrunedIsOld, TypeOK
  <2>3. CASE Places
    BY <2>3, Typed DEF Places, PrunedIsOld, TypeOK
  <2>4. CASE Registers \/ Deletes
    BY <2>4, Typed DEF Registers, Deletes, PrunedIsOld, TypeOK
  <2>5. CASE /\ ret.pc = "prune" /\ rows' = [rows EXCEPT ![ret.job] = "final"]
             /\ UNCHANGED segment
    BY <2>5, Typed DEF PrunedIsOld, TypeOK
  <2> QED
    BY <2>1, <2>2, <2>3, <2>4, <2>5, DataSteps
<1>4. ret'.pc = "prune" => Superseded(ret'.job) /\ ret'.hash[1] = "full"
  <2>1. CASE JobStep \/ ArchiveStep \/ Elsewhere
    <3>1. ret' = ret
      BY <2>1, JobDoes DEF ArchiveStep, Works, Places, Registers, Deletes, Frame, Elsewhere
    <3> QED
      BY <3>1 DEF PrunedIsOld
  <2>2. CASE RetentionWorks
    <3>1. CASE Locks
      <4>1. rows[ret.job] = "full" /\ Superseded(ret.job)
        BY <3>1, EligibleIsSuperseded DEF Locks
      <4>2. ret.hash[1] = rows[ret.job]
        BY <3>1 DEF Locks, Fingerprint, Closure
      <4> QED
        BY <3>1, <4>1, <4>2 DEF Locks
    <3> QED
      BY <2>2, <3>1 DEF RetentionWorks, Plans, Prunes, Gone, IdleRet
  <2> QED
    BY <2>1, <2>2, NextDoes
<1> QED
  BY <1>2, <1>3, <1>4 DEF PrunedIsOld

LEMMA InitIInv == Init => IInv
<1> SUFFICES ASSUME Init
             PROVE  IInv
  OBVIOUS
<1>1. NoHash \in Hashes
  BY Bounds DEF NoHash, Hashes, RowStates
<1>2. life \in [Jobs -> [state : LifeStates, hash : Hashes]]
  BY <1>1, Names DEF Init
<1>3. arch \in ArchRow /\ ret \in RetRow
  BY IdleTyped DEF Init
<1>4. TypeOK
  <2>1. /\ status \in [Jobs -> {"none", "running", "completed"}]
        /\ rows \in [Jobs -> RowStates] /\ deleted \in [Jobs -> RowStates]
        /\ segment \in [Jobs -> Contents] /\ catalog \in [Jobs -> Contents]
    BY DEF Init, RowStates, Contents
  <2>2. refs \in [Jobs -> 0..MaxRefs] /\ cycles \in 0..MaxCycles /\ crashes \in 0..MaxCrashes
    BY Bounds DEF Init
  <2>3. /\ mounted \in BOOLEAN /\ cooling \in BOOLEAN /\ free \in FreeLevels
        /\ guard = "free" /\ database = "live"
    BY DEF Init
  <2> QED
    BY <1>2, <1>3, <2>1, <2>2, <2>3 DEF TypeOK, ArchRow, RetRow
<1>5. NothingLost /\ RowsFollow
  BY DEF Init, NothingLost, RowsFollow
<1>6. GuardHeld /\ SegmentThere
  BY DEF Init, Idle, IdleRet, GuardHeld, Guarded, Swapping, SegmentThere
<1>7. PrunedIsOld
  BY DEF Init, IdleRet, PrunedIsOld
<1> QED
  BY <1>4, <1>5, <1>6, <1>7 DEF IInv

LEMMA Inductive == Spec => []IInv
<1>1. IInv /\ [Next]_vars => IInv'
  <2> SUFFICES ASSUME IInv, [Next]_vars
               PROVE  IInv'
    OBVIOUS
  <2> QED
    BY StepTypeOK, StepRows, StepGuardHeld, StepSegmentThere, StepPrunedIsOld DEF IInv
<1> QED
  BY InitIInv, <1>1, PTL DEF Spec

(***************************************************************************)
(* Every variable keeps its type.                                            *)
(***************************************************************************)
THEOREM StorageTypeCorrect == Spec => []TypeOK
<1>1. IInv => TypeOK
  BY DEF IInv
<1> QED
  BY Inductive, <1>1, PTL

(***************************************************************************)
(* Rows that are gone were deleted after their exact content was registered, *)
(* and the registered file still has it.                                     *)
(***************************************************************************)
THEOREM StorageLosesNothing == Spec => []NothingLost
<1>1. IInv => NothingLost
  BY DEF IInv
<1> QED
  BY Inductive, <1>1, PTL

(***************************************************************************)
(* While the file is being replaced no job runs and nothing is pruned.      *)
(***************************************************************************)
THEOREM StorageCompactsAlone == Spec => []CompactionAlone
<1>1. IInv => CompactionAlone
  BY DEF IInv, GuardHeld, Swapping, CompactionAlone
<1> QED
  BY Inductive, <1>1, PTL

(***************************************************************************)
(* The newest completed job of a scope, and the newest of all, are whole at  *)
(* their authority: a pruned job is superseded, in its rows and its file.    *)
(***************************************************************************)
THEOREM StorageKeepsNewest == Spec => []NewestAreWhole
<1>1. IInv => NewestAreWhole
  <2> SUFFICES ASSUME IInv, NEW j \in Jobs, status[j] = "completed",
                      \/ \A k \in Newer(j) : Scope[k] # Scope[j]
                      \/ Cardinality(Newer(j)) < KeepPressure
               PROVE  Held(j) = "full"
    BY DEF NewestAreWhole, Newer
  <2>1. ~Superseded(j)
    BY NewerIsFinite, Bounds DEF Superseded
  <2>2. rows[j] # "final" /\ segment[j] # "final"
    BY <2>1 DEF IInv, PrunedIsOld
  <2>3. rows[j] # "none" /\ (rows[j] = "gone" => catalog[j] # "none")
    BY DEF IInv, RowsFollow, NothingLost
  <2>4. catalog[j] # "none" => segment[j] = catalog[j]
    BY DEF IInv, RowsFollow
  <2>5. rows[j] \in RowStates /\ segment[j] \in Contents
    BY DEF IInv, TypeOK
  <2> QED
    BY <2>2, <2>3, <2>4, <2>5 DEF Held, RowStates, Contents
<1> QED
  BY Inductive, <1>1, PTL

\* A step leaves the authority of a job no less than it had, or prunes it.
LEMMA HeldStep ==
    ASSUME IInv, [Next]_vars, NEW j \in Jobs
    PROVE  \/ Completeness(Held(j)') >= Completeness(Held(j))
           \/ ret.pc = "prune" /\ ret.job = j /\ catalog[j] = "none"
<1>1. TypeOK /\ RowsFollow /\ SegmentThere
  BY DEF IInv
<1>2. /\ rows[j] \in RowStates /\ segment[j] \in Contents /\ catalog[j] \in Contents
      /\ arch.job \in Jobs /\ ret.job \in Jobs
  BY <1>1, Typed DEF TypeOK
<1>3. /\ (status[j] = "none") = (rows[j] = "none")
      /\ segment[j] # "none" => rows[j] # "none"
      /\ catalog[j] # "none" => segment[j] = catalog[j]
      /\ segment[j] = "final" => rows[j] # "full"
  BY <1>1 DEF RowsFollow
<1>4. \A v \in RowStates : Completeness(v) \in 0..2
  BY DEF Completeness
<1>5. /\ Completeness("full") = 2 /\ Completeness("none") = 0
      /\ Completeness("final") = 1 /\ Completeness("gone") = 0
  BY DEF Completeness
<1>6. Held(j) \in RowStates
  BY <1>2 DEF Held, RowStates, Contents
<1>7. CASE Held(j)' = Held(j)
  BY <1>4, <1>6, <1>7
<1>8. CASE UNCHANGED <<status, dataVars>>
  BY <1>7, <1>8 DEF dataVars, Held
<1>9. CASE JobStep
  <2>1. UNCHANGED <<segment, catalog>>
    BY <1>1, <1>9, JobDoes
  <2>2. CASE rows'[j] = rows[j]
    BY <1>7, <2>1, <2>2 DEF Held
  <2>3. CASE rows'[j] # rows[j]
    <3>1. status[j] = "none" /\ rows'[j] = "full"
      BY <1>1, <1>2, <1>9, <2>3, JobDoes DEF TypeOK
    <3>2. rows[j] = "none" /\ segment[j] = "none" /\ catalog[j] = "none"
      BY <1>2, <1>3, <3>1
    <3>3. Held(j) = "none" /\ Held(j)' = "full"
      BY <2>1, <3>1, <3>2 DEF Held
    <3> QED
      BY <1>5, <3>3
  <2> QED
    BY <2>2, <2>3
<1>10. CASE Places
  <2>1. segment'[j] = segment[j] \/ catalog[j] = "none"
    BY <1>1, <1>2, <1>3, <1>10 DEF Places, SegmentThere, TypeOK
  <2>2. UNCHANGED <<rows, catalog>>
    BY <1>10 DEF Places
  <2> QED
    BY <1>7, <2>1, <2>2 DEF Held
<1>11. CASE Registers
  <2>1. UNCHANGED <<rows, segment>> /\ catalog'[j] \in {catalog[j], segment[j]}
    BY <1>1, <1>2, <1>11 DEF Registers, TypeOK
  <2>2. CASE catalog[j] # "none"
    BY <1>3, <1>7, <2>1, <2>2 DEF Held
  <2>3. CASE catalog[j] = "none" /\ catalog'[j] = "none"
    BY <1>7, <2>1, <2>3 DEF Held
  <2>4. CASE catalog[j] = "none" /\ catalog'[j] # "none"
    <3>1. Held(j) = rows[j] /\ Held(j)' = segment[j] /\ segment[j] \in {"full", "final"}
      BY <1>2, <2>1, <2>4 DEF Held, Contents
    <3>2. segment[j] = "final" => rows[j] \in {"final", "none", "gone"}
      BY <1>2, <1>3 DEF RowStates
    <3> QED
      BY <1>2, <1>4, <1>5, <3>1, <3>2
  <2> QED
    BY <2>2, <2>3, <2>4
<1>12. CASE Deletes
  <2>1. UNCHANGED <<segment, catalog>> /\ (rows'[j] = rows[j] \/ catalog[j] # "none")
    BY <1>1, <1>2, <1>12 DEF Deletes, Present, TypeOK
  <2> QED
    BY <1>7, <2>1 DEF Held
<1>13. CASE /\ ret.pc = "prune" /\ rows' = [rows EXCEPT ![ret.job] = "final"]
            /\ UNCHANGED <<segment, catalog>>
  <2>1. CASE j = ret.job /\ catalog[j] = "none"
    BY <1>13, <2>1
  <2>2. CASE j # ret.job \/ catalog[j] # "none"
    BY <1>1, <1>2, <1>7, <1>13, <2>2 DEF Held, TypeOK
  <2> QED
    BY <2>1, <2>2
<1> QED
  BY <1>1, <1>8, <1>9, <1>10, <1>11, <1>12, <1>13, DataSteps

\* What takes the live name, the volume or the registration away.
LEMMA AwaySteps ==
    ASSUME TypeOK, [Next]_vars
    PROVE  /\ \/ database' = "live" \/ database # "live"
              \/ arch.pc = "swapOut" /\ database' = "aside"
           /\ \/ mounted' = mounted
              \/ UNCHANGED catalog
           /\ UNCHANGED catalog \/ mounted
<1> USE DEF dataVars, envVars, AtPc
<1>1. CASE \E j \in Jobs : StartJob(j) \/ CompleteJob(j) \/ TouchReferences(j)
  BY <1>1 DEF StartJob, CompleteJob, TouchReferences
<1>2. CASE MountOrUnmount \/ FreeSpaceMoves \/ OpenMissingDatabase
  BY <1>2 DEF MountOrUnmount, FreeSpaceMoves, OpenMissingDatabase
<1>3. CASE Register
  BY <1>3 DEF Register
<1>4. CASE BeginCycle \/ PickCandidate \/ ArchiveDies
  BY <1>4 DEF BeginCycle, PickCandidate, ArchiveDies
<1>5. CASE ProcessJob /\ ~Register
  BY <1>5 DEF ProcessJob, Copy, Place, SaveCopied, Verify, TakeGuard, FreshCandidate,
     SaveRepointed, SaveCleanup, DeleteInternal, SaveArchived
<1>6. CASE Compaction
  BY <1>6 DEF Compaction, FinishRun, CompactGuard, SwapOut, SwapIn
<1>7. CASE BeginRetention \/ RetentionStep \/ RetentionDies \/ CooldownElapses
  BY <1>7 DEF BeginRetention, RetentionStep, LockRetention, Prune, RetentionDies, CooldownElapses
<1>8. CASE UNCHANGED vars
  BY <1>8 DEF vars
<1> QED
  BY <1>1, <1>2, <1>3, <1>4, <1>5, <1>6, <1>7, <1>8 DEF Next, CycleStep

\* A step shows a reader of a job no less than the step before, but for the three
\* exceptions.
LEMMA ReaderStep ==
    ASSUME IInv, [Next]_vars, NEW j \in Jobs
    PROVE  \/ Completeness(View(j)') >= Completeness(View(j))
           \/ ret.pc = "prune" /\ ret.job = j /\ catalog[j] = "none"
           \/ mounted /\ ~mounted' /\ catalog[j] # "none"
           \/ arch.pc = "swapOut" /\ database' = "aside"
<1>1. TypeOK
  BY DEF IInv
<1>2. \A v : Completeness(v) \in 0..2
  BY DEF Completeness
<1>3. Completeness("none") = 0
  BY DEF Completeness
<1>4. CASE View(j) = "none"
  BY <1>2, <1>3, <1>4
<1>5. CASE View(j)' = Held(j)' /\ View(j) = Held(j)
  BY <1>5, HeldStep
<1>6. CASE View(j) # "none" /\ database' # "live"
  BY <1>1, <1>6, AwaySteps DEF View
<1>7. CASE View(j) # "none" /\ database' = "live"
  <2>1. View(j) = Held(j) /\ (catalog[j] = "none" \/ mounted)
    BY <1>7 DEF View
  <2>2. CASE catalog'[j] = "none" \/ mounted'
    BY <1>5, <1>7, <2>1, <2>2 DEF View
  <2>3. CASE catalog'[j] # "none" /\ ~mounted'
    <3>1. catalog[j] # "none"
      BY <1>1, <2>3, AwaySteps
    <3> QED
      BY <2>1, <2>3, <3>1
  <2> QED
    BY <2>2, <2>3
<1> QED
  BY <1>4, <1>6, <1>7

(***************************************************************************)
(* Only retention, of an unregistered job, the loss of the volume and the    *)
(* compaction's swap make a reader poorer.                                   *)
(***************************************************************************)
THEOREM StorageReaderNeverLoses == Spec => ReaderNeverLoses
<1>1. ASSUME IInv, [Next]_vars
      PROVE  \A j \in Jobs :
               \/ Completeness(View(j)') >= Completeness(View(j))
               \/ ret.pc = "prune" /\ ret.job = j /\ catalog[j] = "none"
               \/ mounted /\ ~mounted' /\ catalog[j] # "none"
               \/ arch.pc = "swapOut" /\ database' = "aside"
  <2> TAKE j \in Jobs
  <2> QED
    BY <1>1, ReaderStep
<1>2. IInv /\ [Next]_vars =>
        [\A j \in Jobs :
           \/ Completeness(View(j)') >= Completeness(View(j))
           \/ ret.pc = "prune" /\ ret.job = j /\ catalog[j] = "none"
           \/ mounted /\ ~mounted' /\ catalog[j] # "none"
           \/ arch.pc = "swapOut" /\ database' = "aside"]_vars
  BY <1>1
<1> QED
  BY Inductive, <1>2, PTL DEF Spec, ReaderNeverLoses

================================================================================
