------------------------------ MODULE StorageTier ------------------------------
(***************************************************************************)
(* The storage of finished Discovery jobs.  Three actors work on the same  *)
(* SQLite file and on the lock discovery-maintenance.lock:                 *)
(*   - the archive cycle (discovery_archive_lifecycle.py) copies a job to  *)
(*     the X9 volume, registers the copy as authority, deletes the internal*)
(*     rows, and compacts the file by two renames;                         *)
(*   - retention (storage_retention.py, storage_gc.py) prunes an old job   *)
(*     to its final summary when free space falls;                         *)
(*   - Discovery creates and completes jobs and moves their references.    *)
(*                                                                         *)
(* A job's rows are "full" (all of them) or "final" (pruned), the number   *)
(* refs stands for its external reference state (cache, outbox, rotation): *)
(* zero until its notification and its cache are settled.  A job's number  *)
(* is its place in the order of creation.                                  *)
(***************************************************************************)
EXTENDS Integers, FiniteSets, FiniteSetsExt

CONSTANTS
    Jobs,            \* the jobs, 1..n in the order of their creation
    Scope,           \* [Jobs -> rotation scopes]
    Big,             \* jobs whose pruning exceeds the automatic byte limit
    Total,           \* size of the filesystem, in GiB
    FreeLevels,      \* bound: the values free space takes, in GiB
    KeepPreventive, KeepPressure,  \* full jobs kept by each policy
    MaxRefs,         \* bound on reference changes of one job
    MaxCycles,       \* bound on archive cycles
    MaxCrashes       \* bound on deaths of the archive and retention processes

ASSUME StorageAssumption ==
    /\ IsFiniteSet(Jobs) /\ Jobs # {} /\ Jobs = 1..Cardinality(Jobs)
    /\ Big \subseteq Jobs
    /\ Total \in Nat \ {0}
    /\ FreeLevels \subseteq 0..Total
    /\ {KeepPreventive, KeepPressure} \subseteq Nat \ {0} /\ KeepPreventive >= KeepPressure
    /\ MaxRefs \in Nat /\ MaxCycles \in Nat /\ MaxCrashes \in Nat

VARIABLES
    status,      \* [Jobs -> "none" | "running" | "completed"]
    rows,        \* [Jobs -> "none" | "full" | "final" | "gone"], the internal rows
    refs,        \* [Jobs -> 0..MaxRefs]
    segment,     \* [Jobs -> "none" | "full" | "final"], the file on X9
    catalog,     \* [Jobs -> "none" | "full" | "final"], the registered content
    life,        \* [Jobs -> [state, hash]], discovery-archive-lifecycle.json
    mounted,     \* the X9 volume is mounted and verified
    free,        \* free space of the internal volume, in GiB
    guard,       \* holder of the exclusive maintenance lock
    database,    \* "live", "aside" between the two renames, "empty" if recreated
    arch,        \* the archive cycle's process
    ret,         \* the retention process
    cooling,     \* the retention cooldown has not elapsed
    cycles, crashes,
    deleted      \* history: what the cleanup deleted of each job

jobVars == <<status, refs>>
dataVars == <<rows, segment, catalog, deleted>>
envVars == <<mounted, free>>
boundVars == <<cycles, crashes>>
vars == <<jobVars, dataVars, life, envVars, guard, database, arch, ret, cooling, boundVars>>

Present(j) == rows[j] \in {"full", "final"}

\* What the cache, the outbox and the rotation say of a job.
References(j) == refs[j]
\* The rows of a job with what the pruned job would keep of them.
Closure(j) == rows[j]
\* What the archive planner and the retention plan remember of a job.
Hash(j) == <<rows[j], References(j)>>
Fingerprint(j) == <<Closure(j), References(j)>>
NoHash == <<"none", 0>>
Idle == [pc |-> "idle", job |-> 1, hash |-> NoHash, seen |-> "none", todo |-> {}]
IdleRet == [pc |-> "idle", job |-> 1, hash |-> NoHash, wm |-> "NORMAL"]

-----------------------------------------------------------------------------
(* Free space and the retention policy.                                    *)

Watermarks == <<"NORMAL", "PREVENTIVE", "PRESSURE", "CRITICAL", "EMERGENCY">>
GiBFloor == <<50, 40, 25, 15>>
PercentFloor == <<20, 16, 10, 6>>

\* The worse of the absolute band and of the percentage band.
Watermark(f) ==
    LET absolute == {i \in 1..4 : f >= GiBFloor[i]}
        percent  == {i \in 1..4 : f * 100 >= PercentFloor[i] * Total}
        band(met) == IF met = {} THEN 5 ELSE Min(met)
    IN  Watermarks[Max({band(absolute), band(percent)})]

\* A heavy workload is admitted when its headroom leaves the floor of its
\* estimate (discovery_full: 4.5 GiB, 40 GiB, at most PREVENTIVE).
Admitted(f) ==
    /\ Watermark(f) \notin {"CRITICAL", "EMERGENCY"}
    /\ f - 5 >= 40
    /\ Watermark(f - 5) \in {"NORMAL", "PREVENTIVE"}

\* The inventory reads retention_mode from the internal row: an archived job
\* has none left and counts as full.
FullCompleted == {j \in Jobs : status[j] = "completed" /\ rows[j] \in {"full", "gone"}}

Keep(w) == IF w = "PREVENTIVE" THEN KeepPreventive ELSE KeepPressure

RetentionGate(j) == status[j] = "completed" /\ rows[j] = "full" /\ refs[j] > 0

\* Variant: the representative of the scope is not looked for.
EligibleWithoutScope(w) ==
    {j \in Jobs : /\ w # "NORMAL" /\ RetentionGate(j)
                  /\ Cardinality({k \in FullCompleted : k > j}) >= Keep(w)}

FinalOnlyEligible(w) ==
    LET Newer(j) == {k \in FullCompleted : k > j}
    IN  {j \in Jobs : /\ w # "NORMAL"
                      /\ RetentionGate(j)
                      /\ \E k \in Newer(j) : Scope[k] = Scope[j]
                      /\ Cardinality(Newer(j)) >= Keep(w)}

-----------------------------------------------------------------------------
(* The archive planner.                                                    *)

InternalJobs == {j \in Jobs : Present(j) /\ catalog[j] = "none"}

Candidates ==
    {j \in InternalJobs : status[j] = "completed" /\ j # Max(InternalJobs)}

Resumable == {"COPYING", "COPIED", "VERIFIED", "REPOINTED", "INTERNAL_CLEANUP", "RETRYABLE"}

\* Jobs a run continues although the planner no longer selects them.
Resumed ==
    {j \in Jobs \ Candidates : life[j].state \in Resumable /\ (Present(j) \/ catalog[j] # "none")}

-----------------------------------------------------------------------------
Init ==
    /\ status = [j \in Jobs |-> "none"]
    /\ rows = [j \in Jobs |-> "none"]
    /\ refs = [j \in Jobs |-> 0]
    /\ segment = [j \in Jobs |-> "none"]
    /\ catalog = [j \in Jobs |-> "none"]
    /\ life = [j \in Jobs |-> [state |-> "INTERNAL", hash |-> NoHash]]
    /\ mounted = TRUE
    /\ free \in FreeLevels
    /\ guard = "free"
    /\ database = "live"
    /\ arch = Idle
    /\ ret = IdleRet
    /\ cooling = FALSE
    /\ cycles = 0 /\ crashes = 0
    /\ deleted = [j \in Jobs |-> "none"]

-----------------------------------------------------------------------------
(* Discovery.                                                              *)

Running == {j \in Jobs : status[j] = "running"}

\* A worker is admitted by the storage estimate and claims its job under the
\* shared side of the maintenance lock.
StartJob(j) ==
    /\ database = "live"
    /\ guard = "free"
    /\ Running = {}
    /\ status[j] = "none" /\ \A k \in 1..(j - 1) : status[k] # "none"
    /\ Admitted(free)
    /\ status' = [status EXCEPT ![j] = "running"]
    /\ rows' = [rows EXCEPT ![j] = "full"]
    /\ UNCHANGED <<refs, segment, catalog, deleted, life, envVars, guard, database, arch,
                   ret, cooling, boundVars>>

CompleteJob(j) ==
    /\ database = "live"
    /\ status[j] = "running"
    /\ status' = [status EXCEPT ![j] = "completed"]
    /\ UNCHANGED <<refs, dataVars, life, envVars, guard, database, arch, ret, cooling, boundVars>>

\* The cache, the outbox or the rotation refers to a completed job differently.
TouchReferences(j) ==
    /\ status[j] = "completed"
    /\ refs[j] < MaxRefs
    /\ refs' = [refs EXCEPT ![j] = @ + 1]
    /\ UNCHANGED <<status, dataVars, life, envVars, guard, database, arch, ret, cooling, boundVars>>

MountOrUnmount ==
    /\ mounted' = ~mounted
    /\ UNCHANGED <<jobVars, dataVars, life, free, guard, database, arch, ret, cooling, boundVars>>

FreeSpaceMoves ==
    /\ free' \in FreeLevels \ {free}
    /\ UNCHANGED <<jobVars, dataVars, life, mounted, guard, database, arch, ret, cooling, boundVars>>

-----------------------------------------------------------------------------
(* The archive cycle, one at a time under its own cycle lock.              *)

Save(j, state) == [life EXCEPT ![j] = [state |-> state, hash |-> arch.hash]]

AtPc(pc) == arch.pc = pc /\ database = "live"

\* The candidate is abandoned until a later cycle; the lock is released.
GiveUp(state) ==
    /\ life' = Save(arch.job, state)
    /\ arch' = [arch EXCEPT !.pc = "next"]
    /\ guard' = IF guard = "archive" THEN "free" ELSE guard

Goto(pc) == arch' = [arch EXCEPT !.pc = pc]

BeginCycle ==
    /\ AtPc("idle")
    /\ cycles < MaxCycles
    /\ arch' = [arch EXCEPT !.pc = "next",
                    !.todo = {<<j, Hash(j)>> : j \in Candidates}
                                \cup {<<j, life[j].hash>> : j \in Resumed}]
    /\ cycles' = cycles + 1
    /\ UNCHANGED <<jobVars, dataVars, life, envVars, guard, database, ret, cooling, crashes>>

\* The head of process_job: the persisted state says where to continue, and
\* RETRYABLE or BLOCKED begin again at the copy.
PickCandidate ==
    /\ AtPc("next")
    /\ \E c \in arch.todo :
         LET j == c[1]
             state == life[j].state
             at == CASE state = "COPIED" -> "verify"
                     [] state \in {"VERIFIED", "REPOINTED", "INTERNAL_CLEANUP"} -> "guard"
                     [] OTHER -> "copy"
         IN  /\ arch' = [arch EXCEPT !.pc = IF mounted THEN at ELSE "next",
                                     !.job = j, !.hash = c[2], !.todo = @ \ {c}]
             /\ life' = IF ~mounted THEN [life EXCEPT ![j] = [state |-> "RETRYABLE", hash |-> c[2]]]
                        ELSE IF at = "copy" THEN [life EXCEPT ![j] = [state |-> "COPYING", hash |-> c[2]]]
                        ELSE life
    /\ UNCHANGED <<jobVars, dataVars, envVars, guard, database, ret, cooling, boundVars>>

\* A segment that a former cycle left is taken as it is; otherwise the source
\* is read, without the maintenance lock.
Copy ==
    /\ AtPc("copy")
    /\ LET j == arch.job IN
       \/ /\ segment[j] # "none" /\ mounted
          /\ Goto("copied")
          /\ UNCHANGED <<life, guard>>
       \/ /\ segment[j] = "none" /\ mounted
          /\ IF status[j] = "completed" /\ Present(j)
             THEN /\ arch' = [arch EXCEPT !.pc = "place", !.seen = rows[j]]
                  /\ UNCHANGED <<life, guard>>
             ELSE GiveUp("BLOCKED")
       \/ ~mounted /\ GiveUp("RETRYABLE")
    /\ UNCHANGED <<jobVars, dataVars, envVars, database, ret, cooling, boundVars>>

\* The copy equals what was read first, or the counts or the checksum differ.
Place ==
    /\ AtPc("place")
    /\ LET j == arch.job IN
       \/ /\ mounted /\ rows[j] = arch.seen
          /\ segment' = [segment EXCEPT ![j] = rows[j]]
          /\ Goto("copied")
          /\ UNCHANGED <<life, guard>>
       \/ mounted /\ rows[j] # arch.seen /\ GiveUp("BLOCKED") /\ UNCHANGED segment
       \/ ~mounted /\ GiveUp("RETRYABLE") /\ UNCHANGED segment
    /\ UNCHANGED <<jobVars, rows, catalog, deleted, envVars, database, ret, cooling, boundVars>>

SaveCopied ==
    /\ AtPc("copied")
    /\ life' = Save(arch.job, "COPIED")
    /\ Goto("verify")
    /\ UNCHANGED <<jobVars, dataVars, envVars, guard, database, ret, cooling, boundVars>>

Verify ==
    /\ AtPc("verify")
    /\ \/ mounted /\ life' = Save(arch.job, "VERIFIED") /\ Goto("guard") /\ UNCHANGED guard
       \/ ~mounted /\ GiveUp("RETRYABLE")
    /\ UNCHANGED <<jobVars, dataVars, envVars, database, ret, cooling, boundVars>>

TakeGuard ==
    /\ AtPc("guard")
    /\ IF guard = "free"
       THEN /\ guard' = "archive"
            /\ Goto(IF life[arch.job].state = "VERIFIED" THEN "fresh" ELSE "cleanup")
            /\ UNCHANGED life
       ELSE GiveUp("RETRYABLE")
    /\ UNCHANGED <<jobVars, dataVars, envVars, database, ret, cooling, boundVars>>

\* _fresh_candidate: the planner runs again and the reference hash must agree.
FreshCandidate ==
    /\ AtPc("fresh")
    /\ IF arch.job \in Candidates /\ Hash(arch.job) = arch.hash
       THEN Goto("register") /\ UNCHANGED <<life, guard>>
       ELSE GiveUp("BLOCKED")
    /\ UNCHANGED <<jobVars, dataVars, envVars, database, ret, cooling, boundVars>>

\* register_archive_segment; the planner has just seen no other registration.
Register ==
    /\ AtPc("register")
    /\ \/ /\ mounted
          /\ catalog' = [catalog EXCEPT ![arch.job] = segment[arch.job]]
          /\ Goto("repointed")
          /\ UNCHANGED <<life, guard>>
       \/ ~mounted /\ GiveUp("RETRYABLE") /\ UNCHANGED catalog
    /\ UNCHANGED <<jobVars, rows, segment, deleted, envVars, database, ret, cooling, boundVars>>

SaveRepointed ==
    /\ AtPc("repointed")
    /\ life' = Save(arch.job, "REPOINTED")
    /\ Goto("cleanup")
    /\ UNCHANGED <<jobVars, dataVars, envVars, guard, database, ret, cooling, boundVars>>

SaveCleanup ==
    /\ AtPc("cleanup")
    /\ life' = Save(arch.job, "INTERNAL_CLEANUP")
    /\ Goto("delete")
    /\ UNCHANGED <<jobVars, dataVars, envVars, guard, database, ret, cooling, boundVars>>

\* Variant: the deletion does not compare the rows with the registered content.
DeleteUncompared ==
    /\ AtPc("delete")
    /\ rows' = [rows EXCEPT ![arch.job] = "gone"]
    /\ deleted' = [deleted EXCEPT ![arch.job] = IF Present(arch.job) THEN rows[arch.job] ELSE @]
    /\ Goto("archived") /\ guard' = "free"
    /\ UNCHANGED <<life, jobVars, segment, catalog, envVars, database, ret, cooling, boundVars>>

\* delete_internal_job_rows compares the rows with the registered counts and
\* checksum in the deleting transaction; rows already gone are accepted.
DeleteInternal ==
    /\ AtPc("delete")
    /\ LET j == arch.job IN
       \/ /\ mounted /\ Present(j) /\ rows[j] = catalog[j]
          /\ rows' = [rows EXCEPT ![j] = "gone"]
          /\ deleted' = [deleted EXCEPT ![j] = rows[j]]
          /\ Goto("archived") /\ guard' = "free" /\ UNCHANGED life
       \/ /\ ~Present(j)
          /\ Goto("archived") /\ guard' = "free" /\ UNCHANGED <<rows, deleted, life>>
       \/ /\ mounted /\ Present(j) /\ rows[j] # catalog[j]
          /\ GiveUp("BLOCKED") /\ UNCHANGED <<rows, deleted>>
       \/ /\ ~mounted /\ Present(j)
          /\ GiveUp("RETRYABLE") /\ UNCHANGED <<rows, deleted>>
    /\ UNCHANGED <<jobVars, segment, catalog, envVars, database, ret, cooling, boundVars>>

SaveArchived ==
    /\ AtPc("archived")
    /\ life' = Save(arch.job, "ARCHIVED")
    /\ Goto("next")
    /\ UNCHANGED <<jobVars, dataVars, envVars, guard, database, ret, cooling, boundVars>>

-----------------------------------------------------------------------------
(* Compaction, at the end of a cycle, when enough pages are reclaimable.   *)

FinishRun ==
    /\ AtPc("next") /\ arch.todo = {}
    /\ \E due \in BOOLEAN :
         arch' = IF due /\ Running = {} /\ mounted THEN [Idle EXCEPT !.pc = "compact"] ELSE Idle
    /\ UNCHANGED <<jobVars, dataVars, life, envVars, guard, database, ret, cooling, boundVars>>

\* Variant: the active jobs are looked up only before the lock is taken.
CompactUnchecked ==
    /\ AtPc("compact")
    /\ IF guard = "free" THEN guard' = "compact" /\ Goto("swapOut")
       ELSE arch' = Idle /\ UNCHANGED guard
    /\ UNCHANGED <<jobVars, dataVars, life, envVars, database, ret, cooling, boundVars>>

\* The exclusive guard is held while the active jobs are looked up again.
CompactGuard ==
    /\ AtPc("compact")
    /\ IF guard = "free" /\ Running = {}
       THEN guard' = "compact" /\ Goto("swapOut")
       ELSE arch' = Idle /\ UNCHANGED guard
    /\ UNCHANGED <<jobVars, dataVars, life, envVars, database, ret, cooling, boundVars>>

\* The rebuilt file is verified, then the live file is renamed; a failure
\* before that leaves everything as it was.
SwapOut ==
    /\ AtPc("swapOut")
    /\ \/ database' = "aside" /\ Goto("swapIn") /\ UNCHANGED guard
       \/ arch' = Idle /\ guard' = "free" /\ UNCHANGED database
    /\ UNCHANGED <<jobVars, dataVars, life, envVars, ret, cooling, boundVars>>

\* The rebuilt file, or on an exception the original, gets the live name.
SwapIn ==
    /\ arch.pc = "swapIn"
    /\ database' = "live"
    /\ arch' = Idle
    /\ guard' = "free"
    /\ UNCHANGED <<jobVars, dataVars, life, envVars, ret, cooling, boundVars>>

\* The process dies; the kernel frees its locks.
ArchiveDies ==
    /\ arch.pc # "idle"
    /\ crashes < MaxCrashes
    /\ crashes' = crashes + 1
    /\ arch' = Idle
    /\ guard' = IF guard \in {"archive", "compact"} THEN "free" ELSE guard
    /\ UNCHANGED <<jobVars, dataVars, life, envVars, database, ret, cooling, cycles>>

\* A store opened while the live name is missing creates an empty file there.
OpenMissingDatabase ==
    /\ database = "aside" /\ arch.pc = "idle"
    /\ database' = "empty"
    /\ UNCHANGED <<jobVars, dataVars, life, envVars, guard, arch, ret, cooling, boundVars>>

-----------------------------------------------------------------------------
(* Retention, one cycle at a time under its automation lock.               *)

\* The reservation that starts the cooldown is written before the cycle; then
\* free space is measured and the plan of one job is built: the newest
\* candidate, and one too large for the byte limit stops the cycle.
BeginRetention ==
    /\ database = "live" /\ ret.pc = "idle" /\ ~cooling
    /\ \E j \in Jobs : status[j] = "completed"
    /\ cooling' = TRUE
    /\ LET w == Watermark(free)
           eligible == FinalOnlyEligible(w)
       IN  ret' = IF w \in {"PREVENTIVE", "PRESSURE"} /\ eligible # {} /\ Max(eligible) \notin Big
                  THEN [pc |-> "lock", job |-> Max(eligible), hash |-> Fingerprint(Max(eligible)), wm |-> w]
                  ELSE IdleRet
    /\ UNCHANGED <<jobVars, dataVars, life, envVars, guard, database, arch, boundVars>>

\* apply_plan under the exclusive lock: no active job, the same watermark, the
\* planner still selects the job and its fingerprint is the plan's.
LockRetention ==
    /\ database = "live" /\ ret.pc = "lock"
    /\ IF /\ guard = "free"
          /\ Running = {}
          /\ Watermark(free) = ret.wm
          /\ ret.job \in FinalOnlyEligible(ret.wm)
          /\ Fingerprint(ret.job) = ret.hash
       THEN guard' = "retention" /\ ret' = [ret EXCEPT !.pc = "prune"]
       ELSE ret' = IdleRet /\ UNCHANGED guard
    /\ UNCHANGED <<jobVars, dataVars, life, envVars, database, arch, cooling, boundVars>>

\* Variant: archived jobs are eligible for pruning in the archive, too.
PruneArchived ==
    /\ database = "live" /\ ret.pc = "prune"
    /\ rows' = [rows EXCEPT ![ret.job] = "final"]
    /\ segment' = [segment EXCEPT ![ret.job] = IF @ = "none" THEN @ ELSE "final"]
    /\ ret' = IdleRet
    /\ guard' = "free"
    /\ UNCHANGED <<jobVars, catalog, deleted, life, envVars, database, arch, cooling, boundVars>>

\* The deleting transaction compares closure and references once more.
Prune ==
    /\ database = "live" /\ ret.pc = "prune"
    /\ rows' = IF Fingerprint(ret.job) = ret.hash THEN [rows EXCEPT ![ret.job] = "final"] ELSE rows
    /\ ret' = IdleRet
    /\ guard' = "free"
    /\ UNCHANGED <<jobVars, segment, catalog, deleted, life, envVars, database, arch, cooling,
                   boundVars>>

RetentionDies ==
    /\ ret.pc # "idle"
    /\ crashes < MaxCrashes
    /\ crashes' = crashes + 1
    /\ ret' = IdleRet
    /\ guard' = IF guard = "retention" THEN "free" ELSE guard
    /\ UNCHANGED <<jobVars, dataVars, life, envVars, database, arch, cooling, cycles>>

CooldownElapses ==
    /\ cooling /\ ret.pc = "idle"
    /\ cooling' = FALSE
    /\ UNCHANGED <<jobVars, dataVars, life, envVars, guard, database, arch, ret, boundVars>>

-----------------------------------------------------------------------------
ProcessJob ==
    \/ Copy \/ Place \/ SaveCopied \/ Verify \/ TakeGuard \/ FreshCandidate
    \/ Register \/ SaveRepointed \/ SaveCleanup \/ DeleteInternal \/ SaveArchived
Compaction == FinishRun \/ CompactGuard \/ SwapOut \/ SwapIn
CycleStep == PickCandidate \/ ProcessJob \/ Compaction
RetentionStep == LockRetention \/ Prune

Next ==
    \/ \E j \in Jobs : StartJob(j) \/ CompleteJob(j) \/ TouchReferences(j)
    \/ MountOrUnmount \/ FreeSpaceMoves
    \/ BeginCycle \/ CycleStep \/ ArchiveDies \/ OpenMissingDatabase
    \/ BeginRetention \/ RetentionStep \/ RetentionDies \/ CooldownElapses

Spec == Init /\ [][Next]_vars

-----------------------------------------------------------------------------
LifeStates == Resumable \cup {"INTERNAL", "ARCHIVED", "BLOCKED"}
RowStates == {"none", "full", "final", "gone"}
Contents == {"none", "full", "final"}
Hashes == RowStates \X (0..MaxRefs)
ArchPcs == {"idle", "next", "copy", "place", "copied", "verify", "guard", "fresh", "register",
            "repointed", "cleanup", "delete", "archived", "compact", "swapOut", "swapIn"}

TypeOK ==
    /\ status \in [Jobs -> {"none", "running", "completed"}]
    /\ rows \in [Jobs -> RowStates] /\ deleted \in [Jobs -> RowStates]
    /\ refs \in [Jobs -> 0..MaxRefs]
    /\ segment \in [Jobs -> Contents] /\ catalog \in [Jobs -> Contents]
    /\ life \in [Jobs -> [state : LifeStates, hash : Hashes]]
    /\ mounted \in BOOLEAN /\ cooling \in BOOLEAN /\ free \in FreeLevels
    /\ guard \in {"free", "archive", "compact", "retention"}
    /\ database \in {"live", "aside", "empty"}
    /\ arch \in [pc : ArchPcs, job : Jobs, hash : Hashes, seen : RowStates,
                 todo : SUBSET (Jobs \X Hashes)]
    /\ ret \in [pc : {"idle", "lock", "prune"}, job : Jobs, hash : Hashes,
                wm : {"NORMAL", "PREVENTIVE", "PRESSURE"}]
    /\ cycles \in 0..MaxCycles /\ crashes \in 0..MaxCrashes

\* No content is lost: rows that are gone were deleted only after their exact
\* content was registered on the archive volume (process_job,
\* delete_internal_job_rows), whatever retention, other references, crashes
\* and an unmounted volume did between the copy and the deletion.
NothingLost ==
    \A j \in Jobs : rows[j] = "gone" =>
        catalog[j] # "none" /\ catalog[j] = deleted[j] /\ segment[j] = catalog[j]

\* The one authority of a job: the archive when it is registered, the internal
\* rows otherwise.
Held(j) == IF catalog[j] # "none" THEN segment[j] ELSE rows[j]

\* What a reader of a job gets (_read_connect): the registration, too, is read from
\* the live file, so nothing of any job while that name is missing or stands for an
\* empty file, and nothing of an archived job without its volume.
View(j) == IF database = "live" /\ (catalog[j] = "none" \/ mounted) THEN Held(j) ELSE "none"
Completeness(v) == CASE v = "full" -> 2 [] v = "final" -> 1 [] OTHER -> 0

\* A reader loses something of a job to three things only: retention prunes it, with
\* no registered archive; the volume of its archive goes; compaction takes the live
\* name away.  Repointing, cleanup, resumed cycles and reused segments never replace
\* more complete content by less complete content.
ReaderNeverLoses ==
    [][\A j \in Jobs : \/ Completeness(View(j)') >= Completeness(View(j))
                       \/ ret.pc = "prune" /\ ret.job = j /\ catalog[j] = "none"
                       \/ mounted /\ ~mounted' /\ catalog[j] # "none"
                       \/ arch.pc = "swapOut" /\ database' = "aside"]_vars

\* The newest completed job of every scope, and the newest KeepPressure jobs of
\* all, are whole at their authority whatever was pruned, archived or counted as
\* full after it left the internal file (plan_discovery_retention).
NewestAreWhole ==
    \A j \in Jobs : status[j] = "completed" =>
        LET newer == {k \in Jobs : k > j /\ status[k] = "completed"} IN
        (\/ \A k \in newer : Scope[k] # Scope[j]
         \/ Cardinality(newer) < KeepPressure) => Held(j) = "full"

\* While the file is being replaced no job runs and retention deletes nothing:
\* "No writer can exist while the exclusive maintenance guard is held."
CompactionAlone ==
    arch.pc \in {"swapOut", "swapIn"} => Running = {} /\ ret.pc # "prune"

=============================================================================
