---------------------------- MODULE SupplierArchive ----------------------------
(***************************************************************************)
(* The supplier catalog database and the process that moves its history to *)
(* the archive volume (supplier_archive_lifecycle.py, supplier_archive.py).*)
(* The archive works beside the weekly refresh, the command line sync and  *)
(* the Qogita bootstrap, which publish generations and serving snapshots   *)
(* in the same database; it may die at every step and resumes from its     *)
(* state file.  An object is a generation or a snapshot; its rows never    *)
(* change once it is complete, so that an object is in the internal        *)
(* database as a whole, in a registered segment as a whole, or in both.    *)
(***************************************************************************)
EXTENDS Integers, FiniteSets, FiniteSetsExt

CONSTANTS
    Weekly,        \* generations of the weekly refresh and of the sync, in order
    Pipeline,      \* generations of the Qogita catalog pipeline, in order
    Snapshots,     \* Qogita serving snapshots, in order
    MaxTroubles,   \* bound on deaths and removals of the archive volume
    MaxFreezes     \* bound on Discovery jobs that freeze an object

Gens == Weekly \cup Pipeline
Objects == Gens \cup Snapshots

ASSUME ArchiveAssumption ==
    /\ Objects \subseteq Nat \ {0} /\ Weekly # {}
    /\ Weekly \cap Pipeline = {} /\ Gens \cap Snapshots = {}
    /\ {MaxTroubles, MaxFreezes} \subseteq Nat

VARIABLES
    status,      \* [Objects -> {"none", "running", "failed", "success"}]
    refs,        \* [Weekly -> SUBSET Weekly], sources of the rows it carries forward
    source,      \* [Snapshots -> Pipeline \cup {0}], generation of a snapshot
    internal,    \* objects whose rows are in the internal database
    registered,  \* objects with a valid record of an archive segment
    active,      \* the active weekly generation
    serving,     \* the active serving snapshot, or 0
    boot,        \* [source, status], the Qogita bootstrap
    base,        \* the baseline the weekly refresh began from
    frozen,      \* objects that Discovery jobs refer to
    file,        \* [Objects -> [state, archive, resume]], the state file
    arch,        \* [pc, object, hash, at], memory of the archive process
    launch,      \* an archive process has been started and has not planned yet
    writer,      \* holder of the supplier catalog's writer lock
    mounted,     \* the archive volume is there
    count        \* [troubles, freezes]

catalogVars == <<status, refs, source, internal, active, serving, boot, base>>
archiveVars == <<registered, file, arch>>
vars == <<catalogVars, archiveVars, frozen, launch, writer, mounted, count>>

NoBoot == [source |-> 0, status |-> "none"]
Down == [pc |-> "down", object |-> 0, hash |-> <<>>, at |-> "INTERNAL"]
Free(by) == IF writer = by THEN "free" ELSE writer
Unused(S) == {o \in S : status[o] = "none"}

-----------------------------------------------------------------------------
(* The plan.                                                               *)

Recoverable == {"running", "auto_stopped"}
ServingSource == IF serving = 0 THEN {} ELSE {source[serving]}

\* build_reference_graph: what the active pointers lead to.
Protected ==
    {active, serving} \cup ServingSource \cup refs[active]
    \cup {g \in {boot.source} : boot.status \in Recoverable}

\* plan_supplier_archive: history that is not archived yet.
Candidates ==
    {o \in internal : o \notin registered /\ o \notin Protected /\ status[o] # "running"}

\* What a candidate's hash holds of the reference graph.
Hash(o) == <<o \in Protected, o \in frozen, status[o]>>

Unfinished == {"COPYING", "COPIED", "VERIFIED", "REPOINTED", "INTERNAL_CLEANUP", "RETRYABLE"}

\* Objects the planner no longer names, that the state file says to resume.
Resumable == {o \in internal \ Candidates : file[o].state \in Unfinished}

\* Child rows that would be left without their parent.
Orphans(o) ==
    \/ o \in {active, serving}
    \/ \E s \in Snapshots \cap internal : source[s] = o

-----------------------------------------------------------------------------
Init ==
    /\ status = [o \in Objects |-> IF o = Min(Weekly) THEN "success" ELSE "none"]
    /\ refs = [g \in Weekly |-> {}]
    /\ source = [s \in Snapshots |-> 0]
    /\ internal = {Min(Weekly)} /\ registered = {}
    /\ active = Min(Weekly) /\ serving = 0 /\ base = Min(Weekly)
    /\ boot = NoBoot
    /\ frozen = {}
    /\ file = [o \in Objects |-> [state |-> "INTERNAL", archive |-> FALSE, resume |-> "COPIED"]]
    /\ arch = Down
    /\ launch = FALSE
    /\ writer = "free" /\ mounted = TRUE
    /\ count = [troubles |-> 0, freezes |-> 0]

-----------------------------------------------------------------------------
(* The writers of the catalog.                                             *)

Trouble == count.troubles < MaxTroubles /\ count' = [count EXCEPT !.troubles = @ + 1]
Add(o, as) == status' = [status EXCEPT ![o] = as] /\ internal' = internal \cup {o}

\* A weekly refresh takes the lock and carries rows forward from its baseline.
WeeklyBegins ==
    /\ writer = "free" /\ Unused(Weekly) # {}
    /\ LET g == Min(Unused(Weekly)) IN
       /\ Add(g, "running")
       /\ \E sources \in SUBSET (refs[active] \cup {active}) : refs' = [refs EXCEPT ![g] = sources]
    /\ writer' = "weekly" /\ base' = active
    /\ UNCHANGED <<source, active, serving, boot, archiveVars, frozen, launch, mounted, count>>

Staged == Max({g \in Weekly : status[g] = "running"})

\* It promotes over an unchanged baseline and starts the archive.
WeeklyPublishes ==
    /\ writer = "weekly" /\ active = base
    /\ status' = [status EXCEPT ![Staged] = "success"]
    /\ active' = Staged
    /\ writer' = "free" /\ launch' = TRUE
    /\ UNCHANGED <<refs, source, internal, serving, boot, base, archiveVars, frozen, mounted, count>>

\* The refresh fails, or dies and leaves its generation running.
WeeklyEnds ==
    /\ writer = "weekly"
    /\ \/ status' = [status EXCEPT ![Staged] = "failed"] /\ UNCHANGED count
       \/ /\ Trouble
          /\ UNCHANGED status
    /\ writer' = "free"
    /\ UNCHANGED <<refs, source, internal, active, serving, boot, base, archiveVars, frozen, launch, mounted>>

\* publish_product_catalog_stream: the rows, the end of the run and, if promoted,
\* the active pointer, in one transaction.
Publish(g, promote) ==
    /\ Add(g, "success")
    /\ active' = IF promote THEN g ELSE active

\* sync_supplier_catalog publishes a whole generation without the lock.
Sync ==
    /\ Unused(Weekly) # {}
    /\ \E promote \in BOOLEAN : Publish(Min(Unused(Weekly)), promote)
    /\ UNCHANGED <<refs, source, serving, boot, base, archiveVars, frozen, launch, writer, mounted, count>>

\* The catalog pipeline publishes without promotion.
PipelinePublishes ==
    /\ Unused(Pipeline) # {}
    /\ Publish(Min(Unused(Pipeline)), FALSE)
    /\ UNCHANGED <<refs, source, serving, boot, base, archiveVars, frozen, launch, writer, mounted, count>>

\* create_production_bootstrap finds its source in the internal database.
CreateBootstrap ==
    /\ boot = NoBoot
    /\ \E g \in Pipeline \cap internal : boot' = [source |-> g, status |-> "running"]
    /\ UNCHANGED <<status, refs, source, internal, active, serving, base, archiveVars, frozen, launch,
                   writer, mounted, count>>

WindowBegins ==
    /\ writer = "free" /\ boot.source # 0 /\ boot.status # "awaiting_promotion_review"
    /\ writer' = "qogita" /\ boot' = [boot EXCEPT !.status = "running"]
    /\ UNCHANGED <<status, refs, source, internal, active, serving, base, archiveVars, frozen, launch,
                   mounted, count>>

AfterCheckpoint == {"running", "waiting_retry", "awaiting_promotion_review"}

\* The window ends with a new serving snapshot, which starts the archive.
WindowPublishes ==
    /\ writer = "qogita" /\ Unused(Snapshots) # {}
    /\ LET s == Min(Unused(Snapshots)) IN
       Add(s, "success") /\ source' = [source EXCEPT ![s] = boot.source] /\ serving' = s
    /\ \E as \in AfterCheckpoint : boot' = [boot EXCEPT !.status = as]
    /\ writer' = "free" /\ launch' = TRUE
    /\ UNCHANGED <<refs, active, base, archiveVars, frozen, mounted, count>>

\* The window stops, or its process dies after any checkpoint.
WindowEnds ==
    /\ writer = "qogita"
    /\ \/ boot' = [boot EXCEPT !.status = "auto_stopped"] /\ UNCHANGED count
       \/ /\ Trouble
          /\ \E as \in AfterCheckpoint : boot' = [boot EXCEPT !.status = as]
    /\ writer' = "free"
    /\ UNCHANGED <<status, refs, source, internal, active, serving, base, archiveVars, frozen, launch, mounted>>

\* A Discovery freezes the active generation and the serving snapshot.
Freeze ==
    /\ count.freezes < MaxFreezes /\ count' = [count EXCEPT !.freezes = @ + 1]
    /\ frozen' = frozen \cup ({active, serving} \ {0})
    /\ UNCHANGED <<catalogVars, archiveVars, launch, writer, mounted>>

MountOrUnmount ==
    /\ mounted => count.troubles < MaxTroubles
    /\ mounted' = ~mounted
    /\ count' = IF mounted THEN [count EXCEPT !.troubles = @ + 1] ELSE count
    /\ UNCHANGED <<catalogVars, archiveVars, frozen, launch, writer>>

-----------------------------------------------------------------------------
(* The archive process.                                                    *)

obj == arch.object
Goto(at) == arch' = [arch EXCEPT !.pc = at]
Save(as) == file' = [file EXCEPT ![obj].state = as, ![obj].archive = @ \/ as = "COPIED"]

StepAt(at) == arch.pc = at /\ UNCHANGED <<status, refs, source, active, serving, base, frozen, launch, mounted, count>>

\* An error: the next cycle goes on from the state that met it.
GiveUp(state) ==
    /\ file' = [file EXCEPT ![obj].state = "RETRYABLE", ![obj].resume = state]
    /\ arch' = Down

\* Variant: a verified object goes straight to its cleanup.
EntryTooFar(state) ==
    CASE state = "COPIED" -> "verify"
      [] state \in {"VERIFIED", "REPOINTED", "INTERNAL_CLEANUP"} -> "saveCleanup"
      [] state \in {"ARCHIVED", "BLOCKED", "CORRUPT"} -> "down"
      [] OTHER -> "saveCopying"

\* Where process() enters for a persisted state.
Entry(state) ==
    CASE state = "COPIED" -> "verify"
      [] state = "VERIFIED" -> "check"
      [] state \in {"REPOINTED", "INTERNAL_CLEANUP"} -> "saveCleanup"
      [] state \in {"ARCHIVED", "BLOCKED", "CORRUPT"} -> "down"
      [] OTHER -> "saveCopying"

\* One object of a new plan; what must be resumed comes first.
Begin ==
    /\ arch.pc = "down" /\ launch
    /\ launch' = FALSE
    /\ LET chosen == IF Resumable # {} THEN Resumable ELSE Candidates IN
       IF chosen = {} THEN UNCHANGED arch
       ELSE \E x \in chosen :
            LET state == IF file[x].state = "RETRYABLE" /\ file[x].archive
                         THEN file[x].resume ELSE file[x].state
            IN  arch' = IF Entry(state) = "down" THEN Down
                        ELSE [pc |-> Entry(state), object |-> x, hash |-> Hash(x), at |-> state]
    /\ UNCHANGED <<catalogVars, registered, file, frozen, writer, mounted, count>>

\* A second process finds the cycle's lock taken and ends.
AlreadyRunning ==
    /\ arch.pc # "down" /\ launch
    /\ launch' = FALSE
    /\ UNCHANGED <<catalogVars, archiveVars, frozen, writer, mounted, count>>

SaveCopying ==
    /\ StepAt("saveCopying") /\ Save("COPYING") /\ Goto("copy")
    /\ UNCHANGED <<internal, registered, boot, writer>>

\* create_archive_segment copies from one read transaction, without the lock.
Copy ==
    /\ StepAt("copy")
    /\ IF mounted THEN Goto("saveCopied") /\ UNCHANGED file ELSE GiveUp(arch.at)
    /\ UNCHANGED <<internal, registered, boot, writer>>

SaveCopied ==
    /\ StepAt("saveCopied") /\ Save("COPIED") /\ arch' = [arch EXCEPT !.pc = "verify", !.at = "COPIED"]
    /\ UNCHANGED <<internal, registered, boot, writer>>

\* Variant: the repoint is saved before the record is made.
VerifyRepoints ==
    /\ StepAt("verify")
    /\ IF mounted THEN Save("REPOINTED") /\ arch' = [arch EXCEPT !.pc = "check", !.at = "REPOINTED"]
       ELSE GiveUp(arch.at)
    /\ UNCHANGED <<internal, registered, boot, writer>>

Verify ==
    /\ StepAt("verify")
    /\ IF mounted THEN Save("VERIFIED") /\ arch' = [arch EXCEPT !.pc = "check", !.at = "VERIFIED"]
       ELSE GiveUp(arch.at)
    /\ UNCHANGED <<internal, registered, boot, writer>>

\* Under the writer lock the object must still be a candidate with the hash of
\* the plan.
Check ==
    /\ StepAt("check")
    /\ IF writer # "free" THEN GiveUp(arch.at) /\ UNCHANGED writer
       ELSE IF obj \in Candidates /\ Hash(obj) = arch.hash
       THEN writer' = "archive" /\ Goto("register") /\ UNCHANGED file
       ELSE Save("BLOCKED") /\ arch' = Down /\ UNCHANGED writer
    /\ UNCHANGED <<internal, registered, boot>>

\* register_archive_segment commits, then the lock is given back.
Register ==
    /\ StepAt("register")
    /\ registered' = registered \cup {obj}
    /\ writer' = "free"
    /\ Goto("saveRepointed")
    /\ UNCHANGED <<internal, boot, file>>

SaveRepointed ==
    /\ StepAt("saveRepointed") /\ Save("REPOINTED") /\ arch' = [arch EXCEPT !.pc = "saveCleanup", !.at = "REPOINTED"]
    /\ UNCHANGED <<internal, registered, boot, writer>>

SaveCleanup ==
    /\ StepAt("saveCleanup") /\ Save("INTERNAL_CLEANUP") /\ Goto("clean")
    /\ UNCHANGED <<internal, registered, boot, writer>>

Delete ==
    /\ internal' = internal \ {obj}
    /\ boot' = IF boot.source = obj THEN NoBoot ELSE boot
    /\ Goto("saveArchived") /\ UNCHANGED file

\* Variant: the foreign keys are not checked before the deletion commits.
CleanUnchecked ==
    /\ StepAt("clean")
    /\ IF writer # "free" THEN GiveUp(arch.at) /\ UNCHANGED <<internal, boot>> ELSE Delete
    /\ UNCHANGED <<registered, writer>>

\* The internal rows go in one transaction under the lock, a bootstrap of the
\* generation with them; an orphan rolls it back.
Clean ==
    /\ StepAt("clean")
    /\ IF writer # "free" THEN GiveUp(arch.at) /\ UNCHANGED <<internal, boot>>
       ELSE IF Orphans(obj) THEN Save("CORRUPT") /\ arch' = Down /\ UNCHANGED <<internal, boot>>
       ELSE Delete
    /\ UNCHANGED <<registered, writer>>

SaveArchived ==
    /\ StepAt("saveArchived") /\ Save("ARCHIVED") /\ arch' = Down
    /\ UNCHANGED <<internal, registered, boot, writer>>

Die ==
    /\ arch.pc # "down"
    /\ Trouble
    /\ arch' = Down
    /\ writer' = Free("archive")
    /\ UNCHANGED <<catalogVars, registered, file, frozen, launch, mounted>>

-----------------------------------------------------------------------------
ArchiveStep ==
    \/ Begin \/ AlreadyRunning \/ SaveCopying \/ Copy \/ SaveCopied \/ Verify \/ Check \/ Register
    \/ SaveRepointed \/ SaveCleanup \/ Clean \/ SaveArchived

Next ==
    \/ WeeklyBegins \/ WeeklyPublishes \/ WeeklyEnds \/ Sync
    \/ PipelinePublishes \/ CreateBootstrap \/ WindowBegins \/ WindowPublishes \/ WindowEnds
    \/ Freeze \/ MountOrUnmount
    \/ ArchiveStep \/ Die

Spec == Init /\ [][Next]_vars

-----------------------------------------------------------------------------
States == Unfinished \cup {"INTERNAL", "ARCHIVED", "BLOCKED", "CORRUPT"}
Statuses == {"none", "running", "failed", "success"}
Hashes == BOOLEAN \X BOOLEAN \X Statuses
Pcs == {"down", "saveCopying", "copy", "saveCopied", "verify", "check", "register",
        "saveRepointed", "saveCleanup", "clean", "saveArchived"}

TypeOK ==
    /\ status \in [Objects -> Statuses]
    /\ refs \in [Weekly -> SUBSET Weekly] /\ source \in [Snapshots -> Pipeline \cup {0}]
    /\ internal \subseteq Objects /\ registered \subseteq Objects /\ frozen \subseteq Objects
    /\ active \in Weekly /\ base \in Weekly /\ serving \in Snapshots \cup {0}
    /\ boot \in [source : Pipeline \cup {0}, status : AfterCheckpoint \cup {"none", "auto_stopped"}]
    /\ file \in [Objects -> [state : States, archive : BOOLEAN, resume : States]]
    /\ arch \in [pc : Pcs, object : Objects \cup {0}, hash : Hashes \cup {<<>>}, at : States]
    /\ launch \in BOOLEAN /\ mounted \in BOOLEAN
    /\ writer \in {"free", "weekly", "qogita", "archive"}
    /\ count \in [troubles : 0..MaxTroubles, freezes : 0..MaxFreezes]

\* Every complete generation and every snapshot can be read, from the internal
\* database or from its registered segment, whatever died in between.
NothingLost == \A x \in Objects : status[x] = "success" => x \in internal \cup registered

\* The active generation and the generations whose rows it carries forward stay
\* in the internal database, which the weekly refresh and every Discovery read,
\* although the pointer moves while the archive works (build_reference_graph).
ActiveStaysInternal == {active} \cup refs[active] \subseteq internal

\* The active serving snapshot and its source stay in the internal database, even
\* if the source was registered first, the archive died and the bootstrap was
\* created in between: the cleanup that is resumed finds the orphans.
ServingStaysInternal == serving # 0 => {serving, source[serving]} \subseteq internal

\* What the two pointers of the catalog name is never taken away under them.
PointersStayInternal == ActiveStaysInternal /\ ServingStaysInternal

\* The state file never runs ahead of the database: past the repoint there is a
\* record, and only then, after the save that announces it, are rows deleted.  A
\* resumed process enters process() by that file alone.
StateFileAgrees ==
    /\ \A x \in Objects : file[x].state \in {"REPOINTED", "INTERNAL_CLEANUP", "ARCHIVED"} => x \in registered
    /\ \A x \in registered \ internal : file[x].state \in {"INTERNAL_CLEANUP", "ARCHIVED"}

\* "A crash after the atomic repoint legitimately leaves an archive catalog record
\* while internal cleanup is still pending. Such a boundary must resume": an
\* object of which the record exists is not blocked before its cleanup.
RepointedResumes == \A x \in registered : file[x].state # "BLOCKED"

=============================================================================
