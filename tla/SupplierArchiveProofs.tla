------------------------- MODULE SupplierArchiveProofs -------------------------
(***************************************************************************)
(* Proofs about SupplierArchive, for any sets of generations and snapshots  *)
(* and any number of deaths, removals of the volume and frozen objects.     *)
(* None of the three invariants of the run is inductive: the records and    *)
(* the state file are written one after the other, and what lies in between *)
(* is in the archive process's memory or in the hands of a writer.          *)
(***************************************************************************)
EXTENDS SupplierArchive, WellFoundedInduction, TLAPS

\* An object no writer has begun has no rows and no record, and generations are
\* begun in their order.
Unstarted ==
    /\ \A x \in Objects : status[x] = "none" => x \notin internal \cup registered
    /\ \A g \in Weekly : status[g] = "none" => refs[g] = {}
    /\ \A g, h \in Weekly : status[g] # "none" /\ status[h] = "none" => g < h

\* The generation that a refresh stages has its rows and its sources internal.
StagedIsWhole ==
    writer = "weekly" => /\ Staged \in Weekly /\ status[Staged] = "running"
                         /\ {Staged} \cup refs[Staged] \subseteq internal \ registered

\* What is registered, or about to be, is not what the active pointer needs.
Archived == registered \cup {x \in {obj} : arch.pc = "register"}
PointersUnregistered == ({active} \cup refs[active]) \cap Archived = {}

\* The source of an unfinished bootstrap is internal, so the next snapshot's is.
BootIsInternal ==
    /\ boot.source # 0 => boot.source \in internal
    /\ writer = "qogita" => boot.source # 0

PastRepoint == {"REPOINTED", "INTERNAL_CLEANUP", "ARCHIVED"}
AfterRegister == {"saveRepointed", "saveCleanup", "clean", "saveArchived"}

\* What the archive process knows of its object at each step.
ArchiveKnows ==
    /\ arch.pc = "register" => writer = "archive"
    /\ arch.pc # "down" => obj \in Objects
    /\ arch.pc \notin {"down", "saveArchived"} => obj \in internal
    /\ arch.pc \in AfterRegister => obj \in registered
    /\ arch.pc \in {"clean", "saveArchived"} => file[obj].state = "INTERNAL_CLEANUP"
    /\ arch.pc # "down" /\ arch.at \in PastRepoint => obj \in registered

\* What the state file may be resumed with.
FileKnows == \A x \in Objects : file[x].resume \in PastRepoint => x \in registered

IInv ==
    /\ TypeOK /\ NothingLost /\ PointersStayInternal /\ StateFileAgrees
    /\ Unstarted /\ StagedIsWhole /\ PointersUnregistered /\ BootIsInternal
    /\ ArchiveKnows /\ FileKnows

FileRow == [state : States, archive : BOOLEAN, resume : States]
ArchRow == [pc : Pcs, object : Objects \cup {0}, hash : Hashes \cup {<<>>}, at : States]

(***************************************************************************)
(* The least element of a set of numbers: the order in which generations    *)
(* are begun rests on it.                                                    *)
(***************************************************************************)
Less == {ss \in Nat \X Nat : ss[1] < ss[2]}

LEMMA Least ==
    ASSUME NEW S, S \subseteq Nat, S # {}
    PROVE  Min(S) \in S /\ \A y \in S : Min(S) <= y
<1>1. OpToRel(<, Nat) = Less
  BY Zenon DEF OpToRel, Less
<1>2. PICK x \in S : \A y \in S : <<y, x>> \notin Less
  BY <1>1, NatLessThanWellFounded, WFMin, Zenon
<1>3. ASSUME NEW a \in Nat, NEW b \in Nat, a < b
      PROVE  <<a, b>> \in Less
  <2>1. <<a, b>> \in Nat \X Nat /\ <<a, b>>[1] < <<a, b>>[2]
    BY <1>3
  <2> QED
    BY <2>1 DEF Less
<1>4. ASSUME NEW y \in S
      PROVE  x <= y
  <2>1. x \in Nat /\ y \in Nat /\ <<y, x>> \notin Less
    BY <1>2
  <2>2. ~(y < x)
    BY <1>3, <2>1, Zenon
  <2> QED
    BY <2>1, <2>2
<1> QED
  BY <1>4 DEF Min

LEMMA Ids == Objects \subseteq Nat /\ 0 \notin Objects /\ Weekly # {}
<1> QED
  BY ArchiveAssumption DEF Objects

LEMMA FirstUnused ==
    ASSUME NEW S, S \subseteq Objects, Unused(S) # {}
    PROVE  /\ Min(Unused(S)) \in S /\ status[Min(Unused(S))] = "none"
           /\ \A x \in Unused(S) : Min(Unused(S)) <= x
<1>1. Unused(S) \subseteq Nat
  BY Ids DEF Unused
<1>2. Min(Unused(S)) \in Unused(S) /\ \A x \in Unused(S) : Min(Unused(S)) <= x
  BY <1>1, Least
<1> QED
  BY <1>2 DEF Unused

LEMMA FirstWeekly == Min(Weekly) \in Weekly /\ \A g \in Weekly : Min(Weekly) <= g
<1>1. Weekly \subseteq Nat /\ Weekly # {}
  BY Ids DEF Objects, Gens
<1> QED
  BY <1>1, Least

(***************************************************************************)
(* What a step of the archive process leaves in its memory and in the state *)
(* file.                                                                     *)
(***************************************************************************)
FileIs(x, state, archive, resume) ==
    /\ file' \in [Objects -> FileRow]
    /\ \A y \in Objects : y # x => file'[y] = file[y]
    /\ file'[x].state = state /\ file'[x].archive = archive /\ file'[x].resume = resume

Moves(pc, at, state, archive, resume) ==
    /\ FileIs(obj, state, archive, resume)
    /\ arch' \in ArchRow
    /\ arch'.pc = pc /\ arch'.at = at
    /\ pc # "down" => arch'.object = obj

\* It goes on, with the file unchanged or saved; it gives up.
GoesOn(pc, at) == Moves(pc, at, file[obj].state, file[obj].archive, file[obj].resume)
Saves(pc, at, state) ==
    Moves(pc, at, state, file[obj].archive \/ state = "COPIED", file[obj].resume)
GivesUp == Moves("down", "INTERNAL", "RETRYABLE", file[obj].archive, arch.at)

\* Everything the archive process never writes.
Untouched == <<status, refs, source, active, serving, base, frozen, launch, mounted, count>>

LEMMA Typed ==
    ASSUME TypeOK
    PROVE  /\ file \in [Objects -> FileRow] /\ arch \in ArchRow /\ Down \in ArchRow
           /\ arch.pc \in Pcs /\ arch.object \in Objects \cup {0} /\ arch.at \in States
           /\ \A x \in Objects : /\ file[x] \in FileRow /\ file[x].state \in States
                                 /\ file[x].archive \in BOOLEAN /\ file[x].resume \in States
<1>1. file \in [Objects -> FileRow] /\ arch \in ArchRow
  BY DEF TypeOK, FileRow, ArchRow
<1>2. Down \in ArchRow
  BY DEF Down, ArchRow, Pcs, States
<1>3. \A x \in Objects : file[x] \in FileRow
  BY <1>1
<1> QED
  BY <1>1, <1>2, <1>3 DEF FileRow, ArchRow

LEMMA FileStays ==
    ASSUME TypeOK, obj \in Objects, file' = file
    PROVE  FileIs(obj, file[obj].state, file[obj].archive, file[obj].resume)
<1> QED
  BY Typed DEF FileIs

LEMMA SaveChanges ==
    ASSUME TypeOK, obj \in Objects, NEW as \in States, Save(as)
    PROVE  FileIs(obj, as, file[obj].archive \/ as = "COPIED", file[obj].resume)
<1> DEFINE q == [file[obj] EXCEPT !.state = as]
           p == [q EXCEPT !.archive = q.archive \/ as = "COPIED"]
           f == [file EXCEPT ![obj] = q]
<1>1. file \in [Objects -> FileRow] /\ file[obj] \in FileRow
  BY Typed
<1>2. q \in FileRow /\ q.state = as /\ q.archive = file[obj].archive /\ q.resume = file[obj].resume
  BY <1>1 DEF FileRow
<1>3. /\ p \in FileRow /\ p.state = as /\ p.resume = file[obj].resume
      /\ p.archive = (file[obj].archive \/ as = "COPIED")
  BY <1>2 DEF FileRow
<1>4. file' = [f EXCEPT ![obj] = [f[obj] EXCEPT !.archive = f[obj].archive \/ as = "COPIED"]]
  BY DEF Save
<1>5. f[obj] = q
  BY <1>1
<1>6. file' = [f EXCEPT ![obj] = p]
  BY <1>4, <1>5
<1> HIDE DEF p, q
<1> QED
  BY <1>1, <1>2, <1>3, <1>6 DEF FileIs

LEMMA GiveUpChanges ==
    ASSUME TypeOK, obj \in Objects, GiveUp(arch.at)
    PROVE  GivesUp
<1> DEFINE q == [file[obj] EXCEPT !.state = "RETRYABLE"]
           p == [q EXCEPT !.resume = arch.at]
           f == [file EXCEPT ![obj] = q]
<1>1. file \in [Objects -> FileRow] /\ file[obj] \in FileRow /\ arch.at \in States
  BY Typed
<1>2. q \in FileRow /\ q.state = "RETRYABLE" /\ q.archive = file[obj].archive
  BY <1>1 DEF FileRow, States, Unfinished
<1>3. p \in FileRow /\ p.state = "RETRYABLE" /\ p.archive = file[obj].archive /\ p.resume = arch.at
  BY <1>1, <1>2 DEF FileRow
<1>4. file' = [f EXCEPT ![obj] = [f[obj] EXCEPT !.resume = arch.at]]
  BY DEF GiveUp
<1>5. f[obj] = q
  BY <1>1
<1>6. file' = [f EXCEPT ![obj] = p]
  BY <1>4, <1>5
<1> HIDE DEF p, q
<1>7. FileIs(obj, "RETRYABLE", file[obj].archive, arch.at)
  BY <1>1, <1>2, <1>3, <1>6 DEF FileIs
<1> QED
  BY <1>7, Typed DEF GiveUp, GivesUp, Moves, Down

LEMMA ArchChanges ==
    ASSUME TypeOK, NEW pc \in Pcs, NEW at \in States,
           \/ Goto(pc) /\ at = arch.at
           \/ arch' = [arch EXCEPT !.pc = pc, !.at = at]
    PROVE  arch' \in ArchRow /\ arch'.pc = pc /\ arch'.at = at /\ arch'.object = obj
<1> QED
  BY Typed DEF Goto, ArchRow, obj

(***************************************************************************)
(* The steps of the archive process by what they do: most of them only save *)
(* the file; the lock is granted, the record made, the rows deleted.        *)
(***************************************************************************)
FileStep ==
    /\ UNCHANGED <<Untouched, internal, registered, boot, writer>>
    /\ arch.pc # "down"
    /\ \/ arch.pc = "saveCopying" /\ Saves("copy", arch.at, "COPYING")
       \/ arch.pc = "copy" /\ GoesOn("saveCopied", arch.at)
       \/ arch.pc \in {"copy", "verify", "check", "clean"} /\ GivesUp
       \/ arch.pc = "saveCopied" /\ Saves("verify", "COPIED", "COPIED")
       \/ arch.pc = "verify" /\ Saves("check", "VERIFIED", "VERIFIED")
       \/ arch.pc = "check" /\ Saves("down", "INTERNAL", "BLOCKED")
       \/ arch.pc = "saveRepointed" /\ Saves("saveCleanup", "REPOINTED", "REPOINTED")
       \/ arch.pc = "saveCleanup" /\ Saves("clean", arch.at, "INTERNAL_CLEANUP")
       \/ arch.pc = "clean" /\ Saves("down", "INTERNAL", "CORRUPT")
       \/ arch.pc = "saveArchived" /\ Saves("down", "INTERNAL", "ARCHIVED")

Granted ==
    /\ UNCHANGED <<Untouched, internal, registered, boot>>
    /\ arch.pc = "check" /\ obj \in Candidates
    /\ writer = "free" /\ writer' = "archive"
    /\ GoesOn("register", arch.at)

Registers ==
    /\ UNCHANGED <<Untouched, internal, boot>>
    /\ arch.pc = "register"
    /\ registered' = registered \cup {obj} /\ writer' = "free"
    /\ GoesOn("saveRepointed", arch.at)

Deletes ==
    /\ UNCHANGED <<Untouched, registered, writer>>
    /\ arch.pc = "clean" /\ writer = "free" /\ ~Orphans(obj)
    /\ internal' = internal \ {obj}
    /\ boot' = IF boot.source = obj THEN NoBoot ELSE boot
    /\ GoesOn("saveArchived", arch.at)

\* A process begins with an object that is internal, and past the repoint only
\* if there is a record.
Starts ==
    /\ UNCHANGED <<catalogVars, registered, file, frozen, writer, mounted, count>>
    /\ launch' = FALSE
    /\ arch' \in ArchRow
    /\ \/ arch'.pc = "down"
       \/ /\ arch'.pc \in {"saveCopying", "verify", "check", "saveCleanup"}
          /\ arch'.object \in internal
          /\ arch'.pc = "saveCleanup" \/ arch'.at \in PastRepoint => arch'.object \in registered

LEMMA Names ==
    /\ {"down", "saveCopying", "copy", "saveCopied", "verify", "check", "register",
        "saveRepointed", "saveCleanup", "clean", "saveArchived"} \subseteq Pcs
    /\ {"INTERNAL", "COPYING", "COPIED", "VERIFIED", "REPOINTED", "INTERNAL_CLEANUP",
        "ARCHIVED", "BLOCKED", "CORRUPT", "RETRYABLE"} \subseteq States
<1> QED
  BY DEF Pcs, States, Unfinished

LEMMA SavesOn ==
    ASSUME TypeOK, obj \in Objects, NEW as \in States, Save(as),
           NEW pc \in Pcs, NEW at \in States,
           \/ Goto(pc) /\ at = arch.at
           \/ arch' = [arch EXCEPT !.pc = pc, !.at = at]
           \/ arch' = Down /\ pc = "down" /\ at = "INTERNAL"
    PROVE  Saves(pc, at, as)
<1>1. FileIs(obj, as, file[obj].archive \/ as = "COPIED", file[obj].resume)
  BY SaveChanges
<1>2. CASE arch' = Down /\ pc = "down" /\ at = "INTERNAL"
  BY <1>1, <1>2, Typed DEF Saves, Moves, Down
<1>3. CASE ~(arch' = Down /\ pc = "down" /\ at = "INTERNAL")
  BY <1>1, <1>3, ArchChanges DEF Saves, Moves
<1> QED
  BY <1>2, <1>3

LEMMA GoesOnWith ==
    ASSUME TypeOK, obj \in Objects, file' = file, NEW pc \in Pcs, Goto(pc)
    PROVE  GoesOn(pc, arch.at)
<1>1. arch.at \in States
  BY Typed
<1> QED
  BY <1>1, FileStays, ArchChanges DEF GoesOn, Moves

LEMMA SavingSteps ==
    ASSUME TypeOK, obj \in Objects,
           SaveCopying \/ Copy \/ SaveCopied \/ Verify \/ SaveRepointed \/ SaveCleanup \/ SaveArchived
    PROVE  FileStep
<1> USE Names
<1>0. arch.at \in States
  BY Typed
<1>1. CASE SaveCopying
  <2>1. Saves("copy", arch.at, "COPYING")
    BY <1>0, <1>1, SavesOn DEF SaveCopying
  <2> QED
    BY <1>1, <2>1 DEF SaveCopying, StepAt, FileStep, Untouched
<1>2. CASE Copy
  <2>1. GoesOn("saveCopied", arch.at) \/ GivesUp
    BY <1>2, GoesOnWith, GiveUpChanges DEF Copy
  <2> QED
    BY <1>2, <2>1 DEF Copy, StepAt, FileStep, Untouched
<1>3. CASE SaveCopied
  <2>1. Saves("verify", "COPIED", "COPIED")
    BY <1>3, SavesOn DEF SaveCopied
  <2> QED
    BY <1>3, <2>1 DEF SaveCopied, StepAt, FileStep, Untouched
<1>4. CASE Verify
  <2>1. Saves("check", "VERIFIED", "VERIFIED") \/ GivesUp
    BY <1>4, SavesOn, GiveUpChanges DEF Verify
  <2> QED
    BY <1>4, <2>1 DEF Verify, StepAt, FileStep, Untouched
<1>5. CASE SaveRepointed
  <2>1. Saves("saveCleanup", "REPOINTED", "REPOINTED")
    BY <1>5, SavesOn DEF SaveRepointed
  <2> QED
    BY <1>5, <2>1 DEF SaveRepointed, StepAt, FileStep, Untouched
<1>6. CASE SaveCleanup
  <2>1. Saves("clean", arch.at, "INTERNAL_CLEANUP")
    BY <1>0, <1>6, SavesOn DEF SaveCleanup
  <2> QED
    BY <1>6, <2>1 DEF SaveCleanup, StepAt, FileStep, Untouched
<1>7. CASE SaveArchived
  <2>1. Saves("down", "INTERNAL", "ARCHIVED")
    BY <1>7, SavesOn DEF SaveArchived
  <2> QED
    BY <1>7, <2>1 DEF SaveArchived, StepAt, FileStep, Untouched
<1> QED
  BY <1>1, <1>2, <1>3, <1>4, <1>5, <1>6, <1>7

LEMMA CheckDoes ==
    ASSUME TypeOK, obj \in Objects, Check
    PROVE  FileStep \/ Granted
<1> USE Names
<1>1. CASE writer # "free"
  <2>1. GivesUp /\ UNCHANGED writer
    BY <1>1, GiveUpChanges DEF Check
  <2> QED
    BY <2>1 DEF Check, StepAt, FileStep, Untouched
<1>2. CASE writer = "free" /\ obj \in Candidates /\ Hash(obj) = arch.hash
  <2>1. GoesOn("register", arch.at) /\ writer' = "archive"
    BY <1>2, GoesOnWith DEF Check
  <2> QED
    BY <1>2, <2>1 DEF Check, StepAt, Granted, Untouched
<1>3. CASE writer = "free" /\ ~(obj \in Candidates /\ Hash(obj) = arch.hash)
  <2>1. Saves("down", "INTERNAL", "BLOCKED") /\ UNCHANGED writer
    BY <1>3, SavesOn DEF Check
  <2> QED
    BY <2>1 DEF Check, StepAt, FileStep, Untouched
<1> QED
  BY <1>1, <1>2, <1>3

LEMMA RegisterDoes ==
    ASSUME TypeOK, obj \in Objects, Register
    PROVE  Registers
<1>1. GoesOn("saveRepointed", arch.at)
  BY Names, GoesOnWith DEF Register
<1> QED
  BY <1>1 DEF Register, StepAt, Registers, Untouched

LEMMA CleanDoes ==
    ASSUME TypeOK, obj \in Objects, Clean
    PROVE  FileStep \/ Deletes
<1> USE Names
<1>1. CASE writer # "free"
  <2>1. GivesUp /\ UNCHANGED <<internal, boot>>
    BY <1>1, GiveUpChanges DEF Clean
  <2> QED
    BY <2>1 DEF Clean, StepAt, FileStep, Untouched
<1>2. CASE writer = "free" /\ Orphans(obj)
  <2>1. Saves("down", "INTERNAL", "CORRUPT") /\ UNCHANGED <<internal, boot>>
    BY <1>2, SavesOn DEF Clean
  <2> QED
    BY <2>1 DEF Clean, StepAt, FileStep, Untouched
<1>3. CASE writer = "free" /\ ~Orphans(obj)
  <2>1. GoesOn("saveArchived", arch.at)
    BY <1>3, GoesOnWith DEF Clean, Delete
  <2> QED
    BY <1>3, <2>1 DEF Clean, Delete, StepAt, Deletes, Untouched
<1> QED
  BY <1>1, <1>2, <1>3

LEMMA BeginDoes ==
    ASSUME TypeOK, StateFileAgrees, FileKnows, Begin
    PROVE  Starts
<1> DEFINE chosen == IF Resumable # {} THEN Resumable ELSE Candidates
           from(x) == IF file[x].state = "RETRYABLE" /\ file[x].archive
                      THEN file[x].resume ELSE file[x].state
           row(x) == [pc |-> Entry(from(x)), object |-> x, hash |-> Hash(x), at |-> from(x)]
<1>1. /\ arch.pc = "down" /\ launch' = FALSE
      /\ UNCHANGED <<catalogVars, registered, file, frozen, writer, mounted, count>>
      /\ \/ arch' = arch
         \/ \E x \in chosen : arch' = IF Entry(from(x)) = "down" THEN Down ELSE row(x)
  BY DEF Begin
<1>2. chosen \subseteq internal /\ internal \subseteq Objects
  BY DEF Resumable, Candidates, TypeOK
<1>3. CASE arch' = arch
  BY <1>1, <1>3, Typed DEF Starts
<1>4. CASE \E x \in chosen : arch' = IF Entry(from(x)) = "down" THEN Down ELSE row(x)
  <2>1. PICK x \in chosen : arch' = IF Entry(from(x)) = "down" THEN Down ELSE row(x)
    BY <1>4
  <2>2. x \in internal /\ x \in Objects
    BY <1>2
  <2>3. from(x) \in States /\ (from(x) \in PastRepoint => x \in registered)
    BY <2>2, Typed DEF StateFileAgrees, FileKnows, PastRepoint
  <2>4. Entry(from(x)) \in {"down", "saveCopying", "verify", "check", "saveCleanup"}
    BY DEF Entry
  <2>5. Entry(from(x)) = "saveCleanup" => from(x) \in PastRepoint
    BY DEF Entry, PastRepoint
  <2>6. Hash(x) \in Hashes
    <3>1. ASSUME NEW a \in BOOLEAN, NEW b \in BOOLEAN, NEW c \in Statuses
          PROVE  <<a, b, c>> \in Hashes
      BY DEF Hashes
    <3>2. (x \in Protected) \in BOOLEAN /\ (x \in frozen) \in BOOLEAN
      OBVIOUS
    <3>3. status[x] \in Statuses
      BY <2>2 DEF TypeOK
    <3> QED
      BY <3>1, <3>2, <3>3, Zenon DEF Hash
  <2>7. CASE Entry(from(x)) = "down"
    BY <1>1, <2>1, <2>7, Typed DEF Starts, Down
  <2>8. CASE Entry(from(x)) # "down"
    <3> HIDE DEF from
    <3>1. arch' = row(x)
      BY <2>1, <2>8
    <3>2. row(x) \in ArchRow
      BY <2>2, <2>3, <2>4, <2>6, Names DEF ArchRow
    <3>3. arch'.pc = Entry(from(x)) /\ arch'.object = x /\ arch'.at = from(x)
      BY <3>1
    <3> QED
      BY <1>1, <2>2, <2>3, <2>4, <2>5, <2>8, <3>1, <3>2, <3>3 DEF Starts
  <2> QED
    BY <2>7, <2>8
<1> QED
  BY <1>1, <1>3, <1>4

\* The writers of the catalog, none of which touches the archive's own state.
WriterStep ==
    \/ WeeklyBegins \/ WeeklyPublishes \/ WeeklyEnds \/ Sync
    \/ PipelinePublishes \/ CreateBootstrap \/ WindowBegins \/ WindowPublishes \/ WindowEnds

\* Steps that leave catalog, file and records alone.
Aside ==
    /\ UNCHANGED <<catalogVars, registered, file>>
    /\ \/ UNCHANGED <<arch, writer>>
       \/ Starts
       \/ arch' = Down /\ writer' = Free("archive")

LEMMA Steps ==
    ASSUME IInv, Next
    PROVE  \/ WriterStep \/ Freeze \/ MountOrUnmount \/ Begin \/ AlreadyRunning \/ Die
           \/ FileStep \/ Granted \/ Registers \/ Deletes
<1> USE DEF IInv
<1>1. CASE SaveCopying \/ Copy \/ SaveCopied \/ Verify \/ SaveRepointed \/ SaveCleanup
           \/ SaveArchived \/ Check \/ Register \/ Clean
  <2>1. obj \in Objects
    BY <1>1 DEF SaveCopying, Copy, SaveCopied, Verify, SaveRepointed, SaveCleanup,
                SaveArchived, Check, Register, Clean, StepAt, ArchiveKnows
  <2> QED
    BY <1>1, <2>1, SavingSteps, CheckDoes, RegisterDoes, CleanDoes
<1> QED
  BY <1>1 DEF Next, ArchiveStep, WriterStep

LEMMA NextDoes ==
    ASSUME IInv, [Next]_vars
    PROVE  WriterStep \/ FileStep \/ Granted \/ Registers \/ Deletes \/ Aside
<1> USE DEF IInv
<1>1. CASE Begin
  <2>1. Starts
    BY <1>1, BeginDoes
  <2> QED
    BY <2>1 DEF Starts, Aside
<1>2. CASE AlreadyRunning \/ Freeze \/ MountOrUnmount
  BY <1>2 DEF AlreadyRunning, Freeze, MountOrUnmount, Aside, archiveVars
<1>3. CASE Die
  BY <1>3 DEF Die, Aside
<1>4. CASE UNCHANGED vars
  BY <1>4 DEF vars, catalogVars, archiveVars, Aside
<1> QED
  BY <1>1, <1>2, <1>3, <1>4, Steps

(***************************************************************************)
(* Types.                                                                    *)
(***************************************************************************)
LEMMA InitTypeOK == Init => TypeOK
<1> SUFFICES ASSUME Init
             PROVE  TypeOK
  OBVIOUS
<1>1. Min(Weekly) \in Weekly /\ Weekly \subseteq Objects
  BY FirstWeekly DEF Objects, Gens
<1>2. file \in [Objects -> [state : States, archive : BOOLEAN, resume : States]]
  BY Names DEF Init
<1>3. arch \in [pc : Pcs, object : Objects \cup {0}, hash : Hashes \cup {<<>>}, at : States]
  BY Names DEF Init, Down
<1>4. boot \in [source : Pipeline \cup {0}, status : AfterCheckpoint \cup {"none", "auto_stopped"}]
  BY DEF Init, NoBoot
<1>5. count \in [troubles : 0..MaxTroubles, freezes : 0..MaxFreezes]
  BY ArchiveAssumption DEF Init
<1>6. status \in [Objects -> Statuses]
  BY DEF Init, Statuses
<1> QED
  BY <1>1, <1>2, <1>3, <1>4, <1>5, <1>6 DEF Init, TypeOK

LEMMA Kinds ==
    /\ Weekly \subseteq Objects /\ Pipeline \subseteq Objects /\ Snapshots \subseteq Objects
    /\ Weekly \cap Pipeline = {} /\ Weekly \cap Snapshots = {} /\ Pipeline \cap Snapshots = {}
    /\ 0 \notin Objects
<1> QED
  BY ArchiveAssumption, Ids DEF Objects, Gens

LEMMA TroubleCounted ==
    ASSUME TypeOK, Trouble
    PROVE  count' \in [troubles : 0..MaxTroubles, freezes : 0..MaxFreezes]
<1>1. /\ count \in [troubles : 0..MaxTroubles, freezes : 0..MaxFreezes]
      /\ MaxTroubles \in Nat /\ count.troubles + 1 \in 0..MaxTroubles
  BY ArchiveAssumption DEF TypeOK, Trouble
<1> QED
  BY <1>1 DEF Trouble

LEMMA NewStatus ==
    ASSUME TypeOK, NEW x \in Objects, NEW as \in Statuses,
           status' = [status EXCEPT ![x] = as]
    PROVE  /\ status' \in [Objects -> Statuses] /\ status'[x] = as
           /\ \A y \in Objects : y # x => status'[y] = status[y]
<1> QED
  BY DEF TypeOK

LEMMA BootChanges ==
    ASSUME TypeOK, NEW as \in AfterCheckpoint \cup {"none", "auto_stopped"},
           boot' = [boot EXCEPT !.status = as]
    PROVE  /\ boot' \in [source : Pipeline \cup {0}, status : AfterCheckpoint \cup {"none", "auto_stopped"}]
           /\ boot'.source = boot.source
<1> QED
  BY DEF TypeOK

\* What the writers do to the objects: a weekly run stages the first generation
\* not begun, over its baseline.
LEMMA WeeklyBeginsDoes ==
    ASSUME TypeOK, WeeklyBegins
    PROVE  \E g \in Weekly :
             /\ status[g] = "none" /\ \A h \in Weekly : status[h] = "none" => g <= h
             /\ status' = [status EXCEPT ![g] = "running"] /\ internal' = internal \cup {g}
             /\ \E sources \in SUBSET (refs[active] \cup {active}) : refs' = [refs EXCEPT ![g] = sources]
             /\ writer = "free" /\ writer' = "weekly" /\ base' = active
             /\ UNCHANGED <<source, active, serving, boot, archiveVars, frozen, launch, mounted, count>>
<1> DEFINE g == Min(Unused(Weekly))
<1>1. g \in Weekly /\ status[g] = "none" /\ \A h \in Unused(Weekly) : g <= h
  BY FirstUnused, Kinds DEF WeeklyBegins
<1> QED
  BY <1>1 DEF WeeklyBegins, Add, Unused

\* The sync and the pipeline publish a new generation at once.
Publishes(g, promote) ==
    /\ status[g] = "none"
    /\ status' = [status EXCEPT ![g] = "success"] /\ internal' = internal \cup {g}
    /\ active' = IF promote THEN g ELSE active
    /\ UNCHANGED <<refs, source, serving, boot, base, archiveVars, frozen, launch, writer, mounted, count>>

LEMMA SyncDoes ==
    ASSUME TypeOK, Sync
    PROVE  \E g \in Weekly, promote \in BOOLEAN :
             /\ \A h \in Weekly : status[h] = "none" => g <= h
             /\ Publishes(g, promote)
<1> DEFINE g == Min(Unused(Weekly))
<1>1. g \in Weekly /\ status[g] = "none" /\ \A h \in Unused(Weekly) : g <= h
  BY FirstUnused, Kinds DEF Sync
<1>2. PICK promote \in BOOLEAN : Publish(g, promote)
  BY DEF Sync
<1>3. Publishes(g, promote)
  BY <1>1, <1>2 DEF Sync, Publish, Add, Publishes
<1>4. \A h \in Weekly : status[h] = "none" => g <= h
  BY <1>1 DEF Unused
<1> HIDE DEF g
<1> QED
  BY <1>1, <1>3, <1>4

LEMMA PipelineDoes ==
    ASSUME TypeOK, PipelinePublishes
    PROVE  \E g \in Pipeline : Publishes(g, FALSE)
<1> DEFINE g == Min(Unused(Pipeline))
<1>1. g \in Pipeline /\ status[g] = "none"
  BY FirstUnused, Kinds DEF PipelinePublishes
<1>2. Publishes(g, FALSE)
  BY <1>1 DEF PipelinePublishes, Publish, Add, Publishes
<1> HIDE DEF g
<1> QED
  BY <1>1, <1>2

LEMMA WindowPublishesDoes ==
    ASSUME TypeOK, WindowPublishes
    PROVE  \E s \in Snapshots, as \in AfterCheckpoint :
             /\ status[s] = "none"
             /\ status' = [status EXCEPT ![s] = "success"] /\ internal' = internal \cup {s}
             /\ source' = [source EXCEPT ![s] = boot.source] /\ serving' = s
             /\ boot' = [boot EXCEPT !.status = as]
             /\ writer = "qogita" /\ writer' = "free" /\ launch' = TRUE
             /\ UNCHANGED <<refs, active, base, archiveVars, frozen, mounted, count>>
<1> DEFINE s == Min(Unused(Snapshots))
<1>1. s \in Snapshots /\ status[s] = "none"
  BY FirstUnused, Kinds DEF WindowPublishes
<1> QED
  BY <1>1 DEF WindowPublishes, Add

LEMMA StepTypeOK ==
    ASSUME IInv, [Next]_vars
    PROVE  TypeOK'
<1> USE DEF IInv
<1>1. CASE WeeklyBegins
  <2>1. PICK g \in Weekly :
          /\ status' = [status EXCEPT ![g] = "running"] /\ internal' = internal \cup {g}
          /\ \E sources \in SUBSET (refs[active] \cup {active}) : refs' = [refs EXCEPT ![g] = sources]
          /\ writer' = "weekly" /\ base' = active
          /\ UNCHANGED <<source, active, serving, boot, archiveVars, frozen, launch, mounted, count>>
    BY <1>1, WeeklyBeginsDoes
  <2>2. refs[active] \cup {active} \subseteq Weekly
    BY DEF TypeOK
  <2>3. refs' \in [Weekly -> SUBSET Weekly]
    BY <2>1, <2>2 DEF TypeOK
  <2>4. status' \in [Objects -> Statuses] /\ g \in Objects
    BY <2>1, Kinds, NewStatus DEF Statuses
  <2> QED
    BY <2>1, <2>3, <2>4 DEF TypeOK, archiveVars
<1>2. CASE WeeklyPublishes
  <2>1. Staged \in Weekly
    BY <1>2 DEF WeeklyPublishes, StagedIsWhole
  <2>2. status' \in [Objects -> Statuses]
    BY <1>2, <2>1, Kinds, NewStatus DEF Statuses, WeeklyPublishes
  <2> QED
    BY <1>2, <2>1, <2>2 DEF TypeOK, WeeklyPublishes, archiveVars
<1>3. CASE WeeklyEnds
  <2>1. status' \in [Objects -> Statuses]
    BY <1>3 DEF TypeOK, WeeklyEnds, Statuses
  <2>2. count' \in [troubles : 0..MaxTroubles, freezes : 0..MaxFreezes]
    BY <1>3, TroubleCounted DEF TypeOK, WeeklyEnds
  <2> QED
    BY <1>3, <2>1, <2>2 DEF TypeOK, WeeklyEnds, archiveVars
<1>4. CASE Sync \/ PipelinePublishes
  <2>1. PICK g \in Weekly \cup Pipeline, promote \in BOOLEAN :
          Publishes(g, promote) /\ (promote => g \in Weekly)
    BY <1>4, SyncDoes, PipelineDoes
  <2>2. status' \in [Objects -> Statuses] /\ g \in Objects
    BY <2>1, Kinds, NewStatus DEF Statuses, Publishes
  <2> QED
    BY <2>1, <2>2 DEF TypeOK, Publishes, archiveVars
<1>5. CASE CreateBootstrap
  <2>1. boot' \in [source : Pipeline \cup {0}, status : AfterCheckpoint \cup {"none", "auto_stopped"}]
    BY <1>5 DEF CreateBootstrap, AfterCheckpoint
  <2> QED
    BY <1>5, <2>1 DEF TypeOK, CreateBootstrap, archiveVars
<1>6. CASE WindowBegins \/ WindowEnds
  <2>1. boot' \in [source : Pipeline \cup {0}, status : AfterCheckpoint \cup {"none", "auto_stopped"}]
    BY <1>6, BootChanges DEF WindowBegins, WindowEnds, AfterCheckpoint
  <2>2. count' \in [troubles : 0..MaxTroubles, freezes : 0..MaxFreezes]
    BY <1>6, TroubleCounted DEF TypeOK, WindowBegins, WindowEnds
  <2> QED
    BY <1>6, <2>1, <2>2 DEF TypeOK, WindowBegins, WindowEnds, archiveVars
<1>7. CASE WindowPublishes
  <2>1. PICK s \in Snapshots, as \in AfterCheckpoint :
          /\ status' = [status EXCEPT ![s] = "success"] /\ internal' = internal \cup {s}
          /\ source' = [source EXCEPT ![s] = boot.source] /\ serving' = s
          /\ boot' = [boot EXCEPT !.status = as]
          /\ writer' = "free" /\ launch' = TRUE
          /\ UNCHANGED <<refs, active, base, archiveVars, frozen, mounted, count>>
    BY <1>7, WindowPublishesDoes
  <2>2. boot' \in [source : Pipeline \cup {0}, status : AfterCheckpoint \cup {"none", "auto_stopped"}]
    BY <2>1, BootChanges
  <2>3. source' \in [Snapshots -> Pipeline \cup {0}]
    <3>1. boot.source \in Pipeline \cup {0}
      BY DEF TypeOK
    <3> QED
      BY <2>1, <3>1 DEF TypeOK
  <2>4. status' \in [Objects -> Statuses] /\ s \in Objects
    BY <2>1, Kinds, NewStatus DEF Statuses
  <2> QED
    BY <2>1, <2>2, <2>3, <2>4 DEF TypeOK, archiveVars
<1>8. CASE Freeze
  <2>1. count' \in [troubles : 0..MaxTroubles, freezes : 0..MaxFreezes]
    BY <1>8, ArchiveAssumption DEF TypeOK, Freeze
  <2>2. frozen' \subseteq Objects
    BY <1>8, Kinds DEF TypeOK, Freeze
  <2> QED
    BY <1>8, <2>1, <2>2 DEF TypeOK, Freeze, catalogVars, archiveVars
<1>9. CASE MountOrUnmount
  <2>1. count' \in [troubles : 0..MaxTroubles, freezes : 0..MaxFreezes]
    BY <1>9, ArchiveAssumption DEF TypeOK, MountOrUnmount
  <2> QED
    BY <1>9, <2>1 DEF TypeOK, MountOrUnmount, catalogVars, archiveVars
<1>10. CASE FileStep \/ Granted \/ Registers \/ Deletes
  <2>1. file' \in [Objects -> FileRow] /\ arch' \in ArchRow
    BY <1>10 DEF FileStep, Granted, Registers, Deletes, GoesOn, Saves, GivesUp, Moves, FileIs
  <2>2. /\ boot' \in [source : Pipeline \cup {0}, status : AfterCheckpoint \cup {"none", "auto_stopped"}]
        /\ internal' \subseteq Objects /\ registered' \subseteq Objects
        /\ writer' \in {"free", "weekly", "qogita", "archive"}
    BY <1>10 DEF FileStep, Granted, Registers, Deletes, NoBoot, TypeOK, ArchiveKnows
  <2> QED
    BY <1>10, <2>1, <2>2 DEF TypeOK, FileStep, Granted, Registers, Deletes, Untouched, FileRow, ArchRow
<1>11. CASE Begin \/ AlreadyRunning \/ Die
  <2>1. arch' \in ArchRow
    BY <1>11, BeginDoes, Typed DEF Starts, AlreadyRunning, Die, archiveVars
  <2>2. count' \in [troubles : 0..MaxTroubles, freezes : 0..MaxFreezes]
    BY <1>11, TroubleCounted DEF TypeOK, Begin, AlreadyRunning, Die
  <2>3. writer' \in {"free", "weekly", "qogita", "archive"} /\ launch' \in BOOLEAN
    BY <1>11 DEF TypeOK, Begin, AlreadyRunning, Die, Free
  <2>4. UNCHANGED <<catalogVars, registered, file, frozen, mounted>>
    BY <1>11 DEF Begin, AlreadyRunning, Die, archiveVars
  <2> QED
    BY <2>1, <2>2, <2>3, <2>4 DEF TypeOK, catalogVars, ArchRow
<1>12. CASE UNCHANGED vars
  BY <1>12 DEF TypeOK, vars, catalogVars, archiveVars
<1> QED
  BY <1>1, <1>2, <1>3, <1>4, <1>5, <1>6, <1>7, <1>8, <1>9, <1>10, <1>11, <1>12, Steps DEF WriterStep

(***************************************************************************)
(* The writers, by what the parts of the invariant are about.               *)
(***************************************************************************)
\* No writer touches the archive's own state.
LEMMA WritersKeepArchive ==
    ASSUME WriterStep
    PROVE  UNCHANGED archiveVars
<1> QED
  BY DEF WriterStep, WeeklyBegins, WeeklyPublishes, WeeklyEnds, Sync, PipelinePublishes,
         CreateBootstrap, WindowBegins, WindowPublishes, WindowEnds

\* A writer adds a new object, or turns a begun one into another state.
Begins(x, as) ==
    /\ x \in Objects /\ status[x] = "none" /\ as \in {"running", "success"}
    /\ status' = [status EXCEPT ![x] = as] /\ internal' = internal \cup {x}

LEMMA WritersAdd ==
    ASSUME IInv, WriterStep
    PROVE  \/ /\ \E x \in Objects, as \in {"running", "success"} : Begins(x, as)
              /\ WeeklyBegins \/ Sync \/ PipelinePublishes \/ WindowPublishes
           \/ /\ writer = "weekly" /\ internal' = internal
              /\ \E as \in {"running", "failed", "success"} :
                    status' = [status EXCEPT ![Staged] = as]
              /\ WeeklyPublishes \/ WeeklyEnds
           \/ /\ UNCHANGED <<status, internal>>
              /\ CreateBootstrap \/ WindowBegins \/ WindowEnds
<1> USE DEF IInv
<1>1. CASE WeeklyBegins \/ Sync \/ PipelinePublishes \/ WindowPublishes
  <2>1. \E x \in Weekly \cup Pipeline \cup Snapshots, as \in {"running", "success"} :
          status[x] = "none" /\ status' = [status EXCEPT ![x] = as] /\ internal' = internal \cup {x}
    BY <1>1, WeeklyBeginsDoes, SyncDoes, PipelineDoes, WindowPublishesDoes DEF Publishes
  <2> QED
    BY <1>1, <2>1, Kinds DEF Begins
<1>2. CASE WeeklyPublishes
  BY <1>2 DEF WeeklyPublishes
<1>3. CASE WeeklyEnds
  <2>1. CASE UNCHANGED status
    <3>1. status[Staged] = "running" /\ Staged \in Objects
      BY <1>3, Kinds DEF WeeklyEnds, StagedIsWhole
    <3>2. status' = [status EXCEPT ![Staged] = "running"]
      BY <2>1, <3>1 DEF TypeOK
    <3> QED
      BY <1>3, <3>2 DEF WeeklyEnds
  <2> QED
    BY <1>3, <2>1 DEF WeeklyEnds
<1>4. CASE CreateBootstrap \/ WindowBegins \/ WindowEnds
  BY <1>4 DEF CreateBootstrap, WindowBegins, WindowEnds
<1> QED
  BY <1>1, <1>2, <1>3, <1>4 DEF WriterStep

\* The steps of the archive leave the catalog as it is, the deletion excepted.
LEMMA ArchiveKeepsCatalog ==
    ASSUME FileStep \/ Granted \/ Registers \/ Deletes \/ Aside
    PROVE  /\ UNCHANGED <<status, refs, source, active, serving, base>>
           /\ UNCHANGED <<internal, boot>> \/ Deletes
           /\ UNCHANGED registered \/ Registers
<1> QED
  BY DEF FileStep, Granted, Registers, Deletes, Aside, Untouched, catalogVars

LEMMA NoneLost ==
    ASSUME IInv, [Next]_vars
    PROVE  NothingLost'
<1> USE DEF IInv
<1>1. CASE WriterStep
  <2>1. registered' = registered
    BY <1>1, WritersKeepArchive DEF archiveVars
  <2>2. CASE \E x \in Objects, as \in {"running", "success"} : Begins(x, as)
    BY <2>1, <2>2, NewStatus DEF NothingLost, Begins, Statuses
  <2>3. CASE /\ writer = "weekly" /\ internal' = internal
             /\ \E as \in {"running", "failed", "success"} : status' = [status EXCEPT ![Staged] = as]
    <3>1. Staged \in Objects /\ Staged \in internal
      BY <2>3, Kinds DEF StagedIsWhole
    <3>2. \A x \in Objects : x # Staged => status'[x] = status[x]
      BY <2>3, <3>1 DEF TypeOK
    <3> QED
      BY <2>1, <2>3, <3>1, <3>2 DEF NothingLost
  <2>4. CASE UNCHANGED <<status, internal>>
    BY <2>1, <2>4 DEF NothingLost
  <2> QED
    BY <1>1, <2>2, <2>3, <2>4, WritersAdd
<1>2. CASE FileStep \/ Granted \/ Aside
  BY <1>2 DEF FileStep, Granted, Aside, Untouched, catalogVars, NothingLost
<1>3. CASE Registers
  BY <1>3 DEF Registers, Untouched, NothingLost
<1>4. CASE Deletes
  <2>1. obj \in registered
    BY <1>4 DEF Deletes, ArchiveKnows, AfterRegister
  <2> QED
    BY <1>4, <2>1 DEF Deletes, Untouched, NothingLost
<1> QED
  BY <1>1, <1>2, <1>3, <1>4, NextDoes

LEMMA StepUnstarted ==
    ASSUME IInv, [Next]_vars
    PROVE  Unstarted'
<1> USE DEF IInv
<1>1. \A x \in Objects : status[x] # "none" => status'[x] # "none"
  <2>1. CASE WriterStep
    <3>1. CASE \E x \in Objects, as \in {"running", "success"} : Begins(x, as)
      BY <3>1, NewStatus DEF Begins, Statuses
    <3>2. CASE /\ writer = "weekly" /\ internal' = internal
               /\ \E as \in {"running", "failed", "success"} : status' = [status EXCEPT ![Staged] = as]
      <4>1. Staged \in Objects
        BY <3>2, Kinds DEF StagedIsWhole
      <4> QED
        BY <3>2, <4>1, NewStatus DEF Statuses
    <3> QED
      BY <2>1, <3>1, <3>2, WritersAdd
  <2> QED
    BY <2>1, ArchiveKeepsCatalog, NextDoes
<1>2. \A x \in Objects : status'[x] = "none" => x \notin internal' \cup registered'
  <2>1. CASE WriterStep
    <3>1. registered' = registered
      BY <2>1, WritersKeepArchive DEF archiveVars
    <3>2. CASE \E x \in Objects, as \in {"running", "success"} : Begins(x, as)
      BY <1>1, <3>1, <3>2, NewStatus DEF Begins, Statuses, Unstarted
    <3>3. CASE internal' = internal
      BY <1>1, <3>1, <3>3 DEF Unstarted
    <3> QED
      BY <2>1, <3>2, <3>3, WritersAdd
  <2>2. CASE Registers
    <3>1. obj \in internal
      BY <2>2 DEF Registers, ArchiveKnows
    <3> QED
      BY <2>2, <3>1 DEF Registers, Untouched, Unstarted
  <2>3. CASE Deletes
    BY <2>3 DEF Deletes, Untouched, Unstarted
  <2> QED
    BY <2>1, <2>2, <2>3, ArchiveKeepsCatalog, NextDoes DEF Unstarted
<1>3. /\ \A g \in Weekly : status'[g] = "none" => refs'[g] = {}
      /\ \A g, h \in Weekly : status'[g] # "none" /\ status'[h] = "none" => g < h
  <2>1. CASE WeeklyBegins \/ Sync
    <3>1. PICK g \in Weekly :
            /\ status[g] = "none" /\ \A h \in Weekly : status[h] = "none" => g <= h
            /\ \E as \in {"running", "success"} : status' = [status EXCEPT ![g] = as]
            /\ \A h \in Weekly : h # g => refs'[h] = refs[h]
      BY <2>1, WeeklyBeginsDoes, SyncDoes DEF Publishes, TypeOK
    <3>2. g \in Nat /\ Weekly \subseteq Nat /\ g \in Objects
      BY Ids, Kinds
    <3>3. /\ status'[g] # "none"
          /\ \A h \in Weekly : h # g => status'[h] = status[h]
      BY <3>1, <3>2, Kinds, NewStatus DEF Statuses
    <3>4. ASSUME NEW h \in Weekly, status'[h] = "none"
          PROVE  g < h
      <4>1. h # g /\ status[h] = "none" /\ h \in Nat
        BY <3>2, <3>3, <3>4
      <4>2. g <= h
        BY <3>1, <4>1
      <4> QED
        BY <3>2, <4>1, <4>2
    <3> QED
      BY <3>1, <3>3, <3>4 DEF Unstarted
  <2>2. CASE WriterStep /\ ~(WeeklyBegins \/ Sync)
    <3>1. /\ refs' = refs
          /\ \A g \in Weekly : (status'[g] = "none") = (status[g] = "none")
      <4>1. CASE PipelinePublishes
        BY <4>1, PipelineDoes, Kinds, NewStatus DEF Publishes, Statuses
      <4>2. CASE WindowPublishes
        BY <4>2, WindowPublishesDoes, Kinds, NewStatus DEF Statuses
      <4>3. CASE WeeklyPublishes \/ WeeklyEnds
        <5>1. Staged \in Weekly /\ status[Staged] = "running" /\ refs' = refs
          BY <4>3 DEF StagedIsWhole, WeeklyPublishes, WeeklyEnds
        <5> QED
          BY <4>3, <5>1, Kinds, NewStatus DEF Statuses, WeeklyPublishes, WeeklyEnds
      <4>4. CASE CreateBootstrap \/ WindowBegins \/ WindowEnds
        BY <4>4 DEF CreateBootstrap, WindowBegins, WindowEnds
      <4> QED
        BY <2>2, <4>1, <4>2, <4>3, <4>4 DEF WriterStep
    <3> QED
      BY <3>1 DEF Unstarted
  <2> QED
    BY <2>1, <2>2, ArchiveKeepsCatalog, NextDoes DEF Unstarted
<1> QED
  BY <1>2, <1>3 DEF Unstarted

(***************************************************************************)
(* The writers' parts.                                                       *)
(***************************************************************************)
LEMMA StepStaged ==
    ASSUME IInv, [Next]_vars
    PROVE  StagedIsWhole'
<1> USE DEF IInv
<1> SUFFICES ASSUME writer' = "weekly"
             PROVE  (/\ Staged \in Weekly /\ status[Staged] = "running"
                     /\ {Staged} \cup refs[Staged] \subseteq internal \ registered)'
  BY DEF StagedIsWhole
<1>1. CASE WeeklyBegins
  <2>1. PICK g \in Weekly :
             /\ status[g] = "none" /\ \A h \in Weekly : status[h] = "none" => g <= h
             /\ status' = [status EXCEPT ![g] = "running"] /\ internal' = internal \cup {g}
             /\ \E sources \in SUBSET (refs[active] \cup {active}) : refs' = [refs EXCEPT ![g] = sources]
             /\ registered' = registered
    BY <1>1, WeeklyBeginsDoes DEF archiveVars
  <2>2. g \in Objects /\ Weekly \subseteq Nat /\ Weekly \subseteq Objects
    BY Kinds, Ids
  <2>3. status'[g] = "running" /\ \A h \in Weekly : h # g => status'[h] = status[h]
    BY <2>1, <2>2, NewStatus DEF Statuses
  <2>4. \A h \in Weekly : status'[h] = "running" => h <= g
    <3>1. SUFFICES ASSUME NEW h \in Weekly, h # g, status[h] = "running"
                   PROVE  h <= g
      BY <2>2, <2>3
    <3>2. h < g
      BY <2>1, <3>1 DEF Unstarted
    <3> QED
      BY <2>2, <3>2
  <2>5. Staged' = g
    <3> DEFINE R == {h \in Weekly : status'[h] = "running"}
    <3>1. g \in R /\ \A h \in R : g >= h
      BY <2>2, <2>3, <2>4
    <3>2. \A m \in R : (\A h \in R : m >= h) => m = g
      <4>1. SUFFICES ASSUME NEW m \in R, \A h \in R : m >= h
                     PROVE  m = g
        OBVIOUS
      <4>2. m >= g /\ g >= m /\ m \in Nat /\ g \in Nat
        BY <2>2, <3>1, <4>1
      <4> QED
        BY <4>2
    <3> HIDE DEF R
    <3>3. Max(R) = g
      BY <3>1, <3>2 DEF Max
    <3> QED
      BY <3>3 DEF Staged, R
  <2>6. {active} \cup refs[active] \subseteq internal \ registered
    BY DEF PointersStayInternal, ActiveStaysInternal, PointersUnregistered, Archived
  <2>7. refs'[g] \subseteq refs[active] \cup {active} /\ g \notin registered
    BY <2>1, <2>2 DEF TypeOK, Unstarted
  <2> QED
    BY <2>1, <2>2, <2>3, <2>5, <2>6, <2>7
<1>2. CASE writer = "weekly" /\ (Sync \/ PipelinePublishes)
  <2>1. PICK g \in Weekly \cup Pipeline, promote \in BOOLEAN : Publishes(g, promote)
    BY <1>2, SyncDoes, PipelineDoes
  <2>2. g \in Objects
    BY Kinds
  <2>3. status'[g] = "success" /\ \A y \in Objects : y # g => status'[y] = status[y]
    BY <2>1, <2>2, NewStatus DEF Statuses, Publishes
  <2>4. \A h \in Weekly : (status'[h] = "running") = (status[h] = "running")
    BY <2>1, <2>3, Kinds DEF Publishes
  <2>5. Staged' = Staged
    BY <2>4 DEF Staged
  <2> QED
    BY <1>2, <2>1, <2>4, <2>5 DEF StagedIsWhole, Publishes, archiveVars
<1>3. CASE writer = "weekly" /\ CreateBootstrap
  BY <1>3 DEF CreateBootstrap, StagedIsWhole, Staged, archiveVars
<1>4. CASE WriterStep /\ ~(WeeklyBegins \/ Sync \/ PipelinePublishes \/ CreateBootstrap)
  BY <1>4 DEF WriterStep, WeeklyPublishes, WeeklyEnds, WindowBegins, WindowPublishes, WindowEnds
<1>5. CASE WriterStep /\ writer # "weekly" /\ ~WeeklyBegins
  BY <1>5 DEF WriterStep, Sync, PipelinePublishes, CreateBootstrap, WeeklyPublishes, WeeklyEnds,
              WindowBegins, WindowPublishes, WindowEnds
<1>6. CASE FileStep \/ Aside
  <2>1. /\ writer = "weekly"
        /\ UNCHANGED <<status, refs, internal, registered>>
    BY <1>6 DEF FileStep, Aside, Untouched, catalogVars, Starts, Free
  <2> QED
    BY <2>1 DEF StagedIsWhole, Staged
<1>7. CASE Granted \/ Registers \/ Deletes
  BY <1>7 DEF Granted, Registers, Deletes
<1> QED
  BY <1>1, <1>2, <1>3, <1>4, <1>5, <1>6, <1>7, NextDoes

LEMMA StepUnregistered ==
    ASSUME IInv, [Next]_vars
    PROVE  PointersUnregistered'
<1> USE DEF IInv
<1> DEFINE needed == {active} \cup refs[active]
<1>1. active \in Weekly /\ active \in Objects /\ status[active] # "none"
  BY Kinds DEF TypeOK, Unstarted, PointersStayInternal, ActiveStaysInternal
<1>2. CASE WriterStep
  <2>1. Archived' = Archived /\ registered' = registered
    BY <1>2, WritersKeepArchive DEF archiveVars, Archived, obj
  <2>2. CASE WeeklyBegins
    BY <1>1, <2>1, <2>2, WeeklyBeginsDoes DEF PointersUnregistered, TypeOK
  <2>3. CASE WeeklyPublishes
    <3>1. /\ active' = Staged /\ refs' = refs /\ writer = "weekly"
      BY <2>3 DEF WeeklyPublishes
    <3>2. arch.pc # "register"
      BY <3>1 DEF ArchiveKnows
    <3> QED
      BY <2>1, <3>1, <3>2 DEF PointersUnregistered, StagedIsWhole, Archived
  <2>4. CASE Sync
    <3>1. PICK g \in Weekly, promote \in BOOLEAN : Publishes(g, promote)
      BY <2>4, SyncDoes
    <3>2. refs' = refs /\ refs[g] = {} /\ g \notin internal \cup registered
      BY <3>1, Kinds DEF Publishes, Unstarted
    <3>3. g \notin Archived
      BY <3>2 DEF Archived, ArchiveKnows
    <3>4. active' = g \/ active' = active
      BY <3>1 DEF Publishes
    <3> QED
      BY <2>1, <3>2, <3>3, <3>4 DEF PointersUnregistered
  <2>5. CASE ~(WeeklyBegins \/ WeeklyPublishes \/ Sync)
    <3>1. UNCHANGED <<active, refs>>
      BY <1>2, <2>5 DEF WriterStep, WeeklyEnds, PipelinePublishes, Publish, CreateBootstrap,
                         WindowBegins, WindowPublishes, WindowEnds
    <3> QED
      BY <2>1, <3>1 DEF PointersUnregistered
  <2> QED
    BY <2>2, <2>3, <2>4, <2>5
<1>3. CASE FileStep \/ Aside \/ Deletes
  <2>1. UNCHANGED <<active, refs, registered>>
    BY <1>3 DEF FileStep, Aside, Deletes, Untouched, catalogVars
  <2>2. arch'.pc = "register" => arch'.pc = arch.pc /\ arch'.object = arch.object
    BY <1>3 DEF FileStep, Aside, Deletes, Saves, GoesOn, GivesUp, Moves, Starts, Down
  <2> QED
    BY <2>1, <2>2 DEF PointersUnregistered, Archived, obj
<1>4. CASE Granted
  <2>1. obj \notin needed
    BY <1>4 DEF Granted, Candidates, Protected
  <2>2. arch'.object = obj
    BY <1>4 DEF Granted, GoesOn, Moves
  <2> QED
    BY <1>4, <2>1, <2>2 DEF Granted, Untouched, PointersUnregistered, Archived, obj
<1>5. CASE Registers
  <2>1. obj \notin needed
    BY <1>5 DEF Registers, PointersUnregistered, Archived
  <2>2. arch'.pc = "saveRepointed"
    BY <1>5 DEF Registers, GoesOn, Moves
  <2> QED
    BY <1>5, <2>1, <2>2 DEF Registers, Untouched, PointersUnregistered, Archived
<1> QED
  BY <1>2, <1>3, <1>4, <1>5, NextDoes

LEMMA StepBoot ==
    ASSUME IInv, [Next]_vars
    PROVE  BootIsInternal'
<1> USE DEF IInv
<1>1. CASE WriterStep
  <2>1. internal \subseteq internal'
    BY <1>1, WritersAdd DEF Begins
  <2>2. CASE WeeklyBegins \/ WeeklyPublishes \/ WeeklyEnds \/ Sync \/ PipelinePublishes
    BY <2>1, <2>2 DEF WeeklyBegins, WeeklyPublishes, WeeklyEnds, Sync, PipelinePublishes, BootIsInternal
  <2>3. CASE CreateBootstrap
    BY <2>3, Kinds DEF CreateBootstrap, BootIsInternal
  <2>4. CASE WindowBegins \/ WindowEnds
    <3>1. boot'.source = boot.source
      BY <2>4, BootChanges DEF WindowBegins, WindowEnds, AfterCheckpoint
    <3> QED
      BY <2>1, <2>4, <3>1 DEF WindowBegins, WindowEnds, BootIsInternal
  <2>5. CASE WindowPublishes
    <3>1. boot'.source = boot.source /\ writer' = "free"
      BY <2>5, WindowPublishesDoes, BootChanges
    <3> QED
      BY <2>1, <3>1 DEF BootIsInternal
  <2> QED
    BY <1>1, <2>2, <2>3, <2>4, <2>5 DEF WriterStep
<1>2. CASE Deletes
  BY <1>2 DEF Deletes, BootIsInternal, NoBoot
<1>3. CASE FileStep \/ Granted \/ Registers \/ Aside
  BY <1>3 DEF FileStep, Granted, Registers, Aside, Starts, Free, Untouched, catalogVars, BootIsInternal
<1> QED
  BY <1>1, <1>2, <1>3, NextDoes

LEMMA StepPointersInternal ==
    ASSUME IInv, [Next]_vars
    PROVE  PointersStayInternal'
<1> USE DEF IInv
<1>1. CASE WriterStep
  <2>1. internal \subseteq internal'
    BY <1>1, WritersAdd DEF Begins
  <2>2. ActiveStaysInternal'
    <3>1. CASE WeeklyBegins
      <4>1. active \in Weekly /\ status[active] # "none"
        BY Kinds DEF TypeOK, Unstarted, PointersStayInternal, ActiveStaysInternal
      <4>2. active' = active /\ refs'[active] = refs[active]
        BY <3>1, <4>1, WeeklyBeginsDoes DEF TypeOK
      <4> QED
        BY <2>1, <4>2 DEF PointersStayInternal, ActiveStaysInternal
    <3>2. CASE WeeklyPublishes
      BY <3>2 DEF WeeklyPublishes, StagedIsWhole, ActiveStaysInternal
    <3>3. CASE Sync
      <4>1. PICK g \in Weekly, promote \in BOOLEAN : Publishes(g, promote)
        BY <3>3, SyncDoes
      <4>2. refs[g] = {} /\ refs' = refs /\ g \in internal'
        BY <4>1 DEF Publishes, Unstarted
      <4> QED
        BY <2>1, <4>1, <4>2 DEF Publishes, PointersStayInternal, ActiveStaysInternal
    <3>4. CASE ~(WeeklyBegins \/ WeeklyPublishes \/ Sync)
      <4>1. UNCHANGED <<active, refs>>
        BY <1>1, <3>4 DEF WriterStep, WeeklyEnds, PipelinePublishes, Publish, CreateBootstrap,
                           WindowBegins, WindowPublishes, WindowEnds
      <4> QED
        BY <2>1, <4>1 DEF PointersStayInternal, ActiveStaysInternal
    <3> QED
      BY <3>1, <3>2, <3>3, <3>4
  <2>3. ServingStaysInternal'
    <3>1. CASE WindowPublishes
      <4>1. PICK s \in Snapshots :
              /\ internal' = internal \cup {s} /\ serving' = s /\ writer = "qogita"
              /\ source' = [source EXCEPT ![s] = boot.source]
        BY <3>1, WindowPublishesDoes
      <4>2. source'[s] = boot.source /\ boot.source \in internal
        BY <4>1 DEF TypeOK, BootIsInternal
      <4> QED
        BY <4>1, <4>2 DEF ServingStaysInternal
    <3>2. CASE ~WindowPublishes
      <4>1. UNCHANGED <<serving, source>>
        BY <1>1, <3>2 DEF WriterStep, WeeklyBegins, WeeklyPublishes, WeeklyEnds, Sync,
                           PipelinePublishes, CreateBootstrap, WindowBegins, WindowEnds
      <4> QED
        BY <2>1, <4>1 DEF PointersStayInternal, ServingStaysInternal
    <3> QED
      BY <3>1, <3>2
  <2> QED
    BY <2>2, <2>3 DEF PointersStayInternal
<1>2. CASE Deletes
  <2>1. /\ UNCHANGED <<refs, source, active, serving>>
        /\ internal' = internal \ {obj} /\ ~Orphans(obj) /\ obj \in registered
    BY <1>2 DEF Deletes, Untouched, ArchiveKnows, AfterRegister
  <2>2. obj \notin {active} \cup refs[active]
    BY <2>1 DEF PointersUnregistered, Archived
  <2>3. serving # 0 => serving # obj /\ source[serving] # obj
    BY <2>1 DEF Orphans, TypeOK, PointersStayInternal, ServingStaysInternal
  <2> QED
    BY <2>1, <2>2, <2>3 DEF PointersStayInternal, ActiveStaysInternal, ServingStaysInternal
<1>3. CASE FileStep \/ Granted \/ Registers \/ Aside
  BY <1>3 DEF FileStep, Granted, Registers, Aside, Untouched, catalogVars, PointersStayInternal,
              ActiveStaysInternal, ServingStaysInternal
<1> QED
  BY <1>1, <1>2, <1>3, NextDoes

(***************************************************************************)
(* The archive's parts.                                                      *)
(***************************************************************************)
LEMMA StepKnows ==
    ASSUME IInv, [Next]_vars
    PROVE  ArchiveKnows'
<1> USE DEF IInv
<1>1. CASE WriterStep
  <2>1. UNCHANGED archiveVars /\ internal \subseteq internal'
    BY <1>1, WritersKeepArchive, WritersAdd DEF Begins
  <2>2. writer = "archive" => writer' = "archive"
    BY <1>1 DEF WriterStep, WeeklyBegins, WeeklyPublishes, WeeklyEnds, Sync, PipelinePublishes,
                CreateBootstrap, WindowBegins, WindowPublishes, WindowEnds
  <2> QED
    BY <2>1, <2>2 DEF archiveVars, ArchiveKnows, obj
<1>2. CASE FileStep
  <2>1. UNCHANGED <<internal, registered, writer>> /\ obj \in Objects
    BY <1>2 DEF FileStep, ArchiveKnows
  <2> QED
    BY <1>2, <2>1 DEF FileStep, Saves, GoesOn, GivesUp, Moves, FileIs, ArchiveKnows, obj,
                      AfterRegister, PastRepoint
<1>3. CASE Granted
  BY <1>3 DEF Granted, GoesOn, Moves, ArchiveKnows, obj, AfterRegister
<1>4. CASE Registers
  BY <1>4 DEF Registers, GoesOn, Moves, ArchiveKnows, obj, AfterRegister
<1>5. CASE Deletes
  BY <1>5 DEF Deletes, Untouched, GoesOn, Moves, FileIs, ArchiveKnows, obj, AfterRegister
<1>6. CASE Aside
  <2>1. UNCHANGED <<internal, registered, file>>
    BY <1>6 DEF Aside, catalogVars
  <2>2. CASE UNCHANGED <<arch, writer>>
    BY <2>1, <2>2 DEF ArchiveKnows, obj
  <2>3. CASE Starts
    BY <2>1, <2>3 DEF Starts, ArchiveKnows, obj, AfterRegister, TypeOK
  <2>4. CASE arch' = Down
    BY <2>4 DEF Down, ArchiveKnows, AfterRegister
  <2> QED
    BY <1>6, <2>2, <2>3, <2>4 DEF Aside
<1> QED
  BY <1>1, <1>2, <1>3, <1>4, <1>5, <1>6, NextDoes

LEMMA StepFile ==
    ASSUME IInv, [Next]_vars
    PROVE  FileKnows' /\ StateFileAgrees'
<1> USE DEF IInv
<1>1. CASE WriterStep
  <2>1. UNCHANGED archiveVars
    BY <1>1, WritersKeepArchive
  <2>2. \A x \in registered \ internal' : x \in registered \ internal
    BY <1>1, WritersAdd DEF Begins
  <2> QED
    BY <2>1, <2>2 DEF archiveVars, FileKnows, StateFileAgrees
<1>2. CASE FileStep
  <2>1. UNCHANGED <<internal, registered>> /\ obj \in Objects
    BY <1>2 DEF FileStep, ArchiveKnows
  <2>2. /\ \A x \in Objects : x # obj => file'[x] = file[x]
        /\ file'[obj].resume \in {file[obj].resume, arch.at}
    BY <1>2 DEF FileStep, Saves, GoesOn, GivesUp, Moves, FileIs
  <2>3. FileKnows'
    <3>1. arch.at \in PastRepoint => obj \in registered
      BY <1>2 DEF FileStep, ArchiveKnows
    <3> QED
      BY <2>1, <2>2, <3>1 DEF FileKnows
  <2>4. file'[obj].state \in {"REPOINTED", "INTERNAL_CLEANUP", "ARCHIVED"} => obj \in registered
    BY <1>2 DEF FileStep, Saves, GoesOn, GivesUp, Moves, FileIs, ArchiveKnows, AfterRegister,
                StateFileAgrees
  <2>5. obj \notin internal => file'[obj].state = "ARCHIVED"
    BY <1>2 DEF FileStep, Saves, GoesOn, GivesUp, Moves, FileIs, ArchiveKnows
  <2>6. StateFileAgrees'
    <3>1. registered \subseteq Objects
      BY DEF TypeOK
    <3> QED
      BY <2>1, <2>2, <2>4, <2>5, <3>1 DEF StateFileAgrees
  <2> QED
    BY <2>3, <2>6
<1>3. CASE Granted \/ Registers \/ Deletes
  <2>1. obj \in Objects /\ arch.pc # "down"
    BY <1>3 DEF Granted, Registers, Deletes, ArchiveKnows
  <2>2. \A x \in Objects : file'[x].state = file[x].state /\ file'[x].resume = file[x].resume
    BY <1>3, <2>1 DEF Granted, Registers, Deletes, GoesOn, Moves, FileIs
  <2>3. registered \subseteq registered' /\ registered' \subseteq Objects
    BY <1>3, <2>1 DEF Granted, Registers, Deletes, TypeOK
  <2>4. \A x \in registered' \ internal' : x \in registered \ internal \/ (x = obj /\ Deletes)
    BY <1>3 DEF Granted, Registers, Deletes, ArchiveKnows
  <2>5. Deletes => file[obj].state = "INTERNAL_CLEANUP"
    BY DEF Deletes, ArchiveKnows
  <2> QED
    BY <2>2, <2>3, <2>4, <2>5 DEF FileKnows, StateFileAgrees
<1>4. CASE Aside
  BY <1>4 DEF Aside, catalogVars, FileKnows, StateFileAgrees
<1> QED
  BY <1>1, <1>2, <1>3, <1>4, NextDoes

LEMMA InitIInv == Init => IInv
<1> SUFFICES ASSUME Init
             PROVE  IInv
  OBVIOUS
<1> DEFINE first == Min(Weekly)
<1>1. first \in Weekly /\ first \in Objects /\ \A g \in Weekly : first <= g
  BY FirstWeekly, Kinds
<1>2. Weekly \subseteq Nat
  BY Ids, Kinds
<1>3. /\ internal = {first} /\ active = first /\ registered = {} /\ serving = 0 /\ writer = "free"
      /\ refs = [g \in Weekly |-> {}]
      /\ \A x \in Objects : status[x] = IF x = first THEN "success" ELSE "none"
      /\ \A x \in Objects : file[x].state = "INTERNAL" /\ file[x].resume = "COPIED"
      /\ arch.pc = "down" /\ boot.source = 0
  BY DEF Init, Down, NoBoot
<1> HIDE DEF first
<1>4. Unstarted
  <2>1. ASSUME NEW g \in Weekly, NEW h \in Weekly, status[g] # "none", status[h] = "none"
        PROVE  g < h
    <3>1. g = first /\ h # first /\ first <= h /\ g \in Nat /\ h \in Nat
      BY <1>1, <1>2, <1>3, <2>1, Kinds
    <3> QED
      BY <3>1
  <2> QED
    BY <1>1, <1>3, <2>1, Kinds DEF Unstarted
<1>5. NothingLost /\ PointersStayInternal /\ StateFileAgrees
  BY <1>1, <1>3 DEF NothingLost, PointersStayInternal, ActiveStaysInternal, ServingStaysInternal,
                    StateFileAgrees
<1>6. StagedIsWhole /\ PointersUnregistered /\ BootIsInternal /\ ArchiveKnows /\ FileKnows
  BY <1>3 DEF StagedIsWhole, PointersUnregistered, Archived, BootIsInternal, ArchiveKnows,
              AfterRegister, FileKnows, PastRepoint
<1> QED
  BY <1>4, <1>5, <1>6, InitTypeOK DEF IInv

LEMMA Inductive == Spec => []IInv
<1>1. IInv /\ [Next]_vars => IInv'
  <2> SUFFICES ASSUME IInv, [Next]_vars
               PROVE  IInv'
    OBVIOUS
  <2> QED
    BY StepTypeOK, NoneLost, StepPointersInternal, StepFile, StepUnstarted, StepStaged,
       StepUnregistered, StepBoot, StepKnows DEF IInv
<1> QED
  BY InitIInv, <1>1, PTL DEF Spec

(***************************************************************************)
(* Every variable keeps its type.                                            *)
(***************************************************************************)
THEOREM ArchiveTypeCorrect == Spec => []TypeOK
<1>1. IInv => TypeOK
  BY DEF IInv
<1> QED
  BY Inductive, <1>1, PTL

(***************************************************************************)
(* A complete object is internal or in its registered segment: rows are     *)
(* deleted only after their record, at whatever step the process died.       *)
(***************************************************************************)
THEOREM ArchiveLosesNothing == Spec => []NothingLost
<1>1. IInv => NothingLost
  BY DEF IInv
<1> QED
  BY Inductive, <1>1, PTL

(***************************************************************************)
(* What the two pointers of the catalog need stays in the internal database: *)
(* the active generation with the sources of its rows, by the check under    *)
(* the lock; the serving snapshot with its source, by the foreign keys.      *)
(***************************************************************************)
THEOREM ArchiveKeepsPointers == Spec => []PointersStayInternal
<1>1. IInv => PointersStayInternal
  BY DEF IInv
<1> QED
  BY Inductive, <1>1, PTL

(***************************************************************************)
(* The state file, by which alone a process resumes, never runs ahead of the *)
(* database.                                                                 *)
(***************************************************************************)
THEOREM ArchiveFileAgrees == Spec => []StateFileAgrees
<1>1. IInv => StateFileAgrees
  BY DEF IInv
<1> QED
  BY Inductive, <1>1, PTL

================================================================================
