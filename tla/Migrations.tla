----------------------------- MODULE Migrations -----------------------------
(***************************************************************************)
(* Runs of runMigrations against one database: npm run db:migrate of two   *)
(* deployments, or the call of a script beside the main() that importing   *)
(* the module starts.  A run applies the .sql files in the order of their  *)
(* names and records each in schema_migration with its checksum.           *)
(*                                                                         *)
(* Each file brings its own BEGIN and COMMIT, so it is committed before    *)
(* the INSERT that withTransaction meant to commit with it: the two are    *)
(* separate steps.  The guards in the files (IF NOT EXISTS, ON CONFLICT,   *)
(* duplicate_object) make it harmless to apply one again, but a statement  *)
(* that overlaps the same statement of another run does not see what that  *)
(* run creates and may fail on a unique index of the system catalog.       *)
(***************************************************************************)
EXTENDS Integers

CONSTANTS
    Runs,           \* calls of runMigrations
    NumFiles,       \* files, in the order of their names
    MaxCrashes,     \* bound on crashes and broken connections
    SharedFate      \* the runs are in one process, which one rejection ends

ASSUME MigrationAssumption ==
    /\ Runs # {}
    /\ NumFiles \in Nat \ {0}
    /\ MaxCrashes \in Nat
    /\ SharedFate \in BOOLEAN

Files    == 1 .. NumFiles
Versions == 1 .. 2      \* what a file says, before and after it is edited
None     == 0

VARIABLES
    disk,           \* the version of each file in the schema directory
    tableExists,    \* schema_migration
    applied,        \* versions of each file that were committed
    recorded,       \* the row of each file in schema_migration, or None
    pc,             \* the await each run is at
    file,           \* the file it is at
    version,        \* what it read of it, which the checksum stands for
    saw,            \* its statement has seen what it is to create
    crashes

database == <<tableExists, applied, recorded>>
locals   == <<file, version, saw>>
vars     == <<disk, database, pc, locals, crashes>>

Ended == {"idle", "done", "failed"}
Steps == Ended \cup {"create_table", "read_file", "select", "begin", "apply", "record"}

Init ==
    /\ disk = [f \in Files |-> 1]
    /\ tableExists = FALSE
    /\ applied = [f \in Files |-> {}]
    /\ recorded = [f \in Files |-> None]
    /\ pc = [r \in Runs |-> "idle"]
    /\ file = [r \in Runs |-> 1]
    /\ version = [r \in Runs |-> None]
    /\ saw = [r \in Runs |-> FALSE]
    /\ crashes = 0

-----------------------------------------------------------------------------
At(r, step)   == pc[r] = step
GoTo(r, step) == pc' = [pc EXCEPT ![r] = step]

\* The run throws.  In a script it rejects main() or its unawaited twin, and
\* the unhandled rejection ends the process with the other run in it.
Throw(r) ==
    pc' = IF SharedFate THEN [q \in Runs |-> "failed"] ELSE [pc EXCEPT ![r] = "failed"]

\* The loop goes on to the next file, or is over.
NextFile(r) ==
    IF file[r] < NumFiles
    THEN GoTo(r, "read_file") /\ file' = [file EXCEPT ![r] = @ + 1]
    ELSE GoTo(r, "done") /\ UNCHANGED file

\* A developer edits a file; bound: once.
Edit(f) ==
    /\ disk[f] = 1
    /\ disk' = [disk EXCEPT ![f] = 2]
    /\ UNCHANGED <<database, pc, locals, crashes>>

\* A run starts, or is started again after it failed, and sends CREATE TABLE
\* IF NOT EXISTS.
Start(r) ==
    /\ pc[r] \in {"idle", "failed"}
    /\ GoTo(r, "create_table")
    /\ file' = [file EXCEPT ![r] = 1]
    /\ version' = [version EXCEPT ![r] = None]
    /\ saw' = [saw EXCEPT ![r] = tableExists]
    /\ UNCHANGED <<disk, database, crashes>>

CreateTable(r) ==
    /\ At(r, "create_table")
    /\ tableExists' = TRUE
    /\ GoTo(r, "read_file")
    /\ UNCHANGED <<disk, applied, recorded, locals, crashes>>

\* Two such statements overlap: the later one fails on the catalog.
CreateCollides(r) ==
    /\ At(r, "create_table")
    /\ tableExists /\ ~saw[r]
    /\ Throw(r)
    /\ UNCHANGED <<disk, database, locals, crashes>>

ReadFile(r) ==
    /\ At(r, "read_file")
    /\ version' = [version EXCEPT ![r] = disk[file[r]]]
    /\ GoTo(r, "select")
    /\ UNCHANGED <<disk, database, file, saw, crashes>>

\* Variant: a file without a row is skipped like a recorded one.
SkipAny(r) ==
    /\ At(r, "select")
    /\ NextFile(r)
    /\ UNCHANGED <<disk, database, version, saw, crashes>>

\* The file is recorded as it is: nothing to do.
SkipRecorded(r) ==
    /\ At(r, "select")
    /\ recorded[file[r]] = version[r]
    /\ NextFile(r)
    /\ UNCHANGED <<disk, database, version, saw, crashes>>

\* Variant: a file without a row has the wrong checksum.
MismatchOrMissing(r) ==
    /\ At(r, "select")
    /\ recorded[file[r]] # version[r]
    /\ Throw(r)
    /\ UNCHANGED <<disk, database, locals, crashes>>

\* The file has been edited since it was recorded.
ChecksumMismatch(r) ==
    /\ At(r, "select")
    /\ recorded[file[r]] \notin {None, version[r]}
    /\ Throw(r)
    /\ UNCHANGED <<disk, database, locals, crashes>>

NotRecorded(r) ==
    /\ At(r, "select")
    /\ recorded[file[r]] = None
    /\ GoTo(r, "begin")
    /\ UNCHANGED <<disk, database, locals, crashes>>

\* withTransaction sends the file.
BeginFile(r) ==
    /\ At(r, "begin")
    /\ saw' = [saw EXCEPT ![r] = applied[file[r]] # {}]
    /\ GoTo(r, "apply")
    /\ UNCHANGED <<disk, database, file, version, crashes>>

\* The COMMIT at the end of the file.
CommitFile(r) ==
    /\ At(r, "apply")
    /\ applied' = [applied EXCEPT ![file[r]] = @ \cup {version[r]}]
    /\ GoTo(r, "record")
    /\ UNCHANGED <<disk, tableExists, recorded, locals, crashes>>

\* Variant: the statements of a file have no guards.
FileCollidesAlways(r) ==
    /\ At(r, "apply")
    /\ applied[file[r]] # {}
    /\ Throw(r)
    /\ UNCHANGED <<disk, database, locals, crashes>>

\* The file overlaps the same file of another run, which has committed it.
FileCollides(r) ==
    /\ At(r, "apply")
    /\ applied[file[r]] # {} /\ ~saw[r]
    /\ Throw(r)
    /\ UNCHANGED <<disk, database, locals, crashes>>

\* Variant: the checksum is taken from the file as it is by now.
RecordRereads(r) ==
    /\ At(r, "record")
    /\ recorded[file[r]] = None
    /\ recorded' = [recorded EXCEPT ![file[r]] = disk[file[r]]]
    /\ NextFile(r)
    /\ UNCHANGED <<disk, tableExists, applied, version, saw, crashes>>

\* The INSERT, which commits on its own.
Record(r) ==
    /\ At(r, "record")
    /\ recorded[file[r]] = None
    /\ recorded' = [recorded EXCEPT ![file[r]] = version[r]]
    /\ NextFile(r)
    /\ UNCHANGED <<disk, tableExists, applied, version, saw, crashes>>

\* Another run has recorded the file since this one looked: the primary key
\* refuses the row.  ROLLBACK finds nothing to undo.
RecordRefused(r) ==
    /\ At(r, "record")
    /\ recorded[file[r]] # None
    /\ Throw(r)
    /\ UNCHANGED <<disk, database, locals, crashes>>

\* The process dies or the connection breaks; an open transaction is undone.
Crash(r) ==
    /\ crashes < MaxCrashes
    /\ pc[r] \notin Ended
    /\ crashes' = crashes + 1
    /\ Throw(r)
    /\ UNCHANGED <<disk, database, locals>>

-----------------------------------------------------------------------------
Advance(r) ==
    \/ CreateTable(r) \/ CreateCollides(r) \/ ReadFile(r)
    \/ SkipRecorded(r) \/ ChecksumMismatch(r) \/ NotRecorded(r)
    \/ BeginFile(r) \/ CommitFile(r) \/ FileCollides(r)
    \/ Record(r) \/ RecordRefused(r)

Next ==
    \/ \E f \in Files : Edit(f)
    \/ \E r \in Runs : Start(r) \/ Advance(r) \/ Crash(r)

\* Statements settle, and a deployment whose migration failed is run again.
Fairness == \A r \in Runs : WF_vars(Start(r)) /\ WF_vars(Advance(r))

Spec == Init /\ [][Next]_vars /\ Fairness

-----------------------------------------------------------------------------
TypeOK ==
    /\ disk \in [Files -> Versions]
    /\ tableExists \in BOOLEAN
    /\ applied \in [Files -> SUBSET Versions]
    /\ recorded \in [Files -> Versions \cup {None}]
    /\ pc \in [Runs -> Steps]
    /\ file \in [Runs -> Files]
    /\ version \in [Runs -> Versions \cup {None}]
    /\ saw \in [Runs -> BOOLEAN]
    /\ crashes \in 0 .. MaxCrashes

\* schema_migration never claims a version that is not in the schema, however
\* runs race, crash between the two commits, or find a file edited.
RecordedWasApplied ==
    \A f \in Files : recorded[f] # None => recorded[f] \in applied[f]

\* A file is never applied to a schema that lacks an earlier one, although a
\* run may rely for those on what another has recorded.
AppliedInOrder ==
    \A f, g \in Files : f < g /\ applied[g] # {} => applied[f] # {}

Edited == \E f \in Files : disk[f] # 1

\* Unless a file is edited or something breaks, racing runs do not defeat each
\* other: whoever fails has been overtaken by a run that has not failed.
SomeRunWins ==
    ~SharedFate /\ ~Edited /\ crashes = 0 => \E r \in Runs : ~At(r, "failed")

\* However often runs break, the database is migrated in the end: what was
\* applied and not recorded stands in nobody's way.
EventuallyMigrated == <>(Edited \/ \A f \in Files : recorded[f] # None)
=============================================================================
