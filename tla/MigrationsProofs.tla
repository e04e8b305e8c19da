-------------------------- MODULE MigrationsProofs --------------------------
(***************************************************************************)
(* What holds of migrations for any runs, files and crashes.               *)
(***************************************************************************)
EXTENDS Migrations, TLAPS

\* What a run may rely on: it has read the file it is at, what it committed
\* is there, and no file before the one it is at is missing.
RunKnows(r) ==
    /\ pc[r] = "create_table" => file[r] = 1
    /\ pc[r] \in {"select", "begin", "apply", "record"} => version[r] # None
    /\ pc[r] = "record" => version[r] \in applied[file[r]]
    /\ pc[r] \notin Ended \cup {"create_table"} =>
          \A f \in Files : f < file[r] => applied[f] # {}

OrderInv ==
    /\ TypeOK
    /\ RecordedWasApplied
    /\ AppliedInOrder
    /\ \A r \in Runs : RunKnows(r)

\* A run nobody has overtaken at the file it is at.
Ahead(r) ==
    /\ pc[r] \notin {"idle", "failed", "create_table"}
    /\ pc[r] \in {"begin", "apply", "record"} => recorded[file[r]] = None
    /\ pc[r] = "apply" /\ applied[file[r]] # {} => saw[r]

Undisturbed == ~SharedFate /\ ~Edited /\ crashes = 0

\* Whoever created schema_migration is ahead until another run gets ahead of
\* it; before that nobody has anything to fail on.
RaceInv ==
    Undisturbed =>
        /\ \A r \in Runs : version[r] \in {None, 1}
        /\ \A f \in Files : recorded[f] \in {None, 1}
        /\ IF tableExists THEN \E r \in Runs : Ahead(r)
                          ELSE \A r \in Runs : pc[r] \in {"idle", "create_table"}

-----------------------------------------------------------------------------
LEMMA FirstFile == 1 \in Files
  BY MigrationAssumption DEF Files

LEMMA InitOrder == Init => OrderInv
  <1> SUFFICES ASSUME Init PROVE OrderInv
    OBVIOUS
  <1>1. TypeOK
    <2>1. crashes \in 0 .. MaxCrashes
      BY MigrationAssumption DEF Init
    <2>2. pc \in [Runs -> Steps] /\ file \in [Runs -> Files]
      BY FirstFile DEF Init, Steps, Ended
    <2>3. disk \in [Files -> Versions] /\ applied \in [Files -> SUBSET Versions]
      BY DEF Init, Versions
    <2>4. /\ recorded \in [Files -> Versions \cup {None}]
          /\ version \in [Runs -> Versions \cup {None}]
          /\ tableExists \in BOOLEAN /\ saw \in [Runs -> BOOLEAN]
      BY DEF Init
    <2>5. QED
      BY <2>1, <2>2, <2>3, <2>4 DEF TypeOK
  <1>2. RecordedWasApplied /\ AppliedInOrder /\ \A r \in Runs : RunKnows(r)
    BY DEF Init, RecordedWasApplied, AppliedInOrder, RunKnows, Ended
  <1>3. QED
    BY <1>1, <1>2 DEF OrderInv

LEMMA ThrowType ==
  ASSUME TypeOK, NEW r \in Runs, Throw(r)
  PROVE  /\ pc' \in [Runs -> Steps]
         /\ \A q \in Runs : pc'[q] \in {pc[q], "failed"}
         /\ pc'[r] = "failed"
         /\ ~SharedFate => \A q \in Runs \ {r} : pc'[q] = pc[q]
  BY DEF TypeOK, Throw, Steps, Ended

LEMMA NextFileType ==
  ASSUME TypeOK, NEW r \in Runs, NextFile(r)
  PROVE  /\ pc' \in [Runs -> Steps] /\ file' \in [Runs -> Files]
         /\ \A q \in Runs \ {r} : pc'[q] = pc[q] /\ file'[q] = file[q]
         /\ \/ pc'[r] = "read_file" /\ file'[r] = file[r] + 1
            \/ pc'[r] = "done" /\ file'[r] = file[r]
  <1>1. NumFiles \in Nat /\ file[r] \in 1 .. NumFiles /\ Files = 1 .. NumFiles
    BY MigrationAssumption DEF TypeOK, Files
  <1>2. CASE file[r] < NumFiles
    <2>1. file[r] + 1 \in Files
      BY <1>1, <1>2
    <2>2. QED
      BY <1>2, <2>1 DEF TypeOK, NextFile, GoTo, Steps
  <1>3. CASE ~(file[r] < NumFiles)
    BY <1>3 DEF TypeOK, NextFile, GoTo, Steps, Ended
  <1>4. QED
    BY <1>2, <1>3

LEMMA FileIsInteger ==
  ASSUME TypeOK, NEW r \in Runs
  PROVE  file[r] \in Nat /\ file[r] \in Files
  BY MigrationAssumption DEF TypeOK, Files

\* A run that throws, or that a thrown exception takes with it, knows nothing.
LEMMA ThrowKnows ==
  ASSUME OrderInv, NEW r \in Runs, Throw(r), UNCHANGED <<database, locals, disk>>,
         crashes' \in 0 .. MaxCrashes
  PROVE  OrderInv'
  <1>1. pc' \in [Runs -> Steps] /\ \A q \in Runs : pc'[q] \in {pc[q], "failed"}
    BY ThrowType DEF OrderInv
  <1>2. TypeOK' /\ RecordedWasApplied' /\ AppliedInOrder'
    BY <1>1 DEF OrderInv, TypeOK, RecordedWasApplied, AppliedInOrder, database, locals
  <1>3. ASSUME NEW q \in Runs PROVE RunKnows(q)'
    BY <1>1 DEF OrderInv, RunKnows, database, locals, Ended
  <1>4. QED
    BY <1>2, <1>3 DEF OrderInv

LEMMA StepOrder == OrderInv /\ [Next]_vars => OrderInv'
  <1> SUFFICES ASSUME OrderInv, [Next]_vars PROVE OrderInv'
    OBVIOUS
  <1> USE DEF OrderInv
  <1>1. ASSUME NEW f \in Files, Edit(f) PROVE OrderInv'
    BY <1>1 DEF Edit, TypeOK, RecordedWasApplied, AppliedInOrder, RunKnows,
                database, locals, Versions
  <1>2. ASSUME NEW r \in Runs, Start(r) PROVE OrderInv'
    <2>1. TypeOK' /\ RecordedWasApplied' /\ AppliedInOrder'
      BY <1>2, FirstFile
      DEF Start, GoTo, TypeOK, RecordedWasApplied, AppliedInOrder, database, Steps
    <2>2. ASSUME NEW q \in Runs PROVE RunKnows(q)'
      BY <1>2 DEF Start, GoTo, TypeOK, RunKnows, database
    <2>3. QED
      BY <2>1, <2>2
  <1>3. ASSUME NEW r \in Runs, CreateTable(r) PROVE OrderInv'
    <2>1. TypeOK' /\ RecordedWasApplied' /\ AppliedInOrder'
      BY <1>3 DEF CreateTable, GoTo, TypeOK, RecordedWasApplied, AppliedInOrder,
                  locals, Steps
    <2>2. file[r] = 1 /\ \A f \in Files : ~(f < 1)
      BY <1>3 DEF CreateTable, At, RunKnows, Files
    <2>3. ASSUME NEW q \in Runs PROVE RunKnows(q)'
      BY <1>3, <2>2 DEF CreateTable, GoTo, TypeOK, RunKnows, locals, Ended
    <2>4. QED
      BY <2>1, <2>3
  <1>4. ASSUME NEW r \in Runs,
               \/ CreateCollides(r) \/ ChecksumMismatch(r) \/ FileCollides(r)
               \/ RecordRefused(r) \/ Crash(r)
        PROVE  OrderInv'
    BY <1>4, ThrowKnows, MigrationAssumption
    DEF CreateCollides, ChecksumMismatch, FileCollides, RecordRefused, Crash, TypeOK
  <1>5. ASSUME NEW r \in Runs, ReadFile(r) PROVE OrderInv'
    <2>1. TypeOK' /\ RecordedWasApplied' /\ AppliedInOrder'
      BY <1>5 DEF ReadFile, GoTo, TypeOK, RecordedWasApplied, AppliedInOrder,
                  database, Steps
    <2>2. ASSUME NEW q \in Runs PROVE RunKnows(q)'
      BY <1>5 DEF ReadFile, At, GoTo, TypeOK, RunKnows, database, Ended, Versions, None
    <2>3. QED
      BY <2>1, <2>2
  <1>6. ASSUME NEW r \in Runs, SkipRecorded(r) PROVE OrderInv'
    <2>0. NextFile(r) /\ UNCHANGED <<disk, database, version, saw, crashes>>
      BY <1>6 DEF SkipRecorded
    <2>1. TypeOK' /\ RecordedWasApplied' /\ AppliedInOrder'
      BY <2>0, NextFileType
      DEF TypeOK, RecordedWasApplied, AppliedInOrder, database
    <2>2. applied[file[r]] # {}
      BY <1>6 DEF SkipRecorded, At, TypeOK, RecordedWasApplied, RunKnows
    <2>3. \A f \in Files : f < file[r] + 1 => applied[f] # {}
      BY <1>6, <2>2, FileIsInteger DEF SkipRecorded, At, RunKnows, Ended, Files
    <2>4. ASSUME NEW q \in Runs PROVE RunKnows(q)'
      <3>1. CASE q = r
        BY <2>0, <2>3, <3>1, NextFileType DEF RunKnows, database, Ended
      <3>2. CASE q # r
        BY <2>0, <3>2, NextFileType DEF RunKnows, database
      <3>3. QED
        BY <3>1, <3>2
    <2>5. QED
      BY <2>1, <2>4
  <1>7. ASSUME NEW r \in Runs, NotRecorded(r) \/ BeginFile(r) PROVE OrderInv'
    <2>1. TypeOK' /\ RecordedWasApplied' /\ AppliedInOrder'
      BY <1>7 DEF NotRecorded, BeginFile, GoTo, TypeOK, RecordedWasApplied,
                  AppliedInOrder, database, locals, Steps
    <2>2. ASSUME NEW q \in Runs PROVE RunKnows(q)'
      BY <1>7 DEF NotRecorded, BeginFile, At, GoTo, TypeOK, RunKnows, database, locals,
                  Ended
    <2>3. QED
      BY <2>1, <2>2
  <1>8. ASSUME NEW r \in Runs, CommitFile(r) PROVE OrderInv'
    <2>1. /\ version[r] \in Versions /\ file[r] \in Files
          /\ \A f \in Files : applied[f] \subseteq applied'[f]
          /\ \A f \in Files \ {file[r]} : applied'[f] = applied[f]
          /\ applied' \in [Files -> SUBSET Versions]
          /\ version[r] \in applied'[file[r]]
      BY <1>8 DEF CommitFile, At, RunKnows, TypeOK
    <2>2. TypeOK' /\ RecordedWasApplied'
      BY <1>8, <2>1 DEF CommitFile, GoTo, TypeOK, RecordedWasApplied, locals, Steps
    <2>3. \A f \in Files : f < file[r] => applied[f] # {}
      BY <1>8 DEF CommitFile, At, RunKnows, Ended
    <2>4. AppliedInOrder'
      BY <2>1, <2>3 DEF AppliedInOrder
    <2>5. ASSUME NEW q \in Runs PROVE RunKnows(q)'
      BY <1>8, <2>1 DEF CommitFile, At, GoTo, TypeOK, RunKnows, locals, Ended
    <2>6. QED
      BY <2>2, <2>4, <2>5
  <1>9. ASSUME NEW r \in Runs, Record(r) PROVE OrderInv'
    <2>1. version[r] \in applied[file[r]]
      BY <1>9 DEF Record, At, RunKnows
    <2>2. TypeOK' /\ RecordedWasApplied' /\ AppliedInOrder'
      BY <1>9, <2>1, NextFileType
      DEF Record, TypeOK, RecordedWasApplied, AppliedInOrder
    <2>3. NextFile(r) /\ UNCHANGED <<applied, version>>
      BY <1>9 DEF Record
    <2>4. \A f \in Files : f < file[r] + 1 => applied[f] # {}
      BY <1>9, <2>1, FileIsInteger DEF Record, At, RunKnows, Ended, Files
    <2>5. ASSUME NEW q \in Runs PROVE RunKnows(q)'
      <3>1. CASE q = r
        BY <2>3, <2>4, <3>1, NextFileType DEF RunKnows, Ended
      <3>2. CASE q # r
        BY <2>3, <3>2, NextFileType DEF RunKnows
      <3>3. QED
        BY <3>1, <3>2
    <2>6. QED
      BY <2>2, <2>5
  <1>10. CASE UNCHANGED vars
    BY <1>10 DEF vars, database, locals, TypeOK, RecordedWasApplied, AppliedInOrder,
                 RunKnows
  <1>11. QED
    BY <1>1, <1>2, <1>3, <1>4, <1>5, <1>6, <1>7, <1>8, <1>9, <1>10 DEF Next, Advance

\* What a database says of its own migrations holds for any number of runs,
\* files, crashes and edits.
THEOREM OrderInvariance == Spec => []OrderInv
  <1>1. QED
    BY InitOrder, StepOrder, PTL DEF Spec

\* runMigrations commits a file before it records it, and records what it
\* committed: schema_migration never claims more than the schema has.
THEOREM RecordsAreTrue == Spec => []RecordedWasApplied
  <1>1. OrderInv => RecordedWasApplied
    BY DEF OrderInv
  <1>2. QED
    BY <1>1, OrderInvariance, PTL

\* No file is applied before the files whose names sort before it.
THEOREM FilesInOrder == Spec => []AppliedInOrder
  <1>1. OrderInv => AppliedInOrder
    BY DEF OrderInv
  <1>2. QED
    BY <1>1, OrderInvariance, PTL

-----------------------------------------------------------------------------
LEMMA InitRace == Init => RaceInv
  BY DEF Init, RaceInv

LEMMA AheadRuns ==
  ASSUME NEW r \in Runs, pc[r] \in {"idle", "failed", "create_table"}
  PROVE  ~Ahead(r)
  BY DEF Ahead

\* Whoever is not ahead can be taken away without harm.
LEMMA OthersStayAhead ==
  ASSUME OrderInv, RaceInv, tableExists, NEW r \in Runs,
         Undisturbed, ~Ahead(r), Throw(r), UNCHANGED <<database, locals>>
  PROVE  tableExists' /\ \E q \in Runs : Ahead(q)'
  <1>1. PICK q \in Runs : Ahead(q)
    BY DEF RaceInv
  <1>2. q # r
    BY <1>1
  <1>3. pc'[q] = pc[q]
    BY <1>2, ThrowType DEF OrderInv, Undisturbed
  <1>4. QED
    BY <1>1, <1>3 DEF Ahead, database, locals

\* The step of a run that is ahead at its file cannot be one of those that throw.
LEMMA StepRace == OrderInv /\ RaceInv /\ [Next]_vars => RaceInv'
  <1> SUFFICES ASSUME OrderInv, RaceInv, [Next]_vars, Undisturbed' PROVE RaceInv'
    BY DEF RaceInv
  <1>0. /\ Undisturbed
        /\ \A f \in Files : disk[f] = 1 /\ disk'[f] = 1
        /\ crashes = 0 /\ crashes' = 0
    <2>1. \A f \in Files : disk'[f] = 1
      BY DEF Undisturbed, Edited
    <2>2. \A f \in Files : disk[f] = 1
      BY <2>1 DEF Next, Advance, Edit, Start, CreateTable, CreateCollides, ReadFile,
         SkipRecorded, ChecksumMismatch, NotRecorded, BeginFile, CommitFile,
         FileCollides, Record, RecordRefused, Crash, vars, OrderInv, TypeOK
    <2>3. crashes' = 0 /\ crashes = 0
      BY DEF Undisturbed, Next, Advance, Edit, Start, CreateTable, CreateCollides,
         ReadFile, SkipRecorded, ChecksumMismatch, NotRecorded, BeginFile, CommitFile,
         FileCollides, Record, RecordRefused, Crash, vars, OrderInv, TypeOK
    <2>4. QED
      BY <2>1, <2>2, <2>3 DEF Undisturbed, Edited
  <1>1. /\ ~SharedFate
        /\ \A r \in Runs : version[r] \in {None, 1}
        /\ \A f \in Files : recorded[f] \in {None, 1}
        /\ IF tableExists THEN \E r \in Runs : Ahead(r)
                          ELSE \A r \in Runs : pc[r] \in {"idle", "create_table"}
    BY <1>0 DEF RaceInv, Undisturbed
  <1> DEFINE Good ==
        /\ \A r \in Runs : version'[r] \in {None, 1}
        /\ \A f \in Files : recorded'[f] \in {None, 1}
        /\ IF tableExists' THEN \E r \in Runs : Ahead(r)'
                           ELSE \A r \in Runs : pc'[r] \in {"idle", "create_table"}
  <1> SUFFICES Good
    BY DEF RaceInv
  <1>2. ASSUME NEW f \in Files, Edit(f) PROVE Good
    BY <1>0, <1>2 DEF Edit, OrderInv, TypeOK
  <1>3. ASSUME NEW r \in Runs, Start(r) PROVE Good
    BY <1>1, <1>3 DEF Start, GoTo, Ahead, database, OrderInv, TypeOK
  <1>4. ASSUME NEW r \in Runs, CreateTable(r) PROVE Good
    <2>1. Ahead(r)'
      BY <1>4 DEF CreateTable, GoTo, Ahead, OrderInv, TypeOK
    <2>2. QED
      BY <1>1, <1>4, <2>1 DEF CreateTable, locals
  <1>5. ASSUME NEW r \in Runs, CreateCollides(r) PROVE Good
    <2>1. tableExists /\ ~Ahead(r)
      BY <1>5 DEF CreateCollides, At, Ahead
    <2>2. QED
      BY <1>0, <1>1, <1>5, <2>1, OthersStayAhead DEF CreateCollides, database, locals
  <1>6. ASSUME NEW r \in Runs, ReadFile(r) PROVE Good
    <2>1. disk[file[r]] = 1
      BY <1>0, FileIsInteger DEF OrderInv
    <2>2. tableExists
      BY <1>1, <1>6 DEF ReadFile, At
    <2>3. PICK q \in Runs : Ahead(q)
      BY <1>1, <2>2
    <2>4. Ahead(q)'
      BY <1>6, <2>3 DEF ReadFile, At, GoTo, Ahead, database, OrderInv, TypeOK
    <2>5. QED
      BY <1>1, <1>6, <2>1, <2>2, <2>4 DEF ReadFile, database, OrderInv, TypeOK
  <1>7. ASSUME NEW r \in Runs, SkipRecorded(r) PROVE Good
    <2>0. NextFile(r) /\ UNCHANGED <<disk, database, version, saw, crashes>>
      BY <1>7 DEF SkipRecorded
    <2>1. tableExists
      BY <1>1, <1>7 DEF SkipRecorded, At
    <2>2. PICK q \in Runs : Ahead(q)
      BY <1>1, <2>1
    <2>3. Ahead(q)'
      BY <2>0, <2>2, NextFileType DEF Ahead, database, OrderInv
    <2>4. QED
      BY <1>1, <2>0, <2>1, <2>3 DEF database
  <1>8. ASSUME NEW r \in Runs, ChecksumMismatch(r) PROVE FALSE
    BY <1>1, <1>8, FileIsInteger
    DEF ChecksumMismatch, At, OrderInv, RunKnows
  <1>9. ASSUME NEW r \in Runs, NotRecorded(r) \/ BeginFile(r) PROVE Good
    <2>1. tableExists
      BY <1>1, <1>9 DEF NotRecorded, BeginFile, At
    <2>2. PICK q \in Runs : Ahead(q)
      BY <1>1, <2>1
    <2>3. Ahead(q)'
      BY <1>9, <2>2 DEF NotRecorded, BeginFile, At, GoTo, Ahead, database, locals,
                        OrderInv, TypeOK
    <2>4. QED
      BY <1>1, <1>9, <2>1, <2>3 DEF NotRecorded, BeginFile, database, locals
  <1>10. ASSUME NEW r \in Runs, CommitFile(r) PROVE Good
    <2>1. tableExists
      BY <1>1, <1>10 DEF CommitFile, At
    <2>2. PICK q \in Runs : Ahead(q)
      BY <1>1, <2>1
    <2>3. CASE Ahead(r)
      <3>1. Ahead(r)'
        BY <1>10, <2>3 DEF CommitFile, At, GoTo, Ahead, locals, OrderInv, TypeOK
      <3>2. QED
        BY <1>1, <1>10, <2>1, <3>1 DEF CommitFile, locals
    <2>4. CASE ~Ahead(r)
      <3>1. applied[file[r]] # {}
        BY <1>10, <2>4, FileIsInteger
        DEF CommitFile, At, Ahead, OrderInv, RecordedWasApplied
      <3>2. q # r /\ pc'[q] = pc[q]
        BY <1>10, <2>2, <2>4 DEF CommitFile, GoTo, OrderInv, TypeOK
      <3>3. \A f \in Files : applied'[f] # {} => applied[f] # {}
        BY <1>10, <3>1 DEF CommitFile, OrderInv, TypeOK
      <3>4. Ahead(q)'
        BY <1>10, <2>2, <3>2, <3>3, FileIsInteger DEF CommitFile, Ahead, locals, OrderInv
      <3>5. QED
        BY <1>1, <1>10, <2>1, <3>4 DEF CommitFile, locals
    <2>5. QED
      BY <2>3, <2>4
  <1>11. ASSUME NEW r \in Runs, FileCollides(r) \/ RecordRefused(r) PROVE Good
    <2>1. tableExists /\ ~Ahead(r)
      BY <1>1, <1>11 DEF FileCollides, RecordRefused, At, Ahead
    <2>2. QED
      BY <1>0, <1>1, <1>11, <2>1, OthersStayAhead
      DEF FileCollides, RecordRefused, database, locals
  <1>12. ASSUME NEW r \in Runs, Record(r) PROVE Good
    <2>1. tableExists
      BY <1>1, <1>12 DEF Record, At
    <2>2. Ahead(r)'
      BY <1>12, NextFileType DEF Record, Ahead, OrderInv
    <2>3. QED
      BY <1>1, <1>12, <2>1, <2>2 DEF Record, OrderInv, TypeOK
  <1>13. ASSUME NEW r \in Runs, Crash(r) PROVE FALSE
    BY <1>0, <1>13 DEF Crash
  <1>14. CASE UNCHANGED vars
    BY <1>1, <1>14 DEF vars, database, locals, Ahead
  <1>15. QED
    BY <1>2, <1>3, <1>4, <1>5, <1>6, <1>7, <1>8, <1>9, <1>10, <1>11, <1>12, <1>13,
       <1>14 DEF Next, Advance

\* Runs that race, in processes of their own and with nothing broken or edited,
\* may fail on each other's tables and rows, but never all of them.
THEOREM RacersDoNotAllFail == Spec => []SomeRunWins
  <1>1. OrderInv /\ RaceInv => SomeRunWins
    <2> SUFFICES ASSUME RaceInv, Undisturbed PROVE \E r \in Runs : ~At(r, "failed")
      BY DEF SomeRunWins, Undisturbed
    <2>1. CASE tableExists
      BY <2>1 DEF RaceInv, Ahead, At
    <2>2. CASE ~tableExists
      BY <2>2, MigrationAssumption DEF RaceInv, At
    <2>3. QED
      BY <2>1, <2>2
  <1>2. QED
    BY <1>1, InitOrder, StepOrder, InitRace, StepRace, PTL DEF Spec
=============================================================================
