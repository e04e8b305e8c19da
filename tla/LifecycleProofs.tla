-------------------------- MODULE LifecycleProofs --------------------------
(***************************************************************************)
(* A lone runner that loses no acknowledgement implements JobLifecycle,    *)
(* for any targets, posts, windows and retry policy, whichever fetches and *)
(* statements fail and wherever the process crashes; and the in-memory     *)
(* repositories, fed with the same statements, hold what its tables hold   *)
(* until a crash.                                                          *)
(***************************************************************************)
EXTENDS InMemoryStores, CollectionCycleProofs

\* One runner; a statement whose call throws has not been applied.
Lone == (\E me : Runners = {me}) /\ "ack" \notin Faults

\* A step of a lone runner changes at most the row of its own job.
LEMMA OneRunner ==
  ASSUME Lone, NEW r \in Runners, NEW q \in Runners
  PROVE  q = r
  BY DEF Lone

\* The cycle the table's times refer to is that of the one runner.
LEMMA CycleOfRunner ==
  ASSUME Lone, NEW r \in Runners
  PROVE  Cycle = lastStart[r] /\ (TypeOK => Cycle \in Nat \cup {NoTime})
  <1>1. (CHOOSE q \in Runners : TRUE) = r
    BY DEF Lone
  <1>2. Cycle = lastStart[r]
    BY <1>1 DEF Cycle
  <1>3. TypeOK => lastStart[r] \in Nat \cup {NoTime}
    BY DEF TypeOK, Time
  <1>4. QED
    BY <1>2, <1>3

\* The statements keep rows bounded.
LEMMA BoundedRows ==
  ASSUME NEW row \in Row, RowBounded(row)
  PROVE  /\ row.status \in {"queued", "retrying", "running"} =>
              RowBounded(SetStatus(row, "running"))
         /\ row.status = "running" =>
              /\ RowBounded(SetStatus(row, "succeeded"))
              /\ RowBounded(SaveCursor(row))
  BY DEF RowBounded, SetStatus, SaveCursor, Row, JobStatus, NoRow

LEMMA BoundedFailure ==
  ASSUME NEW row \in Row, RowBounded(row), row.status = "running",
         NEW at \in Nat, NEW delay \in Nat
  PROVE  RowBounded(RecordFailure(row, at, delay))
  <1> DEFINE new == RecordFailure(row, at, delay)
  <1>1. row.retryCount \in Nat /\ row.retryCount <= MaxRetries
    BY DEF RowBounded, Row
  <1>2. CASE RetriesExhausted(row)
    <2>1. new.status = "dead_letter" /\ new.retryCount = row.retryCount + 1
      BY <1>2 DEF RecordFailure, Row
    <2>2. row.retryCount + 1 > MaxRetries
      BY <1>2 DEF RetriesExhausted
    <2> HIDE DEF new
    <2>3. RowBounded(new)
      BY <1>1, <2>1, <2>2, RetryPolicyAssumption DEF RowBounded, JobStatus
    <2>4. QED
      BY <2>3 DEF new
  <1>3. CASE ~RetriesExhausted(row)
    <2>1. new.status = "retrying" /\ new.retryCount = row.retryCount + 1
      BY <1>3 DEF RecordFailure, Row
    <2>2. row.retryCount + 1 <= MaxRetries
      BY <1>1, <1>3, RetryPolicyAssumption DEF RetriesExhausted
    <2> HIDE DEF new
    <2>3. RowBounded(new)
      BY <2>1, <2>2 DEF RowBounded, JobStatus
    <2>4. QED
      BY <2>3 DEF new
  <1>4. QED
    BY <1>2, <1>3

-----------------------------------------------------------------------------
(* The inductive invariant.                                                *)

LEMMA InitLoneInv == Init => LoneInv
  <1> SUFFICES ASSUME Init PROVE LoneInv
    OBVIOUS
  <1>1. TypeOK
    BY InitType
  <1>2. RowsConsistent
    BY NoRowOK DEF Init, RowsConsistent
  <1>3. \A j \in Job : RowBounded(jobs[j])
    BY RetryPolicyAssumption DEF Init, RowBounded, NoRow
  <1>4. \A r \in Runners : RowKnown(r)
    BY DEF Init, RowKnown, At, TrySteps
  <1>5. QED
    BY <1>1, <1>2, <1>3, <1>4 DEF LoneInv

\* A runner that enters no step of a job has nothing to know but the time.
LEMMA KnownOutside ==
  ASSUME NEW r \in Runners,
         pc[r]' \in {"idle", "insert_job", "build_trend"},
         pc[r]' # "idle" => (now[r] = Cycle)'
  PROVE  RowKnown(r)'
  BY DEF RowKnown, At, TrySteps

\* The call returned, or the exception left it.
LEMMA KnownAfterReturn ==
  ASSUME LoneInv, NEW r \in Runners, pc[r] # "idle", JobReturns(r), UNCHANGED lastStart
  PROVE  RowKnown(r)'
  <1>1. pc[r]' \in {"insert_job", "build_trend"} /\ (now[r] = Cycle)'
    BY DEF LoneInv, TypeOK, RowKnown, JobReturns, GoTo, At, Cycle
  <1>2. QED
    BY <1>1, KnownOutside

LEMMA KnownAfterAbort ==
  ASSUME LoneInv, NEW r \in Runners, AbortCycle(r)
  PROVE  RowKnown(r)'
  <1>1. pc[r]' = "idle"
    BY DEF LoneInv, TypeOK, AbortCycle, GoTo
  <1>2. QED
    BY <1>1, KnownOutside

\* A row that is to be run is due by the time of the cycle.
LEMMA KnownAfterDispatch ==
  ASSUME LoneInv, NEW r \in Runners, NEW row \in Row, pc[r] # "idle",
         RowBounded(row), RowConsistent(row), row.status # "absent",
         Dispatch(r, row), jobs'[JobOf(r)] = row, UNCHANGED lastStart
  PROVE  RowKnown(r)'
  <1>1. CASE ~ShouldRun(row, now[r])
    BY <1>1, KnownAfterReturn DEF Dispatch
  <1>2. CASE ShouldRun(row, now[r])
    <2>1. /\ pc[r]' = "mark_running"
          /\ JobOf(r)' = JobOf(r)
          /\ now[r]' = now[r]
          /\ seenRetries[r]' = row.retryCount
      BY <1>2 DEF Dispatch, GoTo, JobOf, LoneInv, TypeOK
    <2>2. /\ now[r] = Cycle
          /\ now[r] \in Nat
          /\ Cycle' = Cycle
      BY DEF LoneInv, RowKnown, TypeOK, Time, At, Cycle
    <2>3. row.status \in {"queued", "retrying", "running"}
      BY <1>2 DEF ShouldRun, IsSettled, RowBounded, JobStatus, NoRow
    <2>4. row.nextRunAt <= Cycle
      <3>1. CASE row.status = "queued"
        BY <3>1 DEF RowBounded
      <3>2. CASE row.status = "retrying"
        BY <1>2, <2>2, <3>2 DEF ShouldRun, IsBackingOff, Row, NoTime
      <3>3. CASE row.status = "running"
        BY <2>2, <3>3 DEF RowConsistent, NoTime
      <3>4. QED
        BY <2>3, <3>1, <3>2, <3>3
    <2>5. QED
      BY <2>1, <2>2, <2>3, <2>4 DEF RowKnown, At, TrySteps
  <1>3. QED
    BY <1>1, <1>2

\* A step of the try block that leaves status and count of the row alone.
LEMMA KnownInTry ==
  ASSUME LoneInv, NEW r \in Runners, UNCHANGED <<lastStart, now, target, kind, seenRetries>>,
         pc[r] \in TrySteps, pc[r]' \in TrySteps \cup {"record_failure"},
         jobs'[JobOf(r)].status = "running",
         jobs'[JobOf(r)].retryCount = jobs[JobOf(r)].retryCount
  PROVE  RowKnown(r)'
  <1>1. JobOf(r)' = JobOf(r) /\ Cycle' = Cycle
    BY DEF JobOf, Cycle
  <1>2. RowKnown(r)
    BY DEF LoneInv
  <1>3. QED
    BY <1>1, <1>2 DEF RowKnown, At, TrySteps

\* Writing one bounded row keeps the others.
LEMMA OneBoundedRow ==
  ASSUME TypeOK, \A j \in Job : RowBounded(jobs[j]), UNCHANGED lastStart,
         NEW j \in Job, NEW row, RowBounded(row), jobs' = [jobs EXCEPT ![j] = row]
  PROVE  \A k \in Job : RowBounded(jobs[k])'
  BY DEF TypeOK, RowBounded, Cycle

\* What the invariant says of the runner's own row.
LEMMA OwnRow ==
  ASSUME LoneInv, NEW r \in Runners
  PROVE  /\ TypeOK /\ JobOf(r) \in Job
         /\ jobs[JobOf(r)] \in Row
         /\ RowBounded(jobs[JobOf(r)])
         /\ RowConsistent(jobs[JobOf(r)])
         /\ RowKnown(r)
         /\ now[r] \in Nat
         /\ pc[r] # "idle" => now[r] = Cycle
  <1>1. TypeOK /\ RowKnown(r)
    BY DEF LoneInv
  <1>2. JobOf(r) \in Job /\ now[r] \in Nat
    BY <1>1, JobOfType
  <1>3. QED
    BY <1>1, <1>2 DEF LoneInv, TypeOK, RowsConsistent, RowKnown, At

\* Every step of a lone runner keeps the rows bounded.
LEMMA BoundedStep ==
  ASSUME LoneInv, Lone, [Next]_vars
  PROVE  \A j \in Job : RowBounded(jobs[j])'
  <1>1. ASSUME NEW r \in Runners, StartCycle(r) PROVE \A j \in Job : RowBounded(jobs[j])'
    <2>1. lastStart[r] < clock /\ clock \in Nat /\ jobs' = jobs /\ lastStart'[r] = clock
      BY <1>1 DEF StartCycle, tables, LoneInv, TypeOK, Time
    <2>2. Cycle \in Nat \cup {NoTime} /\ Cycle < clock /\ Cycle' = clock
      <3>1. (CHOOSE q \in Runners : TRUE) = r
        BY DEF Lone
      <3>2. QED
        BY <2>1, <3>1, CycleOfRunner DEF Cycle, LoneInv
    <2>3. QED
      <3> SUFFICES ASSUME NEW j \in Job PROVE RowBounded(jobs[j])'
        OBVIOUS
      <3>1. RowBounded(jobs[j]) /\ jobs[j] \in Row
        BY DEF LoneInv, TypeOK
      <3>2. jobs[j].nextRunAt \in Nat \cup {NoTime}
        BY <3>1 DEF Row
      <3>3. QED
        BY <2>1, <2>2, <3>1, <3>2 DEF RowBounded, NoTime
  <1>2. ASSUME NEW r \in Runners, InsertJob(r) PROVE \A j \in Job : RowBounded(jobs[j])'
    <2>1. CASE UNCHANGED jobs
      BY <1>2, <2>1 DEF InsertJob, LoneInv, RowBounded, Cycle
    <2>2. CASE jobs' = [jobs EXCEPT ![JobOf(r)] = QueuedRow(now[r])]
      <3>1. RowBounded(QueuedRow(now[r]))
        BY <1>2, OwnRow, RetryPolicyAssumption
        DEF InsertJob, At, RowBounded, QueuedRow, JobStatus
      <3>2. QED
        BY <1>2, <2>2, <3>1, OwnRow, OneBoundedRow DEF LoneInv, InsertJob
    <2>3. QED
      BY <1>2, <2>1, <2>2 DEF InsertJob
  <1>3. ASSUME NEW r \in Runners, MarkRunning(r) PROVE \A j \in Job : RowBounded(jobs[j])'
    <2>1. RowBounded(SetStatus(jobs[JobOf(r)], "running"))
      BY <1>3, OwnRow, BoundedRows DEF MarkRunning, Proceed, RowKnown
    <2>2. jobs' = [jobs EXCEPT ![JobOf(r)] = SetStatus(jobs[JobOf(r)], "running")]
      BY <1>3 DEF MarkRunning
    <2>3. QED
      BY <1>3, <2>1, <2>2, OwnRow, OneBoundedRow DEF LoneInv, MarkRunning, Proceed
  <1>4. ASSUME NEW r \in Runners, SavePageCursor(r) PROVE \A j \in Job : RowBounded(jobs[j])'
    <2>1. RowBounded(SaveCursor(jobs[JobOf(r)]))
      BY <1>4, OwnRow, BoundedRows DEF SavePageCursor, Proceed, RowKnown, At, TrySteps
    <2>2. jobs' = [jobs EXCEPT ![JobOf(r)] = SaveCursor(jobs[JobOf(r)])]
      BY <1>4 DEF SavePageCursor
    <2>3. QED
      BY <1>4, <2>1, <2>2, OwnRow, OneBoundedRow DEF LoneInv, SavePageCursor, Proceed
  <1>5. ASSUME NEW r \in Runners, MarkSucceeded(r) PROVE \A j \in Job : RowBounded(jobs[j])'
    <2>1. RowBounded(SetStatus(jobs[JobOf(r)], "succeeded"))
      BY <1>5, OwnRow, BoundedRows DEF MarkSucceeded, RowKnown, At, TrySteps
    <2>2. jobs' = [jobs EXCEPT ![JobOf(r)] = SetStatus(jobs[JobOf(r)], "succeeded")]
      BY <1>5 DEF MarkSucceeded, Succeeded
    <2>3. QED
      BY <1>5, <2>1, <2>2, OwnRow, OneBoundedRow DEF LoneInv, MarkSucceeded
  <1>6. ASSUME NEW r \in Runners, RecordJobFailure(r) PROVE \A j \in Job : RowBounded(jobs[j])'
    <2> DEFINE delay == RetryDelay(seenRetries[r] + 1)
    <2>1. jobs' = [jobs EXCEPT ![JobOf(r)] = RecordFailure(jobs[JobOf(r)], now[r], delay)]
      BY <1>6 DEF RecordJobFailure
    <2>2. delay \in Nat
      BY OwnRow, RetryDelayType DEF TypeOK
    <2>3. jobs[JobOf(r)].status = "running"
      BY <1>6, OwnRow DEF RecordJobFailure, RowKnown, At
    <2> HIDE DEF delay
    <2>4. RowBounded(RecordFailure(jobs[JobOf(r)], now[r], delay))
      BY <2>2, <2>3, OwnRow, BoundedFailure
    <2>5. QED
      BY <1>6, <2>1, <2>4, OwnRow, OneBoundedRow DEF LoneInv, RecordJobFailure
  <1>7. ASSUME NEW r \in Runners,
               \/ SelectJob(r) \/ Fetch(r) \/ AppendRaw(r)
               \/ UpsertAccounts(r) \/ UpsertContents(r) \/ AppendSnapshots(r)
               \/ FailureRejected(r) \/ BuildTrend(r) \/ TryThrows(r)
               \/ CallThrows(r) \/ Crash(r)
        PROVE  UNCHANGED <<lastStart, jobs>>
    BY <1>7
    DEF SelectJob, Fetch, AppendRaw, UpsertAccounts, UpsertContents,
        AppendSnapshots, FailureRejected, BuildTrend, TryThrows, CallThrows, Crash,
        Proceed, tables
  <1>8. CASE UNCHANGED <<lastStart, jobs>>
    BY <1>8 DEF LoneInv, RowBounded, Cycle
  <1>9. \A r \in Runners : ~SucceededAckLost(r)
    BY DEF Lone, SucceededAckLost
  <1>10. Tick \/ UNCHANGED vars => UNCHANGED <<lastStart, jobs>>
    BY DEF Tick, vars, tables
  <1>11. QED
    BY StepCases, <1>1, <1>2, <1>3, <1>4, <1>5, <1>6, <1>7, <1>8, <1>9, <1>10

\* Every step of a lone runner keeps what it knows of its row.
LEMMA KnownStep ==
  ASSUME LoneInv, Lone, [Next]_vars, NEW r \in Runners
  PROVE  RowKnown(r)'
  <1> USE OwnRow
  <1>1. CASE Tick \/ UNCHANGED vars
    BY <1>1 DEF Tick, vars, tables, locals, RowKnown, At, JobOf, Cycle
  <1>2. CASE StartCycle(r)
    <2>1. pc[r]' = "insert_job" /\ now[r]' = clock /\ lastStart'[r] = clock
      BY <1>2 DEF StartCycle, GoTo, TypeOK
    <2>2. (CHOOSE q \in Runners : TRUE) = r
      BY DEF Lone
    <2>3. QED
      BY <2>1, <2>2, KnownOutside DEF Cycle
  <1>3. CASE InsertJob(r)
    <2>1. CASE /\ jobs' = [jobs EXCEPT ![JobOf(r)] = QueuedRow(now[r])]
               /\ Dispatch(r, QueuedRow(now[r]))
      <3>1. QueuedRow(now[r]) \in Row /\ RowConsistent(QueuedRow(now[r]))
        BY QueuedRowOK
      <3>2. RowBounded(QueuedRow(now[r])) /\ QueuedRow(now[r]).status # "absent"
        BY <1>3, RetryPolicyAssumption DEF InsertJob, At, RowBounded, QueuedRow, JobStatus
      <3>3. jobs'[JobOf(r)] = QueuedRow(now[r])
        BY <2>1 DEF TypeOK
      <3>4. QED
        BY <1>3, <2>1, <3>1, <3>2, <3>3, KnownAfterDispatch DEF InsertJob, At
    <2>2. CASE Exists(jobs[JobOf(r)]) /\ GoTo(r, "select_job") /\ UNCHANGED <<jobs, locals>>
      BY <1>3, <2>2
      DEF InsertJob, GoTo, RowKnown, At, TrySteps, JobOf, locals, TypeOK, Cycle
    <2>3. QED
      BY <1>3, <2>1, <2>2 DEF InsertJob
  <1>4. CASE SelectJob(r)
    <2>1. jobs[JobOf(r)].status # "absent"
      BY <1>4 DEF SelectJob, RowKnown, Exists
    <2>2. jobs'[JobOf(r)] = jobs[JobOf(r)] /\ UNCHANGED lastStart
      BY <1>4 DEF SelectJob, tables
    <2>3. QED
      BY <1>4, <2>1, <2>2, KnownAfterDispatch DEF SelectJob, At
  <1>5. CASE MarkRunning(r)
    <2>1. jobs'[JobOf(r)] = SetStatus(jobs[JobOf(r)], "running")
      BY <1>5 DEF MarkRunning, TypeOK
    <2>2. /\ jobs'[JobOf(r)].status = "running"
          /\ jobs'[JobOf(r)].retryCount = jobs[JobOf(r)].retryCount
      BY <2>1 DEF SetStatus, Row
    <2>3. /\ pc[r]' = "fetch"
          /\ UNCHANGED <<now, seenRetries>>
          /\ JobOf(r)' = JobOf(r)
          /\ seenRetries[r] = jobs[JobOf(r)].retryCount
          /\ now[r] = Cycle /\ Cycle' = Cycle
      BY <1>5 DEF MarkRunning, Proceed, At, GoTo, locals, JobOf, RowKnown, TypeOK, Cycle
    <2>4. QED
      BY <2>2, <2>3 DEF RowKnown, At, TrySteps
  <1>6. CASE \/ Fetch(r) \/ AppendRaw(r) \/ UpsertAccounts(r) \/ UpsertContents(r)
             \/ AppendSnapshots(r) \/ TryThrows(r)
    <2>1. pc[r] \in TrySteps /\ UNCHANGED <<lastStart, jobs, now, target, kind, seenRetries>>
      BY <1>6 DEF Fetch, AppendRaw, UpsertAccounts, UpsertContents, AppendSnapshots,
                  TryThrows, Proceed, At, TrySteps, tables, locals
    <2>2. pc[r]' \in TrySteps \cup {"record_failure"}
      BY <1>6 DEF Fetch, AppendRaw, UpsertAccounts, UpsertContents, AppendSnapshots,
                  TryThrows, Proceed, GoTo, TrySteps, StepAfterRaw, TypeOK
    <2>3. QED
      BY <2>1, <2>2, KnownInTry DEF RowKnown
  <1>7. CASE SavePageCursor(r)
    <2>1. jobs'[JobOf(r)] = SaveCursor(jobs[JobOf(r)])
      BY <1>7 DEF SavePageCursor, TypeOK
    <2>2. /\ pc[r] = "save_cursor" /\ pc[r]' = "mark_succeeded"
          /\ UNCHANGED <<lastStart, now, target, kind, seenRetries>>
      BY <1>7 DEF SavePageCursor, Proceed, At, GoTo, locals, TypeOK
    <2>3. jobs[JobOf(r)].status = "running"
      BY <2>2 DEF RowKnown, TrySteps
    <2>4. /\ jobs'[JobOf(r)].status = "running"
          /\ jobs'[JobOf(r)].retryCount = jobs[JobOf(r)].retryCount
      BY <2>1, <2>3 DEF SaveCursor, Row
    <2>5. QED
      BY <2>2, <2>4, KnownInTry DEF TrySteps
  <1>8. CASE MarkSucceeded(r)
    BY <1>8, KnownAfterReturn DEF MarkSucceeded, At
  <1>9. CASE RecordJobFailure(r) \/ FailureRejected(r) \/ CallThrows(r) \/ Crash(r)
    BY <1>9, KnownAfterAbort DEF RecordJobFailure, FailureRejected, CallThrows, Crash
  <1>10. CASE BuildTrend(r)
    <2>1. CASE target[r] < NumTargets
      <3>0. target[r] # NumTargets
        BY <2>1, CycleAssumption
      <3>1. pc[r] = "build_trend" /\ pc[r]' = "insert_job"
        BY <1>10, <3>0 DEF BuildTrend, At, GoTo, TypeOK
      <3>2. UNCHANGED <<now, lastStart>>
        BY <1>10, <3>0 DEF BuildTrend
      <3>3. now[r] = Cycle
        BY <3>1 DEF RowKnown, At
      <3>4. (now[r] = Cycle)'
        BY <3>2, <3>3 DEF Cycle
      <3>5. QED
        BY <3>1, <3>4, KnownOutside
    <2>2. CASE ~(target[r] < NumTargets)
      BY <1>10, <2>2, KnownAfterAbort DEF BuildTrend
    <2>3. QED
      BY <2>1, <2>2
  <1>12. ~SucceededAckLost(r)
    BY DEF Lone, SucceededAckLost
  <1>13. \A q \in Runners : q = r
    BY OneRunner
  <1>14. QED
    BY StepCases, <1>1, <1>2, <1>3, <1>4, <1>5, <1>6, <1>7, <1>8, <1>9, <1>10,
       <1>12, <1>13

LEMMA StepLoneInv ==
  ASSUME Lone, LoneInv, [Next]_vars
  PROVE  LoneInv'
  <1>1. TypeOK' /\ RowsConsistent'
    BY TypeStep, RowsStep DEF LoneInv
  <1>2. QED
    BY <1>1, BoundedStep, KnownStep DEF LoneInv

\* Between the statements of its job a lone runner knows the row.
THEOREM LoneInvariance ==
  ASSUME Lone
  PROVE  Spec => []LoneInv
  <1>1. Init => LoneInv
    BY InitLoneInv
  <1>2. LoneInv /\ [Next]_vars => LoneInv'
    BY StepLoneInv
  <1>3. QED
    BY <1>1, <1>2, PTL DEF Spec

\* Retries are a ceiling: no job of a lone runner fails more than
\* MaxRetries + 1 times.
THEOREM CeilingHolds ==
  ASSUME Lone
  PROVE  Spec => []RetryCeiling
  <1>1. LoneInv => RetryCeiling
    BY RetryPolicyAssumption DEF LoneInv, RetryCeiling, RowBounded, TypeOK, Row
  <1>2. QED
    BY <1>1, LoneInvariance, PTL

-----------------------------------------------------------------------------
(* The refinement.                                                         *)

\* Writing one row moves one job.
LEMMA OneJobMoves ==
  ASSUME TypeOK, NEW j \in Job, NEW row \in Row, jobs' = [jobs EXCEPT ![j] = row]
  PROVE  /\ [k \in Job |-> StageOf(jobs[k])]'
              = [[k \in Job |-> StageOf(jobs[k])] EXCEPT ![j] = StageOf(row)]
         /\ [k \in Job |-> jobs[k].retryCount]'
              = [[k \in Job |-> jobs[k].retryCount] EXCEPT ![j] = row.retryCount]
         /\ [k \in Job |-> jobs[k].nextRunAt]'
              = [[k \in Job |-> jobs[k].nextRunAt] EXCEPT ![j] = row.nextRunAt]
  BY DEF TypeOK

\* A row that keeps stage, count and due time moves no job.
LEMMA NoJobMoves ==
  ASSUME TypeOK, NEW j \in Job, NEW row \in Row, jobs' = [jobs EXCEPT ![j] = row],
         UNCHANGED <<clock, lastStart>>,
         StageOf(row) = StageOf(jobs[j]),
         row.retryCount = jobs[j].retryCount,
         row.nextRunAt = jobs[j].nextRunAt
  PROVE  UNCHANGED Lifecycle!vars
  BY OneJobMoves DEF Lifecycle!vars, TypeOK, Cycle

LEMMA NothingMoves ==
  ASSUME UNCHANGED <<clock, lastStart, jobs>>
  PROVE  UNCHANGED Lifecycle!vars
  BY DEF Lifecycle!vars, Cycle

\* create submits a job at the nowIso of the cycle.
LEMMA CreateSubmits ==
  ASSUME LoneInv, NEW r \in Runners, InsertJob(r)
  PROVE  [Lifecycle!Next]_(Lifecycle!vars)
  <1> SUFFICES ASSUME NEW j \in Job, j = JobOf(r)
               PROVE  [Lifecycle!Next]_(Lifecycle!vars)
    BY OwnRow
  <1>1. CASE UNCHANGED jobs
    BY <1>1, NothingMoves DEF InsertJob
  <1>2. CASE ~Exists(jobs[JobOf(r)]) /\ jobs' = [jobs EXCEPT ![JobOf(r)] = QueuedRow(now[r])]
    <2> DEFINE row == QueuedRow(now[r])
    <2>1. /\ j \in Job /\ row \in Row /\ TypeOK /\ jobs' = [jobs EXCEPT ![j] = row]
          /\ now[r] = Cycle /\ clock' = clock /\ Cycle' = Cycle
          /\ jobs[j] = NoRow
      BY <1>2, OwnRow, QueuedRowOK
      DEF InsertJob, At, Exists, RowBounded, JobStatus, Cycle
    <2>2. /\ StageOf(jobs[j]) = "absent" /\ StageOf(row) = "waiting"
          /\ row.retryCount = jobs[j].retryCount
          /\ row.nextRunAt = now[r]
      BY <2>1 DEF StageOf, NoRow, QueuedRow
    <2> HIDE DEF row
    <2>3. Lifecycle!Submit(j)
      BY <2>1, <2>2, OneJobMoves DEF Lifecycle!Submit, Lifecycle!Move, TypeOK
    <2>4. QED
      BY <2>1, <2>3 DEF Lifecycle!Next
  <1>3. QED
    BY <1>1, <1>2 DEF InsertJob

\* Marking a waiting job as running begins it, no earlier than it is due;
\* marking a running one again is no step.
LEMMA MarkBegins ==
  ASSUME LoneInv, NEW r \in Runners, MarkRunning(r)
  PROVE  [Lifecycle!Next]_(Lifecycle!vars)
  <1> SUFFICES ASSUME NEW j \in Job, j = JobOf(r)
               PROVE  [Lifecycle!Next]_(Lifecycle!vars)
    BY OwnRow
  <1> DEFINE row == SetStatus(jobs[j], "running")
  <1>1. /\ j \in Job /\ TypeOK /\ jobs[j] \in Row
        /\ jobs' = [jobs EXCEPT ![j] = row]
        /\ UNCHANGED <<clock, lastStart>> /\ Cycle' = Cycle
        /\ jobs[j].status \in {"queued", "retrying", "running"}
        /\ jobs[j].nextRunAt <= Cycle
        /\ RowConsistent(jobs[j])
    BY OwnRow DEF MarkRunning, Proceed, RowKnown, Cycle
  <1>2. /\ row \in Row
        /\ StageOf(row) = "running"
        /\ row.retryCount = jobs[j].retryCount
        /\ row.nextRunAt = NoTime
    <2>1. row \in Row
      BY <1>1, SetStatusOK
    <2>2. QED
      BY <1>1, <2>1 DEF SetStatus, StageOf, Row
  <1> HIDE DEF row
  <1>3. CASE jobs[j].status = "running"
    <2>1. StageOf(jobs[j]) = "running" /\ jobs[j].nextRunAt = NoTime
      BY <1>1, <1>3 DEF StageOf, RowConsistent
    <2>2. QED
      BY <1>1, <1>2, <2>1, NoJobMoves
  <1>4. CASE jobs[j].status \in {"queued", "retrying"}
    <2>1. StageOf(jobs[j]) = "waiting"
      BY <1>4 DEF StageOf
    <2>2. Lifecycle!Begin(j)
      BY <1>1, <1>2, <2>1, OneJobMoves
      DEF Lifecycle!Begin, Lifecycle!Move, Lifecycle!Never, NoTime, TypeOK
    <2>3. QED
      BY <1>1, <2>2 DEF Lifecycle!Next
  <1>5. QED
    BY <1>1, <1>3, <1>4

LEMMA MarkSucceeds ==
  ASSUME LoneInv, NEW r \in Runners, MarkSucceeded(r)
  PROVE  [Lifecycle!Next]_(Lifecycle!vars)
  <1> SUFFICES ASSUME NEW j \in Job, j = JobOf(r)
               PROVE  [Lifecycle!Next]_(Lifecycle!vars)
    BY OwnRow
  <1> DEFINE row == SetStatus(jobs[j], "succeeded")
  <1>1. /\ j \in Job /\ TypeOK /\ jobs[j] \in Row
        /\ jobs' = [jobs EXCEPT ![j] = row]
        /\ UNCHANGED <<clock, lastStart>> /\ Cycle' = Cycle
        /\ jobs[j].status = "running"
        /\ RowConsistent(jobs[j])
    BY OwnRow DEF MarkSucceeded, Succeeded, RowKnown, At, TrySteps, Cycle
  <1>2. /\ row \in Row
        /\ StageOf(row) = "succeeded" /\ StageOf(jobs[j]) = "running"
        /\ row.retryCount = jobs[j].retryCount
        /\ row.nextRunAt = jobs[j].nextRunAt
    <2>1. row \in Row
      BY <1>1, SetStatusOK
    <2>2. QED
      BY <1>1, <2>1 DEF SetStatus, StageOf, Row, RowConsistent
  <1> HIDE DEF row
  <1>3. Lifecycle!Succeed(j)
    <2>1. /\ [k \in Job |-> StageOf(jobs[k])]'
              = [[k \in Job |-> StageOf(jobs[k])] EXCEPT ![j] = StageOf(row)]
          /\ [k \in Job |-> jobs[k].retryCount]'
              = [[k \in Job |-> jobs[k].retryCount] EXCEPT ![j] = row.retryCount]
          /\ [k \in Job |-> jobs[k].nextRunAt]'
              = [[k \in Job |-> jobs[k].nextRunAt] EXCEPT ![j] = row.nextRunAt]
      BY <1>1, <1>2, OneJobMoves
    <2>2. QED
      BY <1>1, <1>2, <2>1 DEF Lifecycle!Succeed, Lifecycle!Move
  <1>4. QED
    BY <1>1, <1>3 DEF Lifecycle!Next

\* The cursor is no part of a job's life.
LEMMA CursorMovesNothing ==
  ASSUME LoneInv, NEW r \in Runners, SavePageCursor(r)
  PROVE  [Lifecycle!Next]_(Lifecycle!vars)
  <1> SUFFICES ASSUME NEW j \in Job, j = JobOf(r)
               PROVE  [Lifecycle!Next]_(Lifecycle!vars)
    BY OwnRow
  <1> DEFINE row == SaveCursor(jobs[j])
  <1>1. /\ j \in Job /\ TypeOK /\ jobs[j] \in Row
        /\ jobs' = [jobs EXCEPT ![j] = row]
        /\ UNCHANGED <<clock, lastStart>> /\ Cycle' = Cycle
    BY OwnRow DEF SavePageCursor, Proceed, Cycle
  <1>2. /\ row \in Row
        /\ StageOf(row) = StageOf(jobs[j])
        /\ row.retryCount = jobs[j].retryCount
        /\ row.nextRunAt = jobs[j].nextRunAt
    BY <1>1 DEF SaveCursor, StageOf, Row
  <1> HIDE DEF row
  <1>3. QED
    BY <1>1, <1>2, NoJobMoves

\* A recorded failure buries the job or makes it wait for the delay of its own
\* count, although the delay comes from the count create returned.
LEMMA FailureWaitsOrBuries ==
  ASSUME LoneInv, NEW r \in Runners, RecordJobFailure(r)
  PROVE  [Lifecycle!Next]_(Lifecycle!vars)
  <1> SUFFICES ASSUME NEW j \in Job, j = JobOf(r)
               PROVE  [Lifecycle!Next]_(Lifecycle!vars)
    BY OwnRow
  <1> DEFINE delay == RetryDelay(seenRetries[r] + 1)
             row == RecordFailure(jobs[j], now[r], delay)
  <1>1. /\ j \in Job /\ TypeOK /\ jobs[j] \in Row
        /\ jobs' = [jobs EXCEPT ![j] = row]
        /\ UNCHANGED <<clock, lastStart>> /\ Cycle' = Cycle
        /\ jobs[j].status = "running"
        /\ RowConsistent(jobs[j]) /\ RowBounded(jobs[j])
        /\ seenRetries[r] = jobs[j].retryCount
        /\ now[r] = Cycle /\ now[r] \in Nat
    BY OwnRow DEF RecordJobFailure, RowKnown, At, Cycle
  <1>2. /\ delay = RetryDelay(jobs[j].retryCount + 1) /\ delay \in Nat
        /\ jobs[j].retryCount \in Nat /\ jobs[j].retryCount <= MaxRetries
        /\ StageOf(jobs[j]) = "running" /\ jobs[j].nextRunAt = NoTime
    BY <1>1, RetryDelayType DEF Row, RowBounded, RowConsistent, StageOf
  <1> HIDE DEF delay
  <1>3. row \in Row /\ row.retryCount = jobs[j].retryCount + 1
    <2>1. row \in Row
      BY <1>1, <1>2, RecordFailureOK
    <2>2. QED
      BY <1>1, <2>1 DEF RecordFailure, Row
  <1>4. CASE RetriesExhausted(jobs[j])
    <2>1. /\ StageOf(row) = "buried"
          /\ row.nextRunAt = jobs[j].nextRunAt
          /\ jobs[j].retryCount = MaxRetries
      BY <1>1, <1>2, <1>4, RetryPolicyAssumption
      DEF RecordFailure, RetriesExhausted, StageOf, Row
    <2> HIDE DEF row
    <2>2. Lifecycle!Bury(j)
      <3>1. /\ [k \in Job |-> StageOf(jobs[k])]'
                = [[k \in Job |-> StageOf(jobs[k])] EXCEPT ![j] = StageOf(row)]
            /\ [k \in Job |-> jobs[k].retryCount]'
                = [[k \in Job |-> jobs[k].retryCount] EXCEPT ![j] = row.retryCount]
            /\ [k \in Job |-> jobs[k].nextRunAt]'
                = [[k \in Job |-> jobs[k].nextRunAt] EXCEPT ![j] = row.nextRunAt]
        BY <1>1, <1>3, OneJobMoves
      <3>2. UNCHANGED [k \in Job |-> jobs[k].nextRunAt]
        <4>1. [k \in Job |-> jobs[k].nextRunAt][j] = row.nextRunAt
          BY <1>1, <2>1
        <4>2. QED
          BY <3>1, <4>1
      <3>3. [k \in Job |-> jobs[k].retryCount][j] + 1 = row.retryCount
        BY <1>1, <1>3
      <3>4. [k \in Job |-> jobs[k].retryCount][j] = MaxRetries
        BY <1>1, <2>1
      <3>5. Lifecycle!Move(j, "running", "buried")
        BY <1>1, <1>2, <2>1, <3>1 DEF Lifecycle!Move
      <3>6. QED
        BY <1>1, <3>1, <3>2, <3>3, <3>4, <3>5 DEF Lifecycle!Bury
    <2>3. QED
      BY <1>1, <2>2 DEF Lifecycle!Next
  <1>5. CASE ~RetriesExhausted(jobs[j])
    <2>1. /\ StageOf(row) = "waiting"
          /\ row.nextRunAt = now[r] + delay
          /\ jobs[j].retryCount < MaxRetries
      BY <1>1, <1>2, <1>5, RetryPolicyAssumption
      DEF RecordFailure, RetriesExhausted, StageOf, Row
    <2> HIDE DEF row
    <2>2. Lifecycle!FailAndWait(j)
      BY <1>1, <1>2, <1>3, <2>1, OneJobMoves
      DEF Lifecycle!FailAndWait, Lifecycle!Move, TypeOK
    <2>3. QED
      BY <1>1, <2>2 DEF Lifecycle!Next
  <1>6. QED
    BY <1>4, <1>5

\* Every step of a lone runner is a step of JobLifecycle or leaves it alone.
LEMMA StepRefines ==
  ASSUME Lone, LoneInv, [Next]_vars
  PROVE  [Lifecycle!Next]_(Lifecycle!vars)
  <1>1. CASE Tick
    <2>1. clock' = clock + 1 /\ jobs' = jobs /\ lastStart' = lastStart
      BY <1>1 DEF Tick, tables
    <2>2. Lifecycle!Tick
      BY <2>1 DEF Lifecycle!Tick, Cycle
    <2>3. QED
      BY <2>2 DEF Lifecycle!Next
  <1>2. ASSUME NEW r \in Runners,
               \/ SelectJob(r) \/ Fetch(r) \/ AppendRaw(r)
               \/ UpsertAccounts(r) \/ UpsertContents(r) \/ AppendSnapshots(r)
               \/ FailureRejected(r) \/ BuildTrend(r) \/ TryThrows(r)
               \/ CallThrows(r) \/ Crash(r)
        PROVE  UNCHANGED <<clock, lastStart, jobs>>
    BY <1>2
    DEF SelectJob, Fetch, AppendRaw, UpsertAccounts, UpsertContents,
        AppendSnapshots, FailureRejected, BuildTrend, TryThrows, CallThrows, Crash,
        Proceed, tables
  <1>3. UNCHANGED vars => UNCHANGED <<clock, lastStart, jobs>>
    BY DEF vars, tables
  <1>4. \A r \in Runners : ~SucceededAckLost(r)
    BY DEF Lone, SucceededAckLost
  <1>5. ASSUME NEW r \in Runners, StartCycle(r) PROVE Lifecycle!Next
    <2>1. jobs' = jobs /\ clock' = clock /\ lastStart'[r] = clock
      BY <1>5 DEF StartCycle, tables, LoneInv, TypeOK
    <2>2. (CHOOSE q \in Runners : TRUE) = r
      BY DEF Lone
    <2>3. Lifecycle!StartCycle
      BY <2>1, <2>2 DEF Lifecycle!StartCycle, Cycle
    <2>4. QED
      BY <2>3 DEF Lifecycle!Next
  <1>6. QED
    BY StepCases, <1>1, <1>2, <1>3, <1>4, <1>5, NothingMoves, CreateSubmits, MarkBegins,
       MarkSucceeds, CursorMovesNothing, FailureWaitsOrBuries

LEMMA InitRefines ==
  ASSUME Lone
  PROVE  Init => Lifecycle!Init
  <1>1. PICK me : Runners = {me}
    BY DEF Lone
  <1>2. Init => Cycle = NoTime
    BY <1>1, CycleOfRunner DEF Init
  <1>3. QED
    BY <1>2 DEF Init, Lifecycle!Init, NoRow, StageOf, Lifecycle!Never, NoTime

\* A lone runner keeps the promise of a job's life, for every target, post,
\* window and retry policy: due times are honoured, delays match counts, and
\* nothing happens to a settled job.
THEOREM LoneRunnerKeepsLifecycle ==
  ASSUME Lone
  PROVE  Spec => KeepsLifecycle
  <1>1. Init => Lifecycle!Init
    BY InitRefines
  <1>2. LoneInv /\ [Next]_vars => [Lifecycle!Next]_(Lifecycle!vars)
    BY StepRefines
  <1>3. QED
    BY <1>1, <1>2, LoneInvariance, PTL DEF Spec, KeepsLifecycle, Lifecycle!Spec

-----------------------------------------------------------------------------
(* The two stores.                                                         *)

Span == [first : Nat \cup {NoTime}, last : Nat \cup {NoTime}]

SeenTyped ==
    /\ seen \in [Entities -> Span]
    /\ lost \in BOOLEAN
    /\ ~lost => memSeen \in [Entities -> Span]

\* Nothing was seen after the cycle that is under way, and what was seen has
\* the same last time in both stores.
SeenAgree ==
    \A e \in Entities :
        /\ seen[e].last <= Cycle
        /\ ~lost => /\ memSeen[e].last = seen[e].last
                    /\ memSeen[e].first >= seen[e].first

\* A job has appended its snapshots and is not going to do it again.
Appended(j) ==
    \/ jobs[j].status = "succeeded"
    \/ \E r \in Runners : pc[r] \in {"save_cursor", "mark_succeeded"} /\ JobOf(r) = j

\* Snapshots are those of such jobs, as long as the process has not died between
\* the append and the statement that settles the job.
AppendedOnce == ~lost => \A s \in snapshots : Appended(s.job)

\* The inductive invariant behind the comparison.
TwinInv ==
    /\ LoneInv
    /\ SeenTyped
    /\ JobTablesAgree
    /\ SeenAgree
    /\ AppendedOnce
    /\ ~lost => memSnapshots = snapshots

\* A step that both stores take is a step of the cycle.
LEMMA TwinStep ==
  ASSUME [TwinNext]_twinVars
  PROVE  [Next]_vars
  <1>1. TwinTick => Tick
    BY DEF TwinTick
  <1>2. ASSUME NEW r \in Runners, TwinStart(r) \/ TwinAdvance(r) \/ TwinCrash(r)
        PROVE  StartCycle(r) \/ Advance(r) \/ Crash(r)
    BY <1>2
    DEF TwinStart, TwinAdvance, TwinCrash, TwinCreate, TwinMark, TwinSaveCursor, TwinFail,
        TwinUpsert, TwinAppend, TwinOther, Advance
  <1>3. UNCHANGED twinVars => UNCHANGED vars
    BY DEF twinVars
  <1>4. QED
    BY <1>1, <1>2, <1>3 DEF TwinNext, Next

\* The assignments to the live object and the conditional statements of Postgres
\* make the same of a row, if the delay is that of the row's own count.
LEMMA SameStatus ==
  ASSUME NEW row \in Row, NEW status \in {"running", "succeeded"}
  PROVE  MemSetStatus(row, status) = SetStatus(row, status)
  BY DEF MemSetStatus, SetStatus

LEMMA SameFailure ==
  ASSUME NEW row \in Row, NEW at
  PROVE  MemFail(row, at) = RecordFailure(row, at, RetryDelay(row.retryCount + 1))
  <1> DEFINE delay == RetryDelay(row.retryCount + 1)
  <1>1. CASE RetriesExhausted(row)
    BY <1>1 DEF MemFail, RecordFailure, RetriesExhausted, Row
  <1>2. CASE ~RetriesExhausted(row)
    <2>1. RetriesExhausted(row) = FALSE /\ ~(row.retryCount + 1 > MaxRetries)
      BY <1>2 DEF RetriesExhausted
    <2> DEFINE new == [row EXCEPT !.retryCount = row.retryCount + 1, !.status = "retrying",
                                  !.nextRunAt = at + delay, !.finished = FALSE,
                                  !.deadLettered = FALSE]
    <2>2. RecordFailure(row, at, delay) = new
      BY <2>1 DEF RecordFailure, Row
    <2>3. MemFail(row, at) = new
      BY <2>1 DEF MemFail, Row
    <2>4. QED
      BY <2>2, <2>3
  <1>3. QED
    BY <1>1, <1>2

\* The same row is written to equal tables.
LEMMA SameRowWritten ==
  ASSUME LoneInv, JobTablesAgree, NEW r \in Runners, NEW row,
         jobs' = [jobs EXCEPT ![JobOf(r)] = row], MemRow(r, row)
  PROVE  JobTablesAgree'
  BY DEF JobTablesAgree, MemRow

\* Once a crash has emptied the memory there is nothing to compare any more.
LEMMA LostForGood ==
  ASSUME lost, [TwinNext]_twinVars
  PROVE  lost'
  BY DEF TwinNext, twinVars, twins, memory, TwinTick, TwinStart, TwinAdvance, TwinCrash,
         TwinCreate, TwinMark, TwinSaveCursor, TwinFail, TwinUpsert, TwinAppend, TwinOther,
         MemRow, Upsert

LEMMA JobTablesStep ==
  ASSUME Lone, LoneInv, SeenTyped, JobTablesAgree, [TwinNext]_twinVars
  PROVE  JobTablesAgree'
  <1>1. CASE UNCHANGED <<jobs, memJobs, lost>>
    BY <1>1 DEF JobTablesAgree
  <1>2. ASSUME NEW r \in Runners, TwinCrash(r) PROVE JobTablesAgree'
    BY <1>2 DEF TwinCrash, JobTablesAgree
  <1>3. CASE lost
    BY <1>3, LostForGood DEF JobTablesAgree
  <1>4. ASSUME NEW r \in Runners, ~lost, TwinCreate(r) PROVE JobTablesAgree'
    <2>1. memJobs = jobs /\ jobs \in [Job -> Row] /\ JobOf(r) \in Job
      BY <1>4, OwnRow DEF JobTablesAgree, TypeOK
    <2>2. CASE SelectJob(r) /\ UNCHANGED twins
      BY <1>1, <2>2 DEF SelectJob, tables, twins, memory
    <2>3. CASE InsertJob(r) /\ Exists(jobs[JobOf(r)])
      BY <1>4, <2>1, <2>3 DEF TwinCreate, InsertJob, SelectJob, At, MemRow, JobTablesAgree
    <2>4. CASE InsertJob(r) /\ ~Exists(jobs[JobOf(r)])
      <3>1. MemRow(r, QueuedRow(now[r]))
        BY <1>4, <2>1, <2>4 DEF TwinCreate, InsertJob, SelectJob, At
      <3>2. jobs' = [jobs EXCEPT ![JobOf(r)] = QueuedRow(now[r])]
        BY <2>4 DEF InsertJob
      <3>3. QED
        BY <3>1, <3>2, SameRowWritten
    <2>5. QED
      BY <1>4, <2>2, <2>3, <2>4 DEF TwinCreate
  <1>5. ASSUME NEW r \in Runners, ~lost, TwinMark(r) PROVE JobTablesAgree'
    <2>1. memJobs = jobs /\ jobs[JobOf(r)] \in Row
      BY <1>5, OwnRow DEF JobTablesAgree
    <2>2. PICK status \in {"running", "succeeded"} :
             /\ jobs' = [jobs EXCEPT ![JobOf(r)] = SetStatus(jobs[JobOf(r)], status)]
             /\ MemRow(r, MemSetStatus(jobs[JobOf(r)], status))
      BY <1>5, <2>1 DEF TwinMark, MarkRunning, MarkSucceeded, Succeeded
    <2>3. QED
      BY <2>1, <2>2, SameStatus, SameRowWritten
  <1>6. ASSUME NEW r \in Runners, ~lost, TwinSaveCursor(r) PROVE JobTablesAgree'
    <2>1. memJobs = jobs
      BY <1>6 DEF JobTablesAgree
    <2>2. jobs' = [jobs EXCEPT ![JobOf(r)] = SaveCursor(jobs[JobOf(r)])]
      BY <1>6 DEF TwinSaveCursor, SavePageCursor
    <2>3. MemRow(r, SaveCursor(jobs[JobOf(r)]))
      BY <1>6, <2>1 DEF TwinSaveCursor, SaveCursor
    <2>4. QED
      BY <2>2, <2>3, SameRowWritten
  <1>7. ASSUME NEW r \in Runners, ~lost, TwinFail(r) PROVE JobTablesAgree'
    <2> DEFINE row == jobs[JobOf(r)]
    <2>1. memJobs = jobs /\ row \in Row
      BY <1>7, OwnRow DEF JobTablesAgree
    <2>2. seenRetries[r] = row.retryCount
      BY <1>7, OwnRow DEF TwinFail, RecordJobFailure, RowKnown, At
    <2>3. jobs' = [jobs EXCEPT ![JobOf(r)] =
                     RecordFailure(row, now[r], RetryDelay(row.retryCount + 1))]
      BY <1>7, <2>2 DEF TwinFail, RecordJobFailure
    <2>4. MemRow(r, RecordFailure(row, now[r], RetryDelay(row.retryCount + 1)))
      BY <1>7, <2>1, SameFailure DEF TwinFail
    <2>5. QED
      BY <2>3, <2>4, SameRowWritten
  <1>8. ASSUME NEW r \in Runners,
               TwinStart(r) \/ TwinUpsert(r) \/ TwinAppend(r) \/ TwinOther(r)
        PROVE  UNCHANGED <<jobs, memJobs, lost>>
    BY <1>8
    DEF TwinStart, TwinUpsert, TwinAppend, TwinOther, StartCycle, UpsertAccounts,
        UpsertContents, AppendSnapshots, Fetch, AppendRaw, BuildTrend, TryThrows, Upsert,
        twins, memory, tables
  <1>9. TwinTick \/ UNCHANGED twinVars => UNCHANGED <<jobs, memJobs, lost>>
    BY DEF TwinTick, Tick, twinVars, vars, twins, memory, tables
  <1>10. QED
    BY <1>1, <1>2, <1>3, <1>4, <1>5, <1>6, <1>7, <1>8, <1>9 DEF TwinNext, TwinAdvance

-----------------------------------------------------------------------------
(* First and last seen.                                                    *)

LEMMA MinMaxOfTwo ==
  ASSUME NEW a \in Int, NEW b \in Int
  PROVE  /\ Max({a, b}) = IF a >= b THEN a ELSE b
         /\ Min({a, b}) = IF a <= b THEN a ELSE b
  <1> DEFINE max == IF a >= b THEN a ELSE b
             min == IF a <= b THEN a ELSE b
  <1>1. max \in {a, b} /\ \A y \in {a, b} : max >= y
    OBVIOUS
  <1>2. min \in {a, b} /\ \A y \in {a, b} : min <= y
    OBVIOUS
  <1>3. /\ \A x \in {a, b} : (\A y \in {a, b} : x >= y) => x = max
        /\ \A x \in {a, b} : (\A y \in {a, b} : x <= y) => x = min
    OBVIOUS
  <1> HIDE DEF max, min
  <1>4. Max({a, b}) = max
    BY <1>1, <1>3 DEF Max
  <1>5. Min({a, b}) = min
    BY <1>2, <1>3 DEF Min
  <1>6. QED
    BY <1>4, <1>5 DEF max, min

\* Merging what a later cycle sees with what is there.
LEMMA MergedSpan ==
  ASSUME NEW table \in [Entities -> Span], NEW entities, NEW at \in Nat,
         NEW e \in Entities, table[e].last <= at
  PROVE  LET span == MergeSeen(table, entities, at)[e]
         IN  /\ span \in Span
             /\ e \notin entities => span = table[e]
             /\ e \in entities => span.last = at /\ span.first <= at
  <1> DEFINE span == MergeSeen(table, entities, at)[e]
  <1>1. table[e] \in Span
    OBVIOUS
  <1>2. CASE e \notin entities
    BY <1>1, <1>2 DEF MergeSeen
  <1>3. CASE e \in entities /\ table[e] = Unseen
    BY <1>3 DEF MergeSeen, SpanAt, Span
  <1>4. CASE e \in entities /\ table[e] # Unseen
    <2>1. table[e].first \in Nat \cup {NoTime} /\ table[e].last \in Nat \cup {NoTime}
      BY <1>1 DEF Span
    <2>2. /\ Max({at, table[e].last}) = at
          /\ Min({at, table[e].first}) \in Nat \cup {NoTime}
          /\ Min({at, table[e].first}) <= at
      <3> DEFINE first == table[e].first
                 last == table[e].last
      <3>1. at \in Int /\ first \in Int /\ last \in Int /\ last <= at
        BY <2>1 DEF NoTime
      <3> HIDE DEF first, last
      <3>2. /\ Max({at, last}) = IF at >= last THEN at ELSE last
            /\ Min({at, first}) = IF at <= first THEN at ELSE first
        BY <3>1, MinMaxOfTwo
      <3>3. Max({at, last}) = at /\ Min({at, first}) <= at /\ Min({at, first}) \in {at, first}
        BY <3>1, <3>2
      <3>4. QED
        BY <2>1, <3>3 DEF first, last
    <2>3. span = [first |-> Min({at, table[e].first}), last |-> Max({at, table[e].last})]
      BY <1>4 DEF MergeSeen
    <2>4. QED
      BY <1>4, <2>2, <2>3 DEF Span
  <1>5. QED
    BY <1>2, <1>3, <1>4

\* An upsert of a runner sees its entities at the latest cycle.
LEMMA UpsertAgrees ==
  ASSUME LoneInv, SeenTyped, SeenAgree, NEW r \in Runners, pc[r] # "idle",
         UNCHANGED lastStart, NEW entities, Upsert(r, entities)
  PROVE  SeenTyped' /\ SeenAgree'
  <1>1. now[r] = Cycle /\ now[r] \in Nat /\ Cycle' = Cycle
    BY OwnRow DEF Cycle
  <1> DEFINE at == now[r]
  <1>2. \A e \in Entities :
           /\ seen'[e] \in Span
           /\ e \notin entities => seen'[e] = seen[e]
           /\ e \in entities => seen'[e].last = at /\ seen'[e].first <= at
    BY <1>1, MergedSpan DEF Upsert, SeenTyped, SeenAgree
  <1>3. seen' = [e \in Entities |-> seen'[e]]
    BY DEF Upsert, MergeSeen
  <1>4. ~lost' => \A e \in Entities :
           memSeen'[e] = IF e \in entities THEN SpanAt(at) ELSE memSeen[e]
    BY DEF Upsert, ReplaceSeen
  <1>5. ~lost' => memSeen' = [e \in Entities |-> memSeen'[e]]
    BY DEF Upsert, ReplaceSeen
  <1>6. SpanAt(at) \in Span /\ SpanAt(at).last = at /\ SpanAt(at).first = at
    BY <1>1 DEF SpanAt, Span
  <1>7. lost' = lost
    BY DEF Upsert
  <1> HIDE DEF at
  <1>8. SeenTyped'
    <2>1. seen' \in [Entities -> Span]
      BY <1>2, <1>3
    <2>2. ~lost' => \A e \in Entities : memSeen'[e] \in Span
      BY <1>4, <1>6, <1>7 DEF SeenTyped
    <2>3. ~lost' => memSeen' \in [Entities -> Span]
      BY <1>5, <2>2
    <2>4. QED
      BY <1>7, <2>1, <2>3 DEF SeenTyped
  <1>9. SeenAgree'
    <2> SUFFICES ASSUME NEW e \in Entities
                 PROVE  /\ seen'[e].last <= Cycle'
                        /\ ~lost' => /\ memSeen'[e].last = seen'[e].last
                                     /\ memSeen'[e].first >= seen'[e].first
      BY DEF SeenAgree
    <2>1. CASE e \in entities
      BY <1>1, <1>2, <1>4, <1>6, <2>1 DEF at, Span, NoTime
    <2>2. CASE e \notin entities
      BY <1>1, <1>2, <1>4, <1>7, <2>2 DEF SeenAgree
    <2>3. QED
      BY <2>1, <2>2
  <1>10. QED
    BY <1>8, <1>9

LEMMA SeenStep ==
  ASSUME Lone, LoneInv, SeenTyped, SeenAgree, [TwinNext]_twinVars
  PROVE  SeenTyped' /\ SeenAgree'
  <1>1. CASE UNCHANGED <<seen, memSeen, lost, lastStart>>
    BY <1>1 DEF SeenTyped, SeenAgree, Cycle
  <1>2. ASSUME NEW r \in Runners, TwinStart(r) PROVE SeenTyped' /\ SeenAgree'
    <2>1. /\ UNCHANGED <<seen, memSeen, lost>>
          /\ lastStart[r] < clock /\ lastStart'[r] = clock /\ clock \in Nat
      BY <1>2 DEF TwinStart, twins, memory, StartCycle, LoneInv, TypeOK, Time
    <2>2. Cycle \in Nat \cup {NoTime} /\ Cycle < clock /\ Cycle' = clock
      <3>1. (CHOOSE q \in Runners : TRUE) = r
        BY DEF Lone
      <3>2. QED
        BY <2>1, <3>1, CycleOfRunner DEF Cycle, LoneInv
    <2>3. \A e \in Entities : seen[e].last \in Nat \cup {NoTime}
      BY DEF SeenTyped, Span
    <2>4. QED
      BY <2>1, <2>2, <2>3 DEF SeenTyped, SeenAgree, NoTime
  <1>3. ASSUME NEW r \in Runners, TwinUpsert(r) PROVE SeenTyped' /\ SeenAgree'
    <2>1. pc[r] # "idle" /\ UNCHANGED lastStart
      BY <1>3 DEF TwinUpsert, UpsertAccounts, UpsertContents, Proceed, At
    <2>2. PICK entities : Upsert(r, entities)
      BY <1>3 DEF TwinUpsert
    <2>3. QED
      BY <2>1, <2>2, UpsertAgrees
  <1>4. ASSUME NEW r \in Runners, TwinCrash(r) PROVE SeenTyped' /\ SeenAgree'
    BY <1>4 DEF TwinCrash, Crash, SeenTyped, SeenAgree, Cycle
  <1>5. ASSUME NEW r \in Runners,
               \/ TwinCreate(r) \/ TwinMark(r) \/ TwinSaveCursor(r) \/ TwinFail(r)
               \/ TwinAppend(r) \/ TwinOther(r)
        PROVE  UNCHANGED <<seen, memSeen, lost, lastStart>>
    BY <1>5
    DEF TwinCreate, TwinMark, TwinSaveCursor, TwinFail, TwinAppend, TwinOther, InsertJob,
        SelectJob, MarkRunning, MarkSucceeded, SavePageCursor, RecordJobFailure,
        AppendSnapshots, Fetch, AppendRaw, BuildTrend, TryThrows, Proceed, MemRow, twins,
        memory
  <1>6. TwinTick \/ UNCHANGED twinVars => UNCHANGED <<seen, memSeen, lost, lastStart>>
    BY DEF TwinTick, Tick, twinVars, vars, twins, memory
  <1>7. QED
    BY <1>1, <1>2, <1>3, <1>4, <1>5, <1>6 DEF TwinNext, TwinAdvance

-----------------------------------------------------------------------------
(* A job appends its snapshots once.                                       *)

\* While a job is run and has not appended, it has no snapshot.
LEMMA NotYetAppended ==
  ASSUME Lone, LoneInv, AppendedOnce, ~lost, NEW r \in Runners,
         pc[r] \notin {"save_cursor", "mark_succeeded"},
         jobs[JobOf(r)].status # "succeeded", NEW s \in snapshots
  PROVE  s.job # JobOf(r)
  BY OneRunner DEF AppendedOnce, Appended

\* A runner that writes the row of a job that is not appended takes no other out
\* of the list.
LEMMA OtherRowsAppended ==
  ASSUME Lone, LoneInv, NEW r \in Runners, pc[r] \notin {"save_cursor", "mark_succeeded"},
         NEW row, jobs' = [jobs EXCEPT ![JobOf(r)] = row],
         NEW j \in Job, j # JobOf(r), Appended(j)
  PROVE  Appended(j)'
  <1>1. jobs[j].status = "succeeded"
    BY OneRunner DEF Appended
  <1>2. jobs'[j] = jobs[j]
    BY OwnRow DEF TypeOK
  <1>3. QED
    BY <1>1, <1>2 DEF Appended

LEMMA AppendedStep ==
  ASSUME Lone, StoresDoNotThrow, LoneInv, AppendedOnce, ~lost, ~lost', [TwinNext]_twinVars
  PROVE  \A s \in snapshots : Appended(s.job)'
  <1> SUFFICES ASSUME NEW s \in snapshots PROVE Appended(s.job)'
    OBVIOUS
  <1>1. Appended(s.job) /\ s.job \in Job
    BY DEF AppendedOnce, LoneInv, TypeOK, Snapshot
  <1>2. ASSUME UNCHANGED <<jobs, pc, now, target, kind>> PROVE Appended(s.job)'
    BY <1>1, <1>2 DEF Appended, JobOf
  <1>3. ASSUME NEW r \in Runners, UNCHANGED jobs,
               pc[r] \notin {"save_cursor", "mark_succeeded"}
        PROVE  Appended(s.job)'
    BY <1>1, <1>3, OneRunner DEF Appended
  <1>4. ASSUME NEW r \in Runners, NEW row, jobs' = [jobs EXCEPT ![JobOf(r)] = row],
               pc[r] \notin {"save_cursor", "mark_succeeded"},
               jobs[JobOf(r)].status # "succeeded"
        PROVE  Appended(s.job)'
    <2>1. s.job # JobOf(r)
      BY <1>4, NotYetAppended
    <2>2. QED
      BY <1>1, <1>4, <2>1, OtherRowsAppended
  <1>5. ASSUME NEW r \in Runners, TwinCreate(r) PROVE Appended(s.job)'
    <2>1. CASE UNCHANGED jobs
      BY <1>3, <1>5, <2>1 DEF TwinCreate, InsertJob, SelectJob, At
    <2>2. CASE InsertJob(r) /\ ~Exists(jobs[JobOf(r)])
      BY <1>4, <2>2 DEF InsertJob, At, Exists
    <2>3. QED
      BY <1>5, <2>1, <2>2 DEF TwinCreate, InsertJob, SelectJob, tables
  <1>6. ASSUME NEW r \in Runners, MarkRunning(r) PROVE Appended(s.job)'
    <2>1. jobs[JobOf(r)].status # "succeeded"
      BY <1>6, OwnRow DEF MarkRunning, Proceed, At, RowKnown
    <2>2. QED
      BY <1>4, <1>6, <2>1 DEF MarkRunning, Proceed, At
  <1>7. ASSUME NEW r \in Runners, TwinFail(r) PROVE Appended(s.job)'
    <2>1. jobs[JobOf(r)].status # "succeeded"
      BY <1>7, OwnRow DEF TwinFail, RecordJobFailure, At, RowKnown
    <2>2. QED
      BY <1>4, <1>7, <2>1 DEF TwinFail, RecordJobFailure, At
  <1>8. ASSUME NEW r \in Runners, MarkSucceeded(r) PROVE Appended(s.job)'
    <2>1. jobs'[JobOf(r)].status = "succeeded"
      BY <1>8, OwnRow DEF MarkSucceeded, Succeeded, SetStatus, TypeOK, Row
    <2>2. s.job # JobOf(r) => jobs'[s.job] = jobs[s.job] /\ jobs[s.job].status = "succeeded"
      BY <1>1, <1>8, OwnRow, OneRunner DEF MarkSucceeded, Succeeded, Appended, TypeOK
    <2>3. QED
      BY <2>1, <2>2 DEF Appended
  <1>9. ASSUME NEW r \in Runners, SavePageCursor(r) PROVE Appended(s.job)'
    <2>1. /\ pc'[r] = "mark_succeeded" /\ JobOf(r)' = JobOf(r)
          /\ \A j \in Job \ {JobOf(r)} : jobs'[j] = jobs[j]
      BY <1>9, OwnRow DEF SavePageCursor, Proceed, GoTo, TypeOK, JobOf, locals
    <2>2. CASE s.job = JobOf(r)
      BY <2>1, <2>2 DEF Appended
    <2>3. CASE s.job # JobOf(r)
      BY <1>1, <2>1, <2>3, OneRunner DEF Appended
    <2>4. QED
      BY <2>2, <2>3
  <1>10. ASSUME NEW r \in Runners,
                TwinStart(r) \/ TwinUpsert(r) \/ TwinAppend(r) \/ TwinOther(r)
         PROVE  Appended(s.job)'
    <2>1. UNCHANGED jobs
      BY <1>10
      DEF TwinStart, TwinUpsert, TwinAppend, TwinOther, StartCycle, UpsertAccounts,
          UpsertContents, AppendSnapshots, Fetch, AppendRaw, BuildTrend, TryThrows, tables
    <2>2. pc[r] \notin {"save_cursor", "mark_succeeded"}
      BY <1>10
      DEF TwinStart, TwinUpsert, TwinAppend, TwinOther, StartCycle, UpsertAccounts,
          UpsertContents, AppendSnapshots, Fetch, AppendRaw, BuildTrend, TryThrows, At,
          Proceed, StoresDoNotThrow
    <2>3. QED
      BY <1>3, <2>1, <2>2
  <1>11. \A r \in Runners : ~TwinCrash(r)
    BY DEF TwinCrash
  <1>12. TwinTick \/ UNCHANGED twinVars => UNCHANGED <<jobs, pc, now, target, kind>>
    BY DEF TwinTick, Tick, twinVars, vars, tables, locals
  <1>13. QED
    BY <1>2, <1>5, <1>6, <1>7, <1>8, <1>9, <1>10, <1>11, <1>12
    DEF TwinNext, TwinAdvance, TwinMark, TwinSaveCursor

\* Appending rows of keys that the table does not have yet is the same for a
\* table that keeps the first value of a key and one that keeps the last.
LEMMA FreshAppend ==
  ASSUME NEW table, NEW rows, \A s \in rows, t \in table : ~SameKey(s, t)
  PROVE  /\ InsertMissing(table, rows) = table \cup rows
         /\ MemAppend(table, rows) = table \cup rows
  BY DEF InsertMissing, MemAppend, SameKey

\* The append of a job, in both stores.
LEMMA AppendAgrees ==
  ASSUME Lone, LoneInv, AppendedOnce, ~lost, memSnapshots = snapshots,
         NEW r \in Runners, TwinAppend(r)
  PROVE  /\ memSnapshots' = snapshots'
         /\ \A s \in snapshots' \ snapshots : Appended(s.job)'
  <1> DEFINE rows == SnapshotsOf(JobOf(r), page[r])
  <1>1. jobs[JobOf(r)].status = "running" /\ pc[r] = "append_snapshots"
    BY OwnRow DEF TwinAppend, AppendSnapshots, Proceed, At, RowKnown, TrySteps
  <1>2. \A s \in rows : s.job = JobOf(r)
    BY DEF SnapshotsOf
  <1>3. \A s \in rows, t \in snapshots : ~SameKey(s, t)
    BY <1>1, <1>2, NotYetAppended DEF SameKey
  <1>4. /\ snapshots' = InsertMissing(snapshots, rows)
        /\ memSnapshots' = MemAppend(snapshots, rows)
    BY DEF TwinAppend, AppendSnapshots
  <1> HIDE DEF rows
  <1>5. snapshots' = snapshots \cup rows /\ memSnapshots' = snapshots \cup rows
    BY <1>3, <1>4, FreshAppend
  <1>6. pc'[r] \in {"save_cursor", "mark_succeeded"} /\ JobOf(r)' = JobOf(r)
    BY OwnRow DEF TwinAppend, AppendSnapshots, Proceed, GoTo, TypeOK, JobOf, locals
  <1>7. QED
    BY <1>2, <1>5, <1>6 DEF Appended

LEMMA SnapshotsStep ==
  ASSUME Lone, StoresDoNotThrow, TwinInv, [TwinNext]_twinVars
  PROVE  AppendedOnce' /\ (~lost' => memSnapshots' = snapshots')
  <1> USE DEF TwinInv
  <1>1. CASE lost \/ lost'
    BY <1>1, LostForGood DEF AppendedOnce
  <1>2. CASE ~lost /\ ~lost'
    <2>1. \A s \in snapshots : Appended(s.job)'
      BY <1>2, AppendedStep
    <2>2. ASSUME NEW r \in Runners, TwinAppend(r)
          PROVE  AppendedOnce' /\ memSnapshots' = snapshots'
      BY <1>2, <2>1, <2>2, AppendAgrees DEF AppendedOnce
    <2>3. CASE UNCHANGED <<snapshots, memSnapshots>>
      BY <1>2, <2>1, <2>3 DEF AppendedOnce
    <2>4. ASSUME NEW r \in Runners,
                 \/ TwinStart(r) \/ TwinCreate(r) \/ TwinMark(r) \/ TwinSaveCursor(r)
                 \/ TwinFail(r) \/ TwinUpsert(r) \/ TwinOther(r)
          PROVE  UNCHANGED <<snapshots, memSnapshots>>
      BY <2>4
      DEF TwinStart, TwinCreate, TwinMark, TwinSaveCursor, TwinFail, TwinUpsert, TwinOther,
          StartCycle, InsertJob, SelectJob, MarkRunning, MarkSucceeded, SavePageCursor,
          RecordJobFailure, UpsertAccounts, UpsertContents, Fetch, AppendRaw, BuildTrend,
          TryThrows, MemRow, Upsert, twins, memory, tables
    <2>5. \A r \in Runners : ~TwinCrash(r)
      BY <1>2 DEF TwinCrash
    <2>6. TwinTick \/ UNCHANGED twinVars => UNCHANGED <<snapshots, memSnapshots>>
      BY DEF TwinTick, Tick, twinVars, vars, twins, memory, tables
    <2>7. QED
      BY <2>2, <2>3, <2>4, <2>5, <2>6 DEF TwinNext, TwinAdvance
  <1>3. QED
    BY <1>1, <1>2

-----------------------------------------------------------------------------
LEMMA InitTwinInv ==
  ASSUME Lone
  PROVE  TwinInit => TwinInv
  <1> SUFFICES ASSUME TwinInit PROVE TwinInv
    OBVIOUS
  <1>1. Init /\ LoneInv
    BY InitLoneInv DEF TwinInit
  <1>2. Unseen \in Span /\ Unseen.first = NoTime /\ Unseen.last = NoTime
    BY DEF Unseen, Span
  <1>3. SeenTyped
    BY <1>2 DEF TwinInit, EmptyMemory, SeenTyped
  <1>4. PICK me : Runners = {me}
    BY DEF Lone
  <1>5. Cycle = NoTime
    BY <1>1, <1>4, CycleOfRunner DEF Init
  <1>6. SeenAgree
    BY <1>2, <1>5 DEF TwinInit, EmptyMemory, SeenAgree, NoTime
  <1>7. JobTablesAgree /\ AppendedOnce /\ memSnapshots = snapshots
    BY <1>1 DEF TwinInit, EmptyMemory, Init, JobTablesAgree, AppendedOnce
  <1>8. QED
    BY <1>1, <1>3, <1>6, <1>7 DEF TwinInv

\* The comparison invariant holds as long as the stores do not throw.
THEOREM TwinInvariance ==
  ASSUME Lone, StoresDoNotThrow
  PROVE  TwinSpec => []TwinInv
  <1>1. TwinInit => TwinInv
    BY InitTwinInv
  <1>2. TwinInv /\ [TwinNext]_twinVars => TwinInv'
    <2> SUFFICES ASSUME TwinInv, [TwinNext]_twinVars PROVE TwinInv'
      OBVIOUS
    <2>1. LoneInv'
      BY TwinStep, StepLoneInv DEF TwinInv
    <2>2. JobTablesAgree'
      BY JobTablesStep DEF TwinInv
    <2>3. SeenTyped' /\ SeenAgree'
      BY SeenStep DEF TwinInv
    <2>4. QED
      BY <2>1, <2>2, <2>3, SnapshotsStep DEF TwinInv
  <1>3. TwinSpec => TwinInit /\ [][TwinNext]_twinVars
    BY PTL DEF TwinSpec
  <1>4. QED
    BY <1>1, <1>2, <1>3, PTL

\* What a test reads of collection_job in memory is what Postgres would hold,
\* for every target, window and retry policy, until the process dies.
THEOREM JobTablesSame ==
  ASSUME Lone, StoresDoNotThrow
  PROVE  TwinSpec => []JobTablesAgree
  <1>1. TwinInv => JobTablesAgree
    BY DEF TwinInv
  <1>2. QED
    BY TwinInvariance, <1>1, PTL

\* The metrics and the last times are the same too, although one store keeps the
\* first value of a key and the other the last; first times are not.
THEOREM ObservationsSame ==
  ASSUME Lone, StoresDoNotThrow
  PROVE  TwinSpec => []ObservationsAgree
  <1>1. TwinInv => ObservationsAgree
    BY DEF TwinInv, ObservationsAgree, SeenAgree
  <1>2. QED
    BY TwinInvariance, <1>1, PTL

\* A lone runner keeps the life of its jobs also with the two stores side by side.
THEOREM TwinsKeepLifecycle ==
  ASSUME Lone
  PROVE  TwinSpec => KeepsLifecycle
  <1>1. TwinInit => Init
    BY DEF TwinInit
  <1>2. [TwinNext]_twinVars => [Next]_vars
    BY TwinStep
  <1>3. TwinSpec => TwinInit /\ [][TwinNext]_twinVars
    BY PTL DEF TwinSpec
  <1>4. TwinSpec => Spec
    BY <1>1, <1>2, <1>3, PTL DEF Spec
  <1>5. QED
    BY <1>4, LoneRunnerKeepsLifecycle
=============================================================================
