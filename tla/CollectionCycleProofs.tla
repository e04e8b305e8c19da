----------------------- MODULE CollectionCycleProofs -----------------------
(***************************************************************************)
(* Proofs about CollectionCycle for any number of runners, targets, posts  *)
(* and windows, and for every set of faults.  First what the statements on *)
(* one row of collection_job preserve, then the steps of the cycle.        *)
(***************************************************************************)
EXTENDS CollectionCycle, FiniteSetTheorems, TLAPS

\* The exponent of the backoff: 2^n counts the subsets of 1..n.
LEMMA PowerIsCardinality ==
  ASSUME NEW n \in Nat
  PROVE  /\ IsFiniteSet(SUBSET (1..n))
         /\ Cardinality(SUBSET (1..n)) = 2^n
         /\ 2^n \in Nat
  <1>1. IsFiniteSet(1..n) /\ Cardinality(1..n) = n
    BY FS_Interval
  <1>2. IsFiniteSet(SUBSET (1..n)) /\ Cardinality(SUBSET (1..n)) = 2^n
    BY <1>1, FS_SUBSET
  <1>3. QED
    BY <1>2, FS_CardinalityType

\* Powers of two grow with their exponent.
LEMMA PowerMonotone ==
  ASSUME NEW m \in Nat, NEW n \in Nat, m <= n
  PROVE  2^m <= 2^n
  <1>1. SUBSET (1..m) \subseteq SUBSET (1..n)
    OBVIOUS
  <1>2. Cardinality(SUBSET (1..m)) <= Cardinality(SUBSET (1..n))
    BY <1>1, PowerIsCardinality, FS_Subset
  <1>3. QED
    BY <1>2, PowerIsCardinality

\* computeRetryDelayMs returns a natural number that MaxDelay caps.
LEMMA RetryDelayType ==
  ASSUME NEW n \in Nat
  PROVE  RetryDelay(n) \in Nat /\ RetryDelay(n) <= MaxDelay
  <1> DEFINE exponent == IF n > 1 THEN n - 1 ELSE 0
  <1>1. exponent \in Nat
    OBVIOUS
  <1>2. RetryDelay(n) = IF BaseDelay * 2^exponent < MaxDelay
                        THEN BaseDelay * 2^exponent ELSE MaxDelay
    BY DEF RetryDelay
  <1> HIDE DEF exponent
  <1>3. 2^exponent \in Nat
    BY <1>1, PowerIsCardinality
  <1>4. QED
    BY <1>2, <1>3, RetryPolicyAssumption

\* A product does not shrink when one of its factors grows.
LEMMA ProductMonotone ==
  ASSUME NEW k \in Nat, NEW a \in Nat, NEW b \in Nat, a <= b
  PROVE  k * a <= k * b
  <1>1. k * (b - a) \in Nat
    OBVIOUS
  <1>2. k * b = k * a + k * (b - a)
    OBVIOUS
  <1>3. QED
    BY <1>1, <1>2

\* A later failure of a job never waits less than an earlier one.
THEOREM BackoffNeverShrinks ==
  ASSUME NEW m \in Nat, NEW n \in Nat, m <= n
  PROVE  RetryDelay(m) <= RetryDelay(n)
  <1> DEFINE em == IF m > 1 THEN m - 1 ELSE 0
             en == IF n > 1 THEN n - 1 ELSE 0
  <1>1. em \in Nat /\ en \in Nat /\ em <= en
    OBVIOUS
  <1>2. 2^em \in Nat /\ 2^en \in Nat /\ 2^em <= 2^en
    BY <1>1, PowerIsCardinality, PowerMonotone
  <1> HIDE DEF em, en
  <1>3. /\ BaseDelay * 2^em \in Nat
        /\ BaseDelay * 2^en \in Nat
        /\ BaseDelay * 2^em <= BaseDelay * 2^en
    <2> DEFINE pm == 2^em
               pn == 2^en
    <2>1. pm \in Nat /\ pn \in Nat /\ pm <= pn
      BY <1>2
    <2> HIDE DEF pm, pn
    <2>2. BaseDelay * pm \in Nat /\ BaseDelay * pn \in Nat
      BY <2>1, RetryPolicyAssumption
    <2>3. BaseDelay * pm <= BaseDelay * pn
      BY <2>1, ProductMonotone, RetryPolicyAssumption
    <2>4. QED
      BY <2>2, <2>3 DEF pm, pn
  <1>4. /\ RetryDelay(m) = IF BaseDelay * 2^em < MaxDelay THEN BaseDelay * 2^em ELSE MaxDelay
        /\ RetryDelay(n) = IF BaseDelay * 2^en < MaxDelay THEN BaseDelay * 2^en ELSE MaxDelay
    BY DEF RetryDelay, em, en
  <1>5. QED
    <2> DEFINE dm == BaseDelay * 2^em
               dn == BaseDelay * 2^en
    <2>1. /\ RetryDelay(m) = IF dm < MaxDelay THEN dm ELSE MaxDelay
          /\ RetryDelay(n) = IF dn < MaxDelay THEN dn ELSE MaxDelay
      BY <1>4
    <2>2. dm \in Nat /\ dn \in Nat /\ dm <= dn
      BY <1>3
    <2> HIDE DEF dm, dn
    <2>3. QED
      BY <2>1, <2>2, RetryPolicyAssumption

-----------------------------------------------------------------------------
\* The row both jobs insert is well formed.
LEMMA QueuedRowOK ==
  ASSUME NEW time \in Nat
  PROVE  QueuedRow(time) \in Row /\ RowConsistent(QueuedRow(time))
  BY DEF QueuedRow, Row, JobStatus, NoTime, RowConsistent

\* A table without the row is consistent too.
LEMMA NoRowOK == NoRow \in Row /\ RowConsistent(NoRow)
  BY DEF NoRow, Row, JobStatus, NoTime, RowConsistent

\* updateStatus to running or succeeded keeps a row well formed, whatever its
\* status was.
LEMMA SetStatusOK ==
  ASSUME NEW row \in Row, NEW status \in {"running", "succeeded"}
  PROVE  SetStatus(row, status) \in Row /\ RowConsistent(SetStatus(row, status))
  BY DEF SetStatus, Row, JobStatus, NoTime, RowConsistent

\* saveCursor changes no other column.
LEMMA SaveCursorOK ==
  ASSUME NEW row \in Row, RowConsistent(row)
  PROVE  SaveCursor(row) \in Row /\ RowConsistent(SaveCursor(row))
  BY DEF SaveCursor, Row, RowConsistent

\* Well-typed columns make a well-typed row.
LEMMA UpdatedRowType ==
  ASSUME NEW row \in Row, NEW count \in Nat, NEW status \in JobStatus,
         NEW due \in Nat \cup {NoTime}, NEW finished \in BOOLEAN, NEW dead \in BOOLEAN
  PROVE  [row EXCEPT !.retryCount = count, !.status = status, !.nextRunAt = due,
                     !.finished = finished, !.deadLettered = dead] \in Row
  BY DEF Row

\* fail keeps a row well formed, whatever its status was and however stale the
\* caller's delay is.
LEMMA RecordFailureOK ==
  ASSUME NEW row \in Row, NEW time \in Nat, NEW delay \in Nat
  PROVE  /\ RecordFailure(row, time, delay) \in Row
         /\ RowConsistent(RecordFailure(row, time, delay))
  <1> DEFINE new == RecordFailure(row, time, delay)
  <1>1. RetriesExhausted(row) \in BOOLEAN
    BY DEF RetriesExhausted
  <1>2. CASE RetriesExhausted(row) = TRUE
    <2>1. new = [row EXCEPT !.retryCount = @ + 1, !.status = "dead_letter",
                            !.nextRunAt = NoTime, !.finished = TRUE,
                            !.deadLettered = TRUE]
      BY <1>2 DEF RecordFailure
    <2>2. row.retryCount + 1 > MaxRetries
      BY <1>2 DEF RetriesExhausted
    <2> HIDE DEF new
    <2>3. new \in Row
      <3>1. row.retryCount + 1 \in Nat
        BY DEF Row
      <3>2. QED
        BY <2>1, <3>1, UpdatedRowType DEF JobStatus
    <2>4. /\ new.retryCount = row.retryCount + 1
          /\ new.status = "dead_letter"
          /\ new.nextRunAt = NoTime
          /\ new.finished = TRUE
          /\ new.deadLettered = TRUE
      BY <2>1 DEF Row
    <2>5. RowConsistent(new)
      BY <2>2, <2>4 DEF RowConsistent
    <2>6. QED
      BY <2>3, <2>5 DEF new
  <1>3. CASE RetriesExhausted(row) = FALSE
    <2>1. new = [row EXCEPT !.retryCount = @ + 1, !.status = "retrying",
                            !.nextRunAt = time + delay, !.finished = FALSE,
                            !.deadLettered = FALSE]
      BY <1>3 DEF RecordFailure
    <2>2. row.retryCount + 1 \in 1 .. MaxRetries
      BY <1>3, RetryPolicyAssumption DEF RetriesExhausted, Row
    <2> HIDE DEF new
    <2>3. new \in Row
      <3>1. row.retryCount + 1 \in Nat
        BY DEF Row
      <3>2. time + delay \in Nat \cup {NoTime}
        OBVIOUS
      <3>3. QED
        BY <2>1, <3>1, <3>2, UpdatedRowType DEF JobStatus
    <2>4. /\ new.retryCount = row.retryCount + 1
          /\ new.status = "retrying"
          /\ new.nextRunAt = time + delay
          /\ new.finished = FALSE
          /\ new.deadLettered = FALSE
      BY <2>1 DEF Row
    <2>5. RowConsistent(new)
      BY <2>2, <2>4 DEF RowConsistent, NoTime
    <2>6. QED
      BY <2>3, <2>5 DEF new
  <1>4. QED
    BY <1>1, <1>2, <1>3

-----------------------------------------------------------------------------
(* The steps of a runner.                                                  *)

\* The steps of a runner in one disjunction each.
LEMMA StepCases ==
  ASSUME Next
  PROVE  \/ Tick
         \/ \E r \in Runners :
              \/ StartCycle(r) \/ InsertJob(r) \/ SelectJob(r) \/ MarkRunning(r)
              \/ Fetch(r) \/ AppendRaw(r) \/ UpsertAccounts(r) \/ UpsertContents(r)
              \/ AppendSnapshots(r) \/ SavePageCursor(r) \/ MarkSucceeded(r)
              \/ RecordJobFailure(r) \/ FailureRejected(r) \/ BuildTrend(r)
              \/ TryThrows(r) \/ CallThrows(r) \/ SucceededAckLost(r) \/ Crash(r)
  BY DEF Next, Advance

\* The job a runner works on is a key of the table.
LEMMA JobOfType ==
  ASSUME TypeOK, NEW r \in Runners
  PROVE  /\ JobOf(r) \in Job
         /\ JobOf(r).kind = kind[r]
         /\ now[r] \in Nat
  <1>1. now[r] \in Time /\ target[r] \in Targets /\ kind[r] \in Kinds
    BY DEF TypeOK
  <1>2. WindowStart(now[r]) \in Windows
    BY <1>1 DEF Windows
  <1>3. QED
    BY <1>1, <1>2, WindowingAssumption DEF JobOf, Job, Time

\* What a page holds, by the kind of the job it is fetched for.
LEMMA PageShape ==
  ASSUME NEW k \in Kinds, NEW p \in PagesOf(k)
  PROVE  /\ p \in Page
         /\ p.posts \subseteq Posts
         /\ p.metrics \subseteq AboutMetrics \cup Posts
         /\ p.length \in Nat
         /\ k = "posts" => p.metrics \subseteq p.posts
         /\ k = "about" => p.metrics \subseteq AboutMetrics
  <1>1. p \in Page /\ (IF k = "about" THEN IsAboutPage(p) ELSE IsListing(p))
    BY DEF PagesOf
  <1>2. 0 .. PageLimit \subseteq Nat
    BY CycleAssumption
  <1>3. QED
    BY <1>1, <1>2 DEF Page, IsAboutPage, IsListing

\* The snapshots of a page are well typed.
LEMMA SnapshotsOfType ==
  ASSUME NEW j \in Job, NEW k \in Kinds, NEW p \in PagesOf(k)
  PROVE  SnapshotsOf(j, p) \subseteq Snapshot
  <1>1. p.metrics \subseteq AboutMetrics \cup Posts /\ p.length \in Nat
    BY PageShape
  <1>2. QED
    BY <1>1 DEF SnapshotsOf, Snapshot, Item

-----------------------------------------------------------------------------
(* Types.                                                                  *)

\* The locals AbortCycle, JobReturns and Dispatch leave behind.
LocalsOK ==
    /\ pc \in [Runners -> Steps]
    /\ now \in [Runners -> Time]
    /\ target \in [Runners -> Targets]
    /\ kind \in [Runners -> Kinds]
    /\ seenRetries \in [Runners -> Nat]
    /\ page \in [Runners -> Page]
    /\ \A r \in Runners :
          /\ page[r] \in PagesOf(kind[r])
          /\ pc[r] \in PostsOnly => kind[r] = "posts"

\* The empty page fits either job.
LEMMA NoPageType ==
  /\ NoPage \in Page
  /\ \A k \in Kinds : NoPage \in PagesOf(k)
  <1>1. 0 \in 0 .. PageLimit
    BY CycleAssumption
  <1>2. NoPage \in Page
    BY <1>1 DEF NoPage, Page
  <1>3. Cardinality({}) = 0
    BY FS_EmptySet
  <1>4. IsAboutPage(NoPage) /\ IsListing(NoPage)
    BY <1>3 DEF NoPage, IsAboutPage, IsListing
  <1>5. QED
    BY <1>2, <1>4 DEF PagesOf

LEMMA AbortCycleType ==
  ASSUME TypeOK, NEW r \in Runners, AbortCycle(r)
  PROVE  LocalsOK'
  <1>1. 0 \in Time /\ 1 \in Targets /\ (\A k \in Kinds : NoPage \in PagesOf(k))
    BY CycleAssumption, WindowingAssumption, NoPageType DEF Time, Targets
  <1>2. QED
    BY <1>1, NoPageType DEF TypeOK, AbortCycle, GoTo, Forget, LocalsOK, Steps, Kinds, PostsOnly

LEMMA JobReturnsType ==
  ASSUME TypeOK, NEW r \in Runners, JobReturns(r)
  PROVE  LocalsOK'
  BY NoPageType
  DEF TypeOK, JobReturns, GoTo, Forget, LocalsOK, Steps, Kinds, PostsOnly

LEMMA DispatchType ==
  ASSUME TypeOK, NEW r \in Runners, NEW row \in Row, Dispatch(r, row)
  PROVE  LocalsOK'
  <1>1. CASE ShouldRun(row, now[r])
    BY <1>1 DEF TypeOK, Dispatch, GoTo, LocalsOK, Steps, Row, PostsOnly
  <1>2. CASE ~ShouldRun(row, now[r])
    BY <1>2, JobReturnsType DEF Dispatch
  <1>3. QED
    BY <1>1, <1>2

\* What is left of TypeOK: the clock, the tables and the bound.
TablesOK ==
    /\ clock \in Time
    /\ jobs \in [Job -> Row]
    /\ rawEvents \in [Job -> Nat]
    /\ accounts \subseteq Authors
    /\ contents \subseteq Posts
    /\ snapshots \subseteq Snapshot
    /\ lastStart \in [Runners -> Time \cup {NoTime}]

LEMMA InitType == Init => TypeOK
  <1> SUFFICES ASSUME Init PROVE TypeOK
    OBVIOUS
  <1>1. /\ 0 \in Time
        /\ 1 \in Targets
        /\ NoRow \in Row
    BY CycleAssumption, WindowingAssumption, NoRowOK DEF Time, Targets
  <1>2. QED
    BY <1>1, NoPageType DEF Init, TypeOK, Steps, Kinds, PostsOnly

\* Every step of the specification keeps the types.
LEMMA TypeStep ==
  ASSUME TypeOK, [Next]_vars
  PROVE  TypeOK'
  <1> USE DEF TypeOK, PostsOnly
  <1>1. CASE Tick
    BY <1>1, WindowingAssumption DEF Tick, Time, tables, locals
  <1>2. ASSUME NEW r \in Runners, StartCycle(r) PROVE TypeOK'
    BY <1>2 DEF StartCycle, At, GoTo, Steps, tables
  <1>3. ASSUME NEW r \in Runners, InsertJob(r) PROVE TypeOK'
    <2>1. QueuedRow(now[r]) \in Row
      BY JobOfType, QueuedRowOK
    <2>2. LocalsOK'
      BY <1>3, <2>1, DispatchType DEF InsertJob, GoTo, LocalsOK, locals, Steps
    <2>3. TablesOK'
      BY <1>3, <2>1 DEF InsertJob, TablesOK
    <2>4. QED
      BY <2>2, <2>3 DEF LocalsOK, TablesOK
  <1>4. ASSUME NEW r \in Runners, SelectJob(r) PROVE TypeOK'
    <2>1. LocalsOK'
      BY <1>4, JobOfType, DispatchType DEF SelectJob
    <2>2. TablesOK'
      BY <1>4 DEF SelectJob, TablesOK, tables
    <2>3. QED
      BY <2>1, <2>2 DEF LocalsOK, TablesOK
  <1>5. ASSUME NEW r \in Runners, MarkRunning(r) PROVE TypeOK'
    <2>1. SetStatus(jobs[JobOf(r)], "running") \in Row
      BY JobOfType, SetStatusOK
    <2>2. QED
      BY <1>5, <2>1 DEF MarkRunning, Proceed, GoTo, Steps, TrySteps, locals
  <1>6. ASSUME NEW r \in Runners, Fetch(r) PROVE TypeOK'
    <2>1. PagesOf(kind[r]) \subseteq Page
      BY DEF PagesOf
    <2>2. QED
      BY <1>6, <2>1 DEF Fetch, GoTo, Steps, TrySteps, tables
  <1>7. ASSUME NEW r \in Runners, AppendRaw(r) PROVE TypeOK'
    <2>1. rawEvents' \in [Job -> Nat]
      BY <1>7, JobOfType DEF AppendRaw
    <2>2. /\ StepAfterRaw(r) \in Steps
          /\ StepAfterRaw(r) \in PostsOnly => kind[r] = "posts"
      BY DEF StepAfterRaw, Steps, TrySteps, Kinds
    <2>3. QED
      BY <1>7, <2>1, <2>2 DEF AppendRaw, Proceed, GoTo, locals
  <1>8. ASSUME NEW r \in Runners, UpsertAccounts(r) PROVE TypeOK'
    <2>1. page[r].posts \subseteq Posts
      BY PageShape
    <2>2. accounts' \subseteq Authors
      BY <1>8, <2>1, CycleAssumption DEF UpsertAccounts
    <2>3. QED
      BY <1>8, <2>2 DEF UpsertAccounts, Proceed, GoTo, At, Steps, TrySteps, locals
  <1>9. ASSUME NEW r \in Runners, UpsertContents(r) PROVE TypeOK'
    <2>1. page[r].posts \subseteq Posts
      BY PageShape
    <2>2. QED
      BY <1>9, <2>1 DEF UpsertContents, Proceed, GoTo, Steps, TrySteps, locals
  <1>10. ASSUME NEW r \in Runners, AppendSnapshots(r) PROVE TypeOK'
    <2>1. SnapshotsOf(JobOf(r), page[r]) \subseteq Snapshot
      BY JobOfType, SnapshotsOfType
    <2>2. QED
      BY <1>10, <2>1 DEF AppendSnapshots, InsertMissing, Proceed, GoTo, Steps, TrySteps, locals
  <1>11. ASSUME NEW r \in Runners, SavePageCursor(r) PROVE TypeOK'
    <2>1. SaveCursor(jobs[JobOf(r)]) \in Row
      <3>1. jobs[JobOf(r)] \in Row
        BY JobOfType
      <3>2. QED
        BY <3>1 DEF SaveCursor, Row
    <2>2. QED
      BY <1>11, <2>1 DEF SavePageCursor, Proceed, GoTo, Steps, TrySteps, locals
  <1>12. ASSUME NEW r \in Runners, MarkSucceeded(r) PROVE TypeOK'
    <2>1. SetStatus(jobs[JobOf(r)], "succeeded") \in Row
      BY JobOfType, SetStatusOK
    <2>2. LocalsOK'
      BY <1>12, JobReturnsType DEF MarkSucceeded
    <2>3. TablesOK'
      BY <1>12, <2>1 DEF MarkSucceeded, Succeeded, TablesOK
    <2>4. QED
      BY <2>2, <2>3 DEF LocalsOK, TablesOK
  <1>13. ASSUME NEW r \in Runners, RecordJobFailure(r) PROVE TypeOK'
    <2>1. RecordFailure(jobs[JobOf(r)], now[r], RetryDelay(seenRetries[r] + 1)) \in Row
      BY JobOfType, RetryDelayType, RecordFailureOK
    <2>2. LocalsOK'
      BY <1>13, AbortCycleType DEF RecordJobFailure
    <2>3. TablesOK'
      BY <1>13, <2>1 DEF RecordJobFailure, TablesOK
    <2>4. QED
      BY <2>2, <2>3 DEF LocalsOK, TablesOK
  <1>14. ASSUME NEW r \in Runners, FailureRejected(r) \/ CallThrows(r) \/ Crash(r)
         PROVE  TypeOK'
    <2>1. LocalsOK'
      BY <1>14, AbortCycleType DEF FailureRejected, CallThrows, Crash
    <2>2. TablesOK'
      BY <1>14 DEF FailureRejected, CallThrows, Crash, TablesOK, tables
    <2>3. QED
      BY <2>1, <2>2 DEF LocalsOK, TablesOK
  <1>15. ASSUME NEW r \in Runners, BuildTrend(r) PROVE TypeOK'
    <2>1. LocalsOK'
      <3>1. CASE target[r] < NumTargets
        <4>1. target[r] + 1 \in Targets
          BY <3>1, CycleAssumption DEF Targets
        <4>2. QED
          BY <1>15, <3>1, <4>1, NoPageType, CycleAssumption
          DEF BuildTrend, GoTo, Forget, LocalsOK, Steps, Kinds, Targets
      <3>2. CASE ~(target[r] < NumTargets)
        BY <1>15, <3>2, AbortCycleType DEF BuildTrend
      <3>3. QED
        BY <3>1, <3>2
    <2>2. TablesOK'
      BY <1>15 DEF BuildTrend, TablesOK, tables
    <2>3. QED
      BY <2>1, <2>2 DEF LocalsOK, TablesOK
  <1>16. ASSUME NEW r \in Runners, TryThrows(r) PROVE TypeOK'
    BY <1>16 DEF TryThrows, GoTo, Steps, tables, locals
  <1>17. ASSUME NEW r \in Runners, SucceededAckLost(r) PROVE TypeOK'
    <2>1. SetStatus(jobs[JobOf(r)], "succeeded") \in Row
      BY JobOfType, SetStatusOK
    <2>2. QED
      BY <1>17, <2>1 DEF SucceededAckLost, Succeeded, GoTo, Steps, locals
  <1>18. CASE UNCHANGED vars
    BY <1>18 DEF vars, tables, locals
  <1>19. QED
    BY StepCases, <1>1, <1>2, <1>3, <1>4, <1>5, <1>6, <1>7, <1>8, <1>9, <1>10,
       <1>11, <1>12, <1>13, <1>14, <1>15, <1>16, <1>17, <1>18

\* However the runners interleave and fail, tables and locals keep their types.
THEOREM Typing == Spec => []TypeOK
  <1>1. Init => TypeOK
    BY InitType
  <1>2. TypeOK /\ [Next]_vars => TypeOK'
    BY TypeStep
  <1>3. QED
    BY <1>1, <1>2, PTL DEF Spec

-----------------------------------------------------------------------------
(* Rows of collection_job.                                                 *)

\* Writing one consistent row keeps the table consistent.
LEMMA OneRowWritten ==
  ASSUME TypeOK, RowsConsistent, NEW j \in Job, NEW row \in Row, RowConsistent(row),
         jobs' = [jobs EXCEPT ![j] = row]
  PROVE  RowsConsistent'
  BY DEF TypeOK, RowsConsistent

\* Every step leaves every row consistent.
LEMMA RowsStep ==
  ASSUME TypeOK, RowsConsistent, [Next]_vars
  PROVE  RowsConsistent'
  <1>1. ASSUME NEW r \in Runners, InsertJob(r) PROVE RowsConsistent'
    <2>1. CASE jobs' = [jobs EXCEPT ![JobOf(r)] = QueuedRow(now[r])]
      BY <2>1, JobOfType, QueuedRowOK, OneRowWritten
    <2>2. CASE UNCHANGED jobs
      BY <2>2 DEF RowsConsistent
    <2>3. QED
      BY <1>1, <2>1, <2>2 DEF InsertJob
  <1>2. ASSUME NEW r \in Runners, MarkRunning(r) PROVE RowsConsistent'
    <2>1. jobs' = [jobs EXCEPT ![JobOf(r)] = SetStatus(jobs[JobOf(r)], "running")]
      BY <1>2 DEF MarkRunning
    <2>2. jobs[JobOf(r)] \in Row
      BY JobOfType DEF TypeOK
    <2>3. QED
      BY <2>1, <2>2, JobOfType, SetStatusOK, OneRowWritten
  <1>3. ASSUME NEW r \in Runners, SavePageCursor(r) PROVE RowsConsistent'
    <2>1. jobs' = [jobs EXCEPT ![JobOf(r)] = SaveCursor(jobs[JobOf(r)])]
      BY <1>3 DEF SavePageCursor
    <2>2. jobs[JobOf(r)] \in Row /\ RowConsistent(jobs[JobOf(r)])
      BY JobOfType DEF TypeOK, RowsConsistent
    <2>3. QED
      BY <2>1, <2>2, JobOfType, SaveCursorOK, OneRowWritten
  <1>4. ASSUME NEW r \in Runners, MarkSucceeded(r) \/ SucceededAckLost(r)
        PROVE  RowsConsistent'
    <2>1. jobs' = [jobs EXCEPT ![JobOf(r)] = SetStatus(jobs[JobOf(r)], "succeeded")]
      BY <1>4 DEF MarkSucceeded, SucceededAckLost, Succeeded
    <2>2. jobs[JobOf(r)] \in Row
      BY JobOfType DEF TypeOK
    <2>3. QED
      BY <2>1, <2>2, JobOfType, SetStatusOK, OneRowWritten
  <1>5. ASSUME NEW r \in Runners, RecordJobFailure(r) PROVE RowsConsistent'
    <2> DEFINE delay == RetryDelay(seenRetries[r] + 1)
    <2>1. jobs' = [jobs EXCEPT ![JobOf(r)] = RecordFailure(jobs[JobOf(r)], now[r], delay)]
      BY <1>5 DEF RecordJobFailure
    <2>2. jobs[JobOf(r)] \in Row
      BY JobOfType DEF TypeOK
    <2>3. delay \in Nat
      BY RetryDelayType DEF TypeOK
    <2> HIDE DEF delay
    <2>4. QED
      BY <2>1, <2>2, <2>3, JobOfType, RecordFailureOK, OneRowWritten
  <1>6. CASE UNCHANGED jobs
    BY <1>6 DEF RowsConsistent
  <1>7. ASSUME NEW r \in Runners,
               \/ StartCycle(r) \/ SelectJob(r) \/ Fetch(r) \/ AppendRaw(r)
               \/ UpsertAccounts(r) \/ UpsertContents(r) \/ AppendSnapshots(r)
               \/ FailureRejected(r) \/ BuildTrend(r) \/ TryThrows(r)
               \/ CallThrows(r) \/ Crash(r)
        PROVE  UNCHANGED jobs
    BY <1>7
    DEF StartCycle, SelectJob, Fetch, AppendRaw, UpsertAccounts, UpsertContents,
        AppendSnapshots, FailureRejected, BuildTrend, TryThrows, CallThrows, Crash, tables
  <1>8. Tick \/ UNCHANGED vars => UNCHANGED jobs
    BY DEF Tick, vars, tables
  <1>9. QED
    BY StepCases, <1>1, <1>2, <1>3, <1>4, <1>5, <1>6, <1>7, <1>8

\* Whatever two runners do to the same row, and whichever statements fail, its
\* due time, retry count and dead-letter mark agree with its status.
THEOREM RowsAlwaysConsistent == Spec => []RowsConsistent
  <1>1. Init => RowsConsistent
    BY NoRowOK DEF Init, RowsConsistent
  <1>2. TypeOK /\ RowsConsistent /\ [Next]_vars => RowsConsistent'
    BY RowsStep
  <1>3. QED
    BY <1>1, <1>2, Typing, PTL DEF Spec

-----------------------------------------------------------------------------
(* Append-only tables.                                                     *)

TablesGrow ==
    /\ snapshots \subseteq snapshots'
    /\ accounts \subseteq accounts'
    /\ contents \subseteq contents'
    /\ \A j \in Job : rawEvents'[j] >= rawEvents[j]

\* No step takes a row away from the tables a job fills.
LEMMA TablesOnlyGrow ==
  ASSUME TypeOK, [Next]_vars
  PROVE  TablesGrow
  <1>1. \A j \in Job : rawEvents[j] \in Nat
    BY DEF TypeOK
  <1>2. ASSUME UNCHANGED <<rawEvents, accounts, contents, snapshots>> PROVE TablesGrow
    BY <1>1, <1>2 DEF TablesGrow
  <1>3. ASSUME NEW r \in Runners, AppendRaw(r) PROVE TablesGrow
    <2>1. \A j \in Job : rawEvents'[j] >= rawEvents[j]
      BY <1>1, <1>3, JobOfType DEF AppendRaw, TypeOK
    <2>2. QED
      BY <1>3, <2>1 DEF AppendRaw, TablesGrow
  <1>4. ASSUME NEW r \in Runners, UpsertAccounts(r) PROVE TablesGrow
    BY <1>1, <1>4 DEF UpsertAccounts, TablesGrow
  <1>5. ASSUME NEW r \in Runners, UpsertContents(r) PROVE TablesGrow
    BY <1>1, <1>5 DEF UpsertContents, TablesGrow
  <1>6. ASSUME NEW r \in Runners, AppendSnapshots(r) PROVE TablesGrow
    BY <1>1, <1>6 DEF AppendSnapshots, InsertMissing, TablesGrow
  <1>7. ASSUME NEW r \in Runners,
               \/ StartCycle(r) \/ InsertJob(r) \/ SelectJob(r) \/ MarkRunning(r)
               \/ Fetch(r) \/ SavePageCursor(r) \/ MarkSucceeded(r)
               \/ RecordJobFailure(r) \/ FailureRejected(r) \/ BuildTrend(r)
               \/ TryThrows(r) \/ CallThrows(r) \/ SucceededAckLost(r) \/ Crash(r)
        PROVE  TablesGrow
    BY <1>2, <1>7
    DEF StartCycle, InsertJob, SelectJob, MarkRunning, Fetch, SavePageCursor,
        MarkSucceeded, RecordJobFailure, FailureRejected, BuildTrend, TryThrows,
        CallThrows, SucceededAckLost, Crash, tables
  <1>8. Tick \/ UNCHANGED vars => TablesGrow
    BY <1>2 DEF Tick, vars, tables
  <1>9. QED
    BY StepCases, <1>3, <1>4, <1>5, <1>6, <1>7, <1>8

\* No runner, retry or fault rewrites a snapshot or loses a raw event.
THEOREM ObservationsAppendOnly == Spec => AppendOnly
  <1>1. TypeOK /\ [Next]_vars =>
          [ /\ snapshots \subseteq snapshots'
            /\ \A j \in Job : rawEvents'[j] >= rawEvents[j] ]_vars
    BY TablesOnlyGrow DEF TablesGrow
  <1>2. QED
    BY <1>1, Typing, PTL DEF Spec, AppendOnly

-----------------------------------------------------------------------------
(* What a runner has established.                                          *)

\* The locals of runner q stay as they are.
Untouched(q) ==
    /\ pc'[q] = pc[q]
    /\ now'[q] = now[q]
    /\ target'[q] = target[q]
    /\ kind'[q] = kind[q]
    /\ page'[q] = page[q]
    /\ seenRetries'[q] = seenRetries[q]

\* A step is the step of one runner: the locals of the others do not change.
LEMMA OthersUntouched ==
  ASSUME TypeOK, NEW r \in Runners, StartCycle(r) \/ Advance(r) \/ Crash(r),
         NEW q \in Runners \ {r}
  PROVE  Untouched(q)
  <1> USE DEF TypeOK, Untouched, GoTo, Proceed, Forget, locals
  <1>1. CASE StartCycle(r)
    BY <1>1 DEF StartCycle
  <1>2. AbortCycle(r) => Untouched(q)
    BY DEF AbortCycle
  <1>3. JobReturns(r) => Untouched(q)
    BY DEF JobReturns
  <1>4. ASSUME NEW row, Dispatch(r, row) PROVE Untouched(q)
    BY <1>3, <1>4 DEF Dispatch
  <1>5. CASE InsertJob(r) \/ SelectJob(r)
    BY <1>4, <1>5 DEF InsertJob, SelectJob
  <1>6. CASE \/ MarkRunning(r) \/ AppendRaw(r) \/ UpsertAccounts(r)
             \/ UpsertContents(r) \/ AppendSnapshots(r) \/ SavePageCursor(r)
    BY <1>6
    DEF MarkRunning, AppendRaw, UpsertAccounts, UpsertContents, AppendSnapshots,
        SavePageCursor
  <1>7. CASE Fetch(r)
    BY <1>7 DEF Fetch
  <1>8. CASE MarkSucceeded(r)
    BY <1>3, <1>8 DEF MarkSucceeded
  <1>9. CASE RecordJobFailure(r) \/ FailureRejected(r) \/ CallThrows(r) \/ Crash(r)
    BY <1>2, <1>9 DEF RecordJobFailure, FailureRejected, CallThrows, Crash
  <1>10. CASE BuildTrend(r)
    BY <1>2, <1>10 DEF BuildTrend
  <1>11. CASE TryThrows(r) \/ SucceededAckLost(r)
    BY <1>11 DEF TryThrows, SucceededAckLost
  <1>12. QED
    BY <1>1, <1>5, <1>6, <1>7, <1>8, <1>9, <1>10, <1>11 DEF Advance

\* What a runner has established stays established while it does not move.
LEMMA ProgressKept ==
  ASSUME TypeOK, TypeOK', TablesGrow, NEW q \in Runners, Untouched(q), RunnerProgress(q)
  PROVE  RunnerProgress(q)'
  <1>1. JobOf(q)' = JobOf(q)
    BY DEF JobOf, Untouched
  <1>2. JobOf(q) \in Job
    BY JobOfType
  <1>3. rawEvents[JobOf(q)] > 0 => rawEvents'[JobOf(q)] > 0
    BY <1>2 DEF TablesGrow, TypeOK
  <1>4. HasNewPostsCount(JobOf(q)) => HasNewPostsCount(JobOf(q))'
    BY <1>1 DEF HasNewPostsCount, TablesGrow
  <1>5. QED
    BY <1>1, <1>3, <1>4 DEF RunnerProgress, Untouched, TablesGrow, At

\* Its own steps establish what the next one needs.
LEMMA ProgressMade ==
  ASSUME TypeOK, TypeOK', TablesGrow, NEW r \in Runners, RunnerProgress(r),
         StartCycle(r) \/ Advance(r) \/ Crash(r)
  PROVE  RunnerProgress(r)'
  <1> DEFINE j == JobOf(r)
  <1>1. j \in Job /\ j.kind = kind[r]
    BY JobOfType
  <1>2. ASSUME pc'[r] \notin AfterRaw PROVE RunnerProgress(r)'
    BY <1>2 DEF RunnerProgress, At, AfterRaw, TrySteps
  <1>3. ASSUME JobOf(r)' = j, rawEvents[j] > 0 PROVE rawEvents'[j] > 0
    BY <1>1, <1>3 DEF TablesGrow, TypeOK
  <1>4. CASE AppendRaw(r)
    <2>1. JobOf(r)' = j /\ kind'[r] = kind[r]
      BY <1>4 DEF AppendRaw, Proceed, JobOf, locals
    <2>2. rawEvents'[j] > 0
      BY <1>1, <1>4 DEF AppendRaw, TypeOK
    <2>3. /\ pc'[r] = StepAfterRaw(r)
          /\ page'[r] = page[r]
      BY <1>4 DEF AppendRaw, Proceed, GoTo, TypeOK, locals
    <2>4. /\ StepAfterRaw(r) # "upsert_contents"
          /\ StepAfterRaw(r) # "save_cursor"
          /\ StepAfterRaw(r) = "append_snapshots" /\ kind[r] = "posts" => page[r].posts = {}
          /\ StepAfterRaw(r) = "mark_succeeded" => kind[r] # "posts"
      BY DEF StepAfterRaw
    <2>5. QED
      BY <2>1, <2>2, <2>3, <2>4 DEF RunnerProgress, At
  <1>5. CASE UpsertAccounts(r)
    <2>1. /\ JobOf(r)' = j
          /\ pc'[r] = "upsert_contents"
          /\ page'[r] = page[r]
      BY <1>5 DEF UpsertAccounts, Proceed, GoTo, TypeOK, JobOf, locals
    <2>2. rawEvents[j] > 0
      BY <1>5 DEF UpsertAccounts, Proceed, At, RunnerProgress, AfterRaw, TrySteps
    <2>3. \A p \in page[r].posts : AuthorOf[p] \in accounts'
      BY <1>5 DEF UpsertAccounts
    <2>4. QED
      BY <1>3, <2>1, <2>2, <2>3 DEF RunnerProgress, At
  <1>6. CASE UpsertContents(r)
    <2>1. /\ JobOf(r)' = j
          /\ pc'[r] = "append_snapshots"
          /\ page'[r] = page[r]
      BY <1>6 DEF UpsertContents, Proceed, GoTo, TypeOK, JobOf, locals
    <2>2. rawEvents[j] > 0
      BY <1>6 DEF UpsertContents, Proceed, At, RunnerProgress, AfterRaw, TrySteps
    <2>3. page[r].posts \subseteq contents'
      BY <1>6 DEF UpsertContents
    <2>4. QED
      BY <1>3, <2>1, <2>2, <2>3 DEF RunnerProgress, At
  <1>7. CASE AppendSnapshots(r)
    <2>1. /\ JobOf(r)' = j
          /\ kind'[r] = kind[r]
          /\ pc'[r] \in {"save_cursor", "mark_succeeded"}
      BY <1>7 DEF AppendSnapshots, Proceed, GoTo, TypeOK, JobOf, locals
    <2>2. rawEvents[j] > 0
      BY <1>7 DEF AppendSnapshots, Proceed, At, RunnerProgress, AfterRaw, TrySteps
    <2>3. ASSUME kind[r] = "posts" PROVE HasNewPostsCount(j)'
      <3> DEFINE s == [job |-> j, item |-> "new_posts_15m",
                       value |-> page[r].length]
      <3>1. s \in SnapshotsOf(j, page[r])
        BY <1>1, <2>3 DEF SnapshotsOf
      <3>2. snapshots' = InsertMissing(snapshots, SnapshotsOf(j, page[r]))
        BY <1>7 DEF AppendSnapshots
      <3>3. \E t \in snapshots' : SameKey(t, s)
        BY <3>1, <3>2 DEF InsertMissing, SameKey
      <3>4. QED
        BY <2>1, <3>3 DEF HasNewPostsCount, SameKey
    <2>4. QED
      BY <1>3, <2>1, <2>2, <2>3 DEF RunnerProgress, At
  <1>8. CASE SavePageCursor(r)
    <2>1. /\ JobOf(r)' = j
          /\ pc'[r] = "mark_succeeded"
          /\ kind'[r] = kind[r]
      BY <1>8 DEF SavePageCursor, Proceed, GoTo, TypeOK, JobOf, locals
    <2>2. rawEvents[j] > 0
      BY <1>8 DEF SavePageCursor, Proceed, At, RunnerProgress, AfterRaw, TrySteps
    <2>3. kind[r] = "posts" => HasNewPostsCount(j)'
      BY <1>8, <2>1
      DEF SavePageCursor, Proceed, At, RunnerProgress, HasNewPostsCount, TablesGrow
    <2>4. QED
      BY <1>3, <2>1, <2>2, <2>3 DEF RunnerProgress, At
  <1>9. CASE \/ StartCycle(r) \/ InsertJob(r) \/ SelectJob(r) \/ MarkRunning(r)
             \/ Fetch(r) \/ MarkSucceeded(r) \/ RecordJobFailure(r)
             \/ FailureRejected(r) \/ BuildTrend(r) \/ TryThrows(r)
             \/ CallThrows(r) \/ SucceededAckLost(r) \/ Crash(r)
    <2> USE DEF AfterRaw, TrySteps, GoTo, TypeOK
    <2>1. AbortCycle(r) \/ JobReturns(r) => pc'[r] \notin AfterRaw
      BY DEF AbortCycle, JobReturns
    <2>2. ASSUME NEW row, Dispatch(r, row) PROVE pc'[r] \notin AfterRaw
      BY <2>1, <2>2 DEF Dispatch
    <2>3. pc'[r] \notin AfterRaw
      BY <1>9, <2>1, <2>2
      DEF StartCycle, InsertJob, SelectJob, MarkRunning, Proceed, Fetch, MarkSucceeded,
          RecordJobFailure, FailureRejected, BuildTrend, TryThrows, CallThrows,
          SucceededAckLost, Crash
    <2>4. QED
      BY <1>2, <2>3
  <1>10. QED
    BY <1>4, <1>5, <1>6, <1>7, <1>8, <1>9 DEF Advance

AllProgress == \A r \in Runners : RunnerProgress(r)

LEMMA ProgressStep ==
  ASSUME TypeOK, AllProgress, [Next]_vars
  PROVE  AllProgress'
  <1>1. TypeOK' /\ TablesGrow
    BY TypeStep, TablesOnlyGrow
  <1>2. CASE Tick \/ UNCHANGED vars
    <2>1. \A q \in Runners : Untouched(q)
      BY <1>2 DEF Tick, vars, locals, Untouched
    <2>2. QED
      BY <1>1, <2>1, ProgressKept DEF AllProgress
  <1>3. ASSUME NEW r \in Runners, StartCycle(r) \/ Advance(r) \/ Crash(r)
        PROVE  AllProgress'
    <2>1. RunnerProgress(r)'
      BY <1>1, <1>3, ProgressMade DEF AllProgress
    <2>2. ASSUME NEW q \in Runners \ {r} PROVE RunnerProgress(q)'
      BY <1>1, <1>3, OthersUntouched, ProgressKept DEF AllProgress
    <2>3. QED
      BY <2>1, <2>2 DEF AllProgress
  <1>4. QED
    BY <1>2, <1>3 DEF Next

-----------------------------------------------------------------------------
(* A succeeded job has its data.                                           *)

\* The data of a job, once stored, stays.
LEMMA DataKept ==
  ASSUME TypeOK, TypeOK', TablesGrow, NEW j \in Job
  PROVE  /\ rawEvents[j] > 0 => rawEvents'[j] > 0
         /\ HasNewPostsCount(j) => HasNewPostsCount(j)'
  <1>1. rawEvents[j] > 0 => rawEvents'[j] > 0
    <2>1. rawEvents[j] \in Nat /\ rawEvents'[j] \in Nat
      BY DEF TypeOK
    <2>2. rawEvents'[j] >= rawEvents[j]
      BY DEF TablesGrow
    <2>3. QED
      BY <2>1, <2>2
  <1>2. HasNewPostsCount(j) => HasNewPostsCount(j)'
    BY DEF TablesGrow, HasNewPostsCount
  <1>3. QED
    BY <1>1, <1>2

\* The only statement that makes a job succeeded is the last of its runner.
LEMMA SucceededStep ==
  ASSUME TypeOK, AllProgress, SucceededHasData, [Next]_vars
  PROVE  SucceededHasData'
  <1>1. TablesGrow
    BY TablesOnlyGrow
  <1>2. ASSUME NEW j \in Job, jobs[j].status = "succeeded"
        PROVE  rawEvents'[j] > 0 /\ (j.kind = "posts" => HasNewPostsCount(j)')
    BY <1>1, <1>2, DataKept, TypeStep DEF SucceededHasData
  <1>3. ASSUME \A j \in Job : jobs'[j].status = "succeeded" => jobs[j].status = "succeeded"
        PROVE  SucceededHasData'
    BY <1>2, <1>3 DEF SucceededHasData
  <1>4. ASSUME NEW r \in Runners, MarkSucceeded(r) \/ SucceededAckLost(r)
        PROVE  SucceededHasData'
    <2>1. JobOf(r) \in Job /\ JobOf(r).kind = kind[r]
      BY JobOfType
    <2>2. \A j \in Job \ {JobOf(r)} : jobs'[j] = jobs[j]
      BY <1>4, <2>1 DEF MarkSucceeded, SucceededAckLost, Succeeded, TypeOK
    <2>3. /\ rawEvents[JobOf(r)] > 0
          /\ kind[r] = "posts" => HasNewPostsCount(JobOf(r))
      BY <1>4
      DEF MarkSucceeded, SucceededAckLost, At, AllProgress, RunnerProgress, AfterRaw, TrySteps
    <2>4. /\ rawEvents'[JobOf(r)] > 0
          /\ kind[r] = "posts" => HasNewPostsCount(JobOf(r))
      BY <1>4, <2>3 DEF MarkSucceeded, SucceededAckLost
    <2>5. UNCHANGED snapshots
      BY <1>4 DEF MarkSucceeded, SucceededAckLost
    <2>6. SucceededHasData'
      BY <1>2, <2>1, <2>2, <2>4, <2>5 DEF SucceededHasData, HasNewPostsCount
    <2>7. QED
      BY <2>6
  <1>5. ASSUME NEW r \in Runners, NEW row \in Row, row.status # "succeeded",
               jobs' = [jobs EXCEPT ![JobOf(r)] = row]
        PROVE  SucceededHasData'
    BY <1>3, <1>5, JobOfType DEF TypeOK
  <1>6. ASSUME NEW r \in Runners, InsertJob(r) PROVE SucceededHasData'
    <2>1. QueuedRow(now[r]) \in Row /\ QueuedRow(now[r]).status = "queued"
      BY JobOfType, QueuedRowOK DEF QueuedRow
    <2>2. QED
      BY <1>3, <1>5, <1>6, <2>1 DEF InsertJob
  <1>7. ASSUME NEW r \in Runners, MarkRunning(r) PROVE SucceededHasData'
    <2>1. jobs[JobOf(r)] \in Row
      BY JobOfType DEF TypeOK
    <2>2. SetStatus(jobs[JobOf(r)], "running") \in Row
      BY <2>1, SetStatusOK
    <2>3. SetStatus(jobs[JobOf(r)], "running").status = "running"
      BY <2>1 DEF SetStatus, Row
    <2>4. QED
      BY <1>5, <1>7, <2>2, <2>3, JobOfType DEF MarkRunning, TypeOK
  <1>8. ASSUME NEW r \in Runners, SavePageCursor(r) PROVE SucceededHasData'
    <2>1. jobs[JobOf(r)] \in Row
      BY JobOfType DEF TypeOK
    <2>2. SaveCursor(jobs[JobOf(r)]).status = jobs[JobOf(r)].status
      BY <2>1 DEF SaveCursor, Row
    <2>3. QED
      BY <1>3, <1>8, <2>2, JobOfType DEF SavePageCursor, TypeOK
  <1>9. ASSUME NEW r \in Runners, RecordJobFailure(r) PROVE SucceededHasData'
    <2> DEFINE row == RecordFailure(jobs[JobOf(r)], now[r], RetryDelay(seenRetries[r] + 1))
    <2>1. jobs[JobOf(r)] \in Row /\ now[r] \in Nat /\ seenRetries[r] + 1 \in Nat
      BY JobOfType DEF TypeOK
    <2>2. row \in Row
      BY <2>1, RetryDelayType, RecordFailureOK
    <2>3. row.status # "succeeded"
      BY <2>1 DEF RecordFailure, Row
    <2>4. QED
      BY <1>5, <1>9, <2>2, <2>3 DEF RecordJobFailure
  <1>10. CASE UNCHANGED jobs
    BY <1>3, <1>10
  <1>11. ASSUME NEW r \in Runners,
                \/ StartCycle(r) \/ SelectJob(r) \/ Fetch(r) \/ AppendRaw(r)
                \/ UpsertAccounts(r) \/ UpsertContents(r) \/ AppendSnapshots(r)
                \/ FailureRejected(r) \/ BuildTrend(r) \/ TryThrows(r)
                \/ CallThrows(r) \/ Crash(r)
         PROVE  UNCHANGED jobs
    BY <1>11
    DEF StartCycle, SelectJob, Fetch, AppendRaw, UpsertAccounts, UpsertContents,
        AppendSnapshots, FailureRejected, BuildTrend, TryThrows, CallThrows, Crash, tables
  <1>12. Tick \/ UNCHANGED vars => UNCHANGED jobs
    BY DEF Tick, vars, tables
  <1>13. QED
    BY StepCases, <1>4, <1>6, <1>7, <1>8, <1>9, <1>10, <1>11, <1>12

-----------------------------------------------------------------------------
(* Foreign keys.                                                           *)

LEMMA ReferenceStep ==
  ASSUME TypeOK, AllProgress, NoDanglingReference, [Next]_vars
  PROVE  NoDanglingReference'
  <1>1. ASSUME NEW r \in Runners, UpsertAccounts(r) PROVE NoDanglingReference'
    BY <1>1 DEF UpsertAccounts, NoDanglingReference
  <1>2. ASSUME NEW r \in Runners, UpsertContents(r) PROVE NoDanglingReference'
    <2>1. \A p \in page[r].posts : AuthorOf[p] \in accounts
      BY <1>2 DEF UpsertContents, Proceed, AllProgress, RunnerProgress
    <2>2. QED
      BY <1>2, <2>1 DEF UpsertContents, NoDanglingReference
  <1>3. ASSUME NEW r \in Runners, AppendSnapshots(r) PROVE NoDanglingReference'
    <2> DEFINE new == SnapshotsOf(JobOf(r), page[r])
    <2>1. snapshots' \subseteq snapshots \cup new
      BY <1>3 DEF AppendSnapshots, InsertMissing
    <2>2. ASSUME NEW s \in new, s.item \in Posts PROVE s.item \in contents
      <3>1. s.item \in page[r].metrics
        BY <2>2, CycleAssumption DEF SnapshotsOf
      <3>2. CASE kind[r] = "posts"
        <4>1. page[r].metrics \subseteq page[r].posts
          BY <3>2, PageShape DEF TypeOK
        <4>2. QED
          BY <1>3, <3>1, <3>2, <4>1
          DEF AppendSnapshots, Proceed, AllProgress, RunnerProgress
      <3>3. CASE kind[r] = "about"
        <4>1. page[r].metrics \subseteq AboutMetrics
          BY <3>3, PageShape DEF TypeOK
        <4>2. QED
          BY <2>2, <3>1, <4>1, CycleAssumption
      <3>4. QED
        BY <3>2, <3>3 DEF TypeOK, Kinds
    <2>3. UNCHANGED <<accounts, contents>>
      BY <1>3 DEF AppendSnapshots
    <2> HIDE DEF new
    <2>4. QED
      BY <2>1, <2>2, <2>3 DEF NoDanglingReference
  <1>4. CASE UNCHANGED <<accounts, contents, snapshots>>
    BY <1>4 DEF NoDanglingReference
  <1>5. ASSUME NEW r \in Runners,
               \/ StartCycle(r) \/ InsertJob(r) \/ SelectJob(r) \/ MarkRunning(r)
               \/ Fetch(r) \/ AppendRaw(r) \/ SavePageCursor(r) \/ MarkSucceeded(r)
               \/ RecordJobFailure(r) \/ FailureRejected(r) \/ BuildTrend(r)
               \/ TryThrows(r) \/ CallThrows(r) \/ SucceededAckLost(r) \/ Crash(r)
        PROVE  UNCHANGED <<accounts, contents, snapshots>>
    BY <1>5
    DEF StartCycle, InsertJob, SelectJob, MarkRunning, Fetch, AppendRaw, SavePageCursor,
        MarkSucceeded, RecordJobFailure, FailureRejected, BuildTrend, TryThrows,
        CallThrows, SucceededAckLost, Crash, tables
  <1>6. Tick \/ UNCHANGED vars => UNCHANGED <<accounts, contents, snapshots>>
    BY DEF Tick, vars, tables
  <1>7. QED
    BY StepCases, <1>1, <1>2, <1>3, <1>4, <1>5, <1>6

-----------------------------------------------------------------------------
(* One value per key.                                                      *)

\* A page never yields two rows with the same key.
LEMMA PageKeysUnique ==
  ASSUME NEW j \in Job, NEW k \in Kinds, NEW p \in PagesOf(k),
         NEW s \in SnapshotsOf(j, p), NEW t \in SnapshotsOf(j, p), SameKey(s, t)
  PROVE  s = t
  <1>1. "new_posts_15m" \notin p.metrics
    BY PageShape, CycleAssumption
  <1>2. QED
    BY <1>1 DEF SnapshotsOf, SameKey

\* Snapshots are written by one statement of the jobs only.
LEMMA OnlyAppendWrites ==
  ASSUME [Next]_vars
  PROVE  UNCHANGED snapshots \/ \E r \in Runners : AppendSnapshots(r)
  <1>1. ASSUME NEW r \in Runners,
               \/ StartCycle(r) \/ InsertJob(r) \/ SelectJob(r) \/ MarkRunning(r)
               \/ Fetch(r) \/ AppendRaw(r) \/ UpsertAccounts(r) \/ UpsertContents(r)
               \/ SavePageCursor(r) \/ MarkSucceeded(r) \/ RecordJobFailure(r)
               \/ FailureRejected(r) \/ BuildTrend(r) \/ TryThrows(r)
               \/ CallThrows(r) \/ SucceededAckLost(r) \/ Crash(r)
        PROVE  UNCHANGED snapshots
    BY <1>1
    DEF StartCycle, InsertJob, SelectJob, MarkRunning, Fetch, AppendRaw, UpsertAccounts,
        UpsertContents, SavePageCursor, MarkSucceeded, RecordJobFailure, FailureRejected,
        BuildTrend, TryThrows, CallThrows, SucceededAckLost, Crash, tables
  <1>2. Tick \/ UNCHANGED vars => UNCHANGED snapshots
    BY DEF Tick, vars, tables
  <1>3. QED
    BY StepCases, <1>1, <1>2

LEMMA UniqueStep ==
  ASSUME TypeOK, OneValuePerKey, [Next]_vars
  PROVE  OneValuePerKey'
  <1>1. ASSUME NEW r \in Runners, AppendSnapshots(r) PROVE OneValuePerKey'
    <2> DEFINE new == SnapshotsOf(JobOf(r), page[r])
    <2>1. snapshots' = InsertMissing(snapshots, new)
      BY <1>1 DEF AppendSnapshots
    <2>2. \A s, t \in new : SameKey(s, t) => s = t
      BY JobOfType, PageKeysUnique DEF TypeOK
    <2> HIDE DEF new
    <2>3. \A s, t \in snapshots : SameKey(s, t) => s = t
      BY DEF OneValuePerKey
    <2>4. QED
      BY <2>1, <2>2, <2>3 DEF OneValuePerKey, InsertMissing, SameKey
  <1>2. CASE UNCHANGED snapshots
    BY <1>2 DEF OneValuePerKey
  <1>3. QED
    BY <1>1, <1>2, OnlyAppendWrites

-----------------------------------------------------------------------------
(* The inductive invariant and what follows from it.                       *)

LEMMA InitIInv == Init => IInv
  <1> SUFFICES ASSUME Init PROVE IInv
    OBVIOUS
  <1>1. TypeOK
    BY InitType
  <1>2. RowsConsistent
    BY NoRowOK DEF Init, RowsConsistent
  <1>3. \A r \in Runners : RunnerProgress(r)
    BY DEF Init, RunnerProgress, At, AfterRaw, TrySteps
  <1>4. SucceededHasData
    BY DEF Init, SucceededHasData, NoRow
  <1>5. NoDanglingReference /\ OneValuePerKey
    BY DEF Init, NoDanglingReference, OneValuePerKey
  <1>6. QED
    BY <1>1, <1>2, <1>3, <1>4, <1>5 DEF IInv

LEMMA StepIInv == IInv /\ [Next]_vars => IInv'
  <1> SUFFICES ASSUME IInv, [Next]_vars PROVE IInv'
    OBVIOUS
  <1>1. TypeOK /\ RowsConsistent /\ AllProgress /\ SucceededHasData
        /\ NoDanglingReference /\ OneValuePerKey
    BY DEF IInv, AllProgress
  <1>2. TypeOK' /\ RowsConsistent'
    BY <1>1, TypeStep, RowsStep
  <1>3. AllProgress' /\ SucceededHasData'
    BY <1>1, ProgressStep, SucceededStep
  <1>4. NoDanglingReference' /\ OneValuePerKey'
    BY <1>1, ReferenceStep, UniqueStep
  <1>5. QED
    BY <1>2, <1>3, <1>4 DEF IInv, AllProgress

\* The inductive invariant holds for any runners and any faults.
THEOREM Invariance == Spec => []IInv
  BY InitIInv, StepIInv, PTL DEF Spec

\* A job that reads succeeded has its raw event and, for a listing, its count:
\* later cycles of the window may skip it.
THEOREM SucceededIsComplete == Spec => []SucceededHasData
  <1>1. IInv => SucceededHasData
    BY DEF IInv
  <1>2. QED
    BY <1>1, Invariance, PTL

\* No transaction ever leaves a content without its author or a snapshot
\* without its content.
THEOREM ReferencesHold == Spec => []NoDanglingReference
  <1>1. IInv => NoDanglingReference
    BY DEF IInv
  <1>2. QED
    BY <1>1, Invariance, PTL

\* Competing attempts never store two values of one metric for one window.
THEOREM ValuesUnique == Spec => []OneValuePerKey
  <1>1. IInv => OneValuePerKey
    BY DEF IInv
  <1>2. QED
    BY <1>1, Invariance, PTL

-----------------------------------------------------------------------------
(* Due times under stale counts.                                           *)

\* Where the count that create returned is still of use.
CountKept == {"mark_running", "record_failure"} \cup TrySteps

\* The row a runner works on exists, and its count is at least the one seen.
CountHeld(r) ==
    /\ pc[r] \in CountKept \cup {"select_job"} => Exists(jobs[JobOf(r)])
    /\ pc[r] \in CountKept => seenRetries[r] <= jobs[JobOf(r)].retryCount

DueInv ==
    /\ \A r \in Runners : CountHeld(r) /\ now[r] <= clock
    /\ RetryDueInTime

\* What a step may do to a row.
RowChange(j) ==
    \/ jobs'[j] = jobs[j]
    \/ ~Exists(jobs[j]) /\ \E t \in Nat : jobs'[j] = QueuedRow(t)
    \/ jobs'[j] \in { SetStatus(jobs[j], "running"), SetStatus(jobs[j], "succeeded"),
                      SaveCursor(jobs[j]) }
    \/ \E r \in Runners :
          /\ At(r, "record_failure")
          /\ JobOf(r) = j
          /\ jobs'[j] = RecordFailure(jobs[j], now[r], RetryDelay(seenRetries[r] + 1))

LEMMA RowChanges ==
  ASSUME TypeOK, [Next]_vars, NEW j \in Job
  PROVE  RowChange(j)
  <1>1. ASSUME NEW r \in Runners, NEW row, jobs' = [jobs EXCEPT ![JobOf(r)] = row]
        PROVE  jobs'[j] = jobs[j] \/ (JobOf(r) = j /\ jobs'[j] = row)
    <2> DEFINE k == JobOf(r)
    <2>1. jobs \in [Job -> Row] /\ jobs' = [jobs EXCEPT ![k] = row]
      BY <1>1 DEF TypeOK
    <2> HIDE DEF k
    <2>2. jobs'[j] = jobs[j] \/ (k = j /\ jobs'[j] = row)
      BY <2>1
    <2>3. QED
      BY <2>2 DEF k
  <1>2. ASSUME NEW r \in Runners, InsertJob(r) PROVE RowChange(j)
    <2>1. CASE UNCHANGED jobs
      BY <2>1 DEF RowChange
    <2>2. CASE ~Exists(jobs[JobOf(r)]) /\ jobs' = [jobs EXCEPT ![JobOf(r)] = QueuedRow(now[r])]
      BY <1>1, <2>2, JobOfType DEF RowChange
    <2>3. QED
      BY <1>2, <2>1, <2>2 DEF InsertJob
  <1>3. ASSUME NEW r \in Runners,
               MarkRunning(r) \/ SavePageCursor(r) \/ MarkSucceeded(r) \/ SucceededAckLost(r)
        PROVE  RowChange(j)
    <2>1. \E row \in { SetStatus(jobs[JobOf(r)], "running"),
                       SetStatus(jobs[JobOf(r)], "succeeded"), SaveCursor(jobs[JobOf(r)]) } :
             jobs' = [jobs EXCEPT ![JobOf(r)] = row]
      BY <1>3 DEF MarkRunning, SavePageCursor, MarkSucceeded, SucceededAckLost, Succeeded
    <2>2. QED
      BY <1>1, <2>1 DEF RowChange
  <1>4. ASSUME NEW r \in Runners, RecordJobFailure(r) PROVE RowChange(j)
    <2> DEFINE row == RecordFailure(jobs[JobOf(r)], now[r], RetryDelay(seenRetries[r] + 1))
    <2>1. jobs' = [jobs EXCEPT ![JobOf(r)] = row] /\ At(r, "record_failure")
      BY <1>4 DEF RecordJobFailure
    <2> HIDE DEF row
    <2>2. jobs'[j] = jobs[j] \/ (JobOf(r) = j /\ jobs'[j] = row)
      BY <1>1, <2>1
    <2>3. QED
      BY <2>1, <2>2 DEF RowChange, row
  <1>5. ASSUME NEW r \in Runners,
               \/ StartCycle(r) \/ SelectJob(r) \/ Fetch(r) \/ AppendRaw(r)
               \/ UpsertAccounts(r) \/ UpsertContents(r) \/ AppendSnapshots(r)
               \/ FailureRejected(r) \/ BuildTrend(r) \/ TryThrows(r)
               \/ CallThrows(r) \/ Crash(r)
        PROVE  UNCHANGED jobs
    BY <1>5
    DEF StartCycle, SelectJob, Fetch, AppendRaw, UpsertAccounts, UpsertContents,
        AppendSnapshots, FailureRejected, BuildTrend, TryThrows, CallThrows, Crash, tables
  <1>6. Tick \/ UNCHANGED vars => UNCHANGED jobs
    BY DEF Tick, vars, tables
  <1>7. UNCHANGED jobs => RowChange(j)
    BY DEF RowChange
  <1>8. QED
    BY StepCases, <1>2, <1>3, <1>4, <1>5, <1>6, <1>7

\* Rows stay, and a row's count of failures never goes down.
LEMMA CountsGrow ==
  ASSUME TypeOK, [Next]_vars, NEW j \in Job, Exists(jobs[j])
  PROVE  Exists(jobs'[j]) /\ jobs'[j].retryCount >= jobs[j].retryCount
  <1>1. jobs[j] \in Row
    BY DEF TypeOK
  <1>2. ASSUME NEW status \in {"running", "succeeded"}
        PROVE  /\ Exists(SetStatus(jobs[j], status))
               /\ SetStatus(jobs[j], status).retryCount = jobs[j].retryCount
    BY <1>1 DEF SetStatus, Exists, Row
  <1>3. /\ Exists(SaveCursor(jobs[j]))
        /\ SaveCursor(jobs[j]).retryCount = jobs[j].retryCount
    BY <1>1 DEF SaveCursor, Exists, Row
  <1>4. ASSUME NEW t, NEW d
        PROVE  /\ Exists(RecordFailure(jobs[j], t, d))
               /\ RecordFailure(jobs[j], t, d).retryCount = jobs[j].retryCount + 1
    BY <1>1 DEF RecordFailure, Exists, Row
  <1>5. jobs[j].retryCount \in Nat
    BY <1>1 DEF Row
  <1>6. QED
    BY <1>2, <1>3, <1>4, <1>5, RowChanges DEF RowChange

\* A failure recorded with an old count leaves a due time that is in time.
LEMMA FailureDueInTime ==
  ASSUME NEW row \in Row, NEW t \in Nat, NEW c \in Nat, NEW seen \in Nat,
         t <= c, seen <= row.retryCount,
         RecordFailure(row, t, RetryDelay(seen + 1)).status = "retrying"
  PROVE  RecordFailure(row, t, RetryDelay(seen + 1)).nextRunAt
            <= c + RetryDelay(RecordFailure(row, t, RetryDelay(seen + 1)).retryCount)
  <1> DEFINE delay == RetryDelay(seen + 1)
             new == RecordFailure(row, t, delay)
  <1>1. row.retryCount \in Nat
    BY DEF Row
  <1>2. delay \in Nat /\ delay <= RetryDelay(row.retryCount + 1)
    BY <1>1, RetryDelayType, BackoffNeverShrinks
  <1>3. RetryDelay(row.retryCount + 1) \in Nat
    BY <1>1, RetryDelayType
  <1> HIDE DEF delay
  <1>4. new.status = "retrying" => new.nextRunAt = t + delay
    BY DEF RecordFailure, Row
  <1>5. new.retryCount = row.retryCount + 1
    BY DEF RecordFailure, Row
  <1>6. new.status = "retrying"
    BY DEF delay
  <1> HIDE DEF new
  <1>7. new.nextRunAt <= c + RetryDelay(new.retryCount)
    BY <1>2, <1>3, <1>4, <1>5, <1>6
  <1>8. QED
    BY <1>7 DEF new, delay

\* Every step keeps every due time in time.
LEMMA DueStep ==
  ASSUME TypeOK, TypeOK', DueInv, [Next]_vars, clock' >= clock
  PROVE  RetryDueInTime'
  <1> SUFFICES ASSUME NEW j \in Job, jobs'[j].status = "retrying"
               PROVE  jobs'[j].nextRunAt <= clock' + RetryDelay(jobs'[j].retryCount)
    BY DEF RetryDueInTime
  <1>1. jobs[j] \in Row /\ clock \in Nat /\ clock' \in Nat
    BY WindowingAssumption DEF TypeOK, Time
  <1>2. ASSUME jobs[j].status = "retrying",
               jobs'[j].nextRunAt = jobs[j].nextRunAt, jobs'[j].retryCount = jobs[j].retryCount
        PROVE  jobs'[j].nextRunAt <= clock' + RetryDelay(jobs'[j].retryCount)
    <2>1. jobs[j].nextRunAt <= clock + RetryDelay(jobs[j].retryCount)
      BY <1>2 DEF DueInv, RetryDueInTime
    <2>2. RetryDelay(jobs[j].retryCount) \in Nat /\ jobs[j].nextRunAt \in Int
      BY <1>1, RetryDelayType DEF Row, NoTime
    <2>3. QED
      BY <1>1, <1>2, <2>1, <2>2
  <1>3. CASE jobs'[j] = jobs[j]
    BY <1>2, <1>3
  <1>4. CASE \E t \in Nat : jobs'[j] = QueuedRow(t)
    BY <1>4 DEF QueuedRow
  <1>5. CASE jobs'[j] \in {SetStatus(jobs[j], "running"), SetStatus(jobs[j], "succeeded")}
    BY <1>1, <1>5 DEF SetStatus, Row
  <1>6. CASE jobs'[j] = SaveCursor(jobs[j])
    <2>1. /\ jobs'[j].status = jobs[j].status
          /\ jobs'[j].nextRunAt = jobs[j].nextRunAt
          /\ jobs'[j].retryCount = jobs[j].retryCount
      BY <1>1, <1>6 DEF SaveCursor, Row
    <2>2. QED
      BY <1>2, <2>1
  <1>7. ASSUME NEW r \in Runners, At(r, "record_failure"), JobOf(r) = j,
               jobs'[j] = RecordFailure(jobs[j], now[r], RetryDelay(seenRetries[r] + 1))
        PROVE  jobs'[j].nextRunAt <= clock' + RetryDelay(jobs'[j].retryCount)
    <2>1. seenRetries[r] <= jobs[j].retryCount /\ now[r] <= clock
      BY <1>7 DEF DueInv, CountHeld, CountKept, At
    <2>2. now[r] \in Nat /\ seenRetries[r] \in Nat
      BY JobOfType DEF TypeOK
    <2>3. now[r] <= clock'
      BY <1>1, <2>1, <2>2
    <2>4. QED
      BY <1>1, <1>7, <2>1, <2>2, <2>3, FailureDueInTime
  <1>8. QED
    BY <1>3, <1>4, <1>5, <1>6, <1>7, RowChanges DEF RowChange

\* A runner that moves has just seen the count of its row, or keeps the one it saw.
LEMMA CountSeen ==
  ASSUME TypeOK, TypeOK', [Next]_vars, NEW r \in Runners, CountHeld(r),
         StartCycle(r) \/ Advance(r) \/ Crash(r)
  PROVE  CountHeld(r)'
  <1> USE DEF GoTo, TypeOK
  <1> DEFINE j == JobOf(r)
  <1>1. j \in Job /\ jobs[j] \in Row /\ jobs'[j] \in Row
    BY JobOfType
  <1>2. ASSUME pc'[r] \notin CountKept \cup {"select_job"} PROVE CountHeld(r)'
    BY <1>2 DEF CountHeld
  <1>3. AbortCycle(r) \/ JobReturns(r) => pc'[r] \notin CountKept \cup {"select_job"}
    BY DEF AbortCycle, JobReturns, CountKept, TrySteps
  <1>4. ASSUME pc[r] \in CountKept, JobOf(r)' = j, seenRetries'[r] = seenRetries[r]
        PROVE  CountHeld(r)'
    <2>1. Exists(jobs[j]) /\ seenRetries[r] <= jobs[j].retryCount
      BY <1>4 DEF CountHeld
    <2>2. Exists(jobs'[j]) /\ jobs'[j].retryCount >= jobs[j].retryCount
      BY <1>1, <2>1, CountsGrow
    <2>3. /\ seenRetries[r] \in Nat
          /\ jobs[j].retryCount \in Nat
          /\ jobs'[j].retryCount \in Nat
      BY <1>1 DEF Row
    <2>4. seenRetries'[r] <= jobs'[j].retryCount
      BY <1>4, <2>1, <2>2, <2>3
    <2>5. QED
      BY <1>4, <2>2, <2>4 DEF CountHeld
  <1>5. ASSUME NEW row \in Row, Dispatch(r, row), jobs'[j] = row, Exists(row)
        PROVE  CountHeld(r)'
    <2>1. CASE ShouldRun(row, now[r])
      <3>1. JobOf(r)' = j /\ seenRetries'[r] = row.retryCount
        BY <1>5, <2>1 DEF Dispatch, JobOf
      <3>2. row.retryCount <= row.retryCount
        BY DEF Row
      <3>3. QED
        BY <1>5, <3>1, <3>2 DEF CountHeld
    <2>2. CASE ~ShouldRun(row, now[r])
      BY <1>2, <1>3, <1>5, <2>2 DEF Dispatch
    <2>3. QED
      BY <2>1, <2>2
  <1>6. CASE InsertJob(r)
    <2>1. CASE Exists(jobs[j]) /\ GoTo(r, "select_job") /\ UNCHANGED <<jobs, locals>>
      <3>1. pc'[r] = "select_job" /\ JobOf(r)' = j
        BY <2>1 DEF JobOf, locals
      <3>2. pc'[r] \notin CountKept
        BY <3>1 DEF CountKept, TrySteps
      <3>3. QED
        BY <2>1, <3>1, <3>2 DEF CountHeld
    <2>2. CASE /\ jobs' = [jobs EXCEPT ![j] = QueuedRow(now[r])]
               /\ Dispatch(r, QueuedRow(now[r]))
      <3>1. QueuedRow(now[r]) \in Row /\ Exists(QueuedRow(now[r]))
        BY JobOfType, QueuedRowOK DEF QueuedRow, Exists
      <3>2. jobs'[j] = QueuedRow(now[r])
        BY <1>1, <2>2
      <3>3. QED
        BY <1>5, <2>2, <3>1, <3>2
    <2>3. QED
      BY <1>6, <2>1, <2>2 DEF InsertJob
  <1>7. CASE SelectJob(r)
    <2>1. Exists(jobs[j])
      BY <1>7 DEF SelectJob, At, CountHeld
    <2>2. jobs'[j] = jobs[j]
      BY <1>7 DEF SelectJob, tables
    <2>3. QED
      BY <1>1, <1>5, <1>7, <2>1, <2>2 DEF SelectJob
  <1>8. CASE \/ MarkRunning(r) \/ Fetch(r) \/ AppendRaw(r) \/ UpsertAccounts(r)
             \/ UpsertContents(r) \/ AppendSnapshots(r) \/ SavePageCursor(r)
             \/ TryThrows(r) \/ SucceededAckLost(r)
    <2>1. pc[r] \in CountKept
      BY <1>8
      DEF MarkRunning, Fetch, AppendRaw, UpsertAccounts, UpsertContents, AppendSnapshots,
          SavePageCursor, Proceed, TryThrows, SucceededAckLost, At, CountKept, TrySteps
    <2>2. JobOf(r)' = j /\ seenRetries'[r] = seenRetries[r]
      BY <1>8
      DEF MarkRunning, Fetch, AppendRaw, UpsertAccounts, UpsertContents, AppendSnapshots,
          SavePageCursor, Proceed, TryThrows, SucceededAckLost, JobOf, locals
    <2>3. QED
      BY <1>4, <2>1, <2>2
  <1>9. CASE \/ StartCycle(r) \/ MarkSucceeded(r) \/ RecordJobFailure(r)
             \/ FailureRejected(r) \/ BuildTrend(r) \/ CallThrows(r) \/ Crash(r)
    <2>1. pc'[r] = "insert_job" => pc'[r] \notin CountKept \cup {"select_job"}
      BY DEF CountKept, TrySteps
    <2>2. pc'[r] \notin CountKept \cup {"select_job"}
      BY <1>3, <1>9, <2>1
      DEF StartCycle, MarkSucceeded, RecordJobFailure, FailureRejected, BuildTrend,
          CallThrows, Crash
    <2>3. QED
      BY <1>2, <2>2
  <1>10. QED
    BY <1>6, <1>7, <1>8, <1>9 DEF Advance

\* While another runner moves, the row only counts up under a runner.
LEMMA CountStays ==
  ASSUME TypeOK, TypeOK', [Next]_vars, NEW q \in Runners, CountHeld(q), Untouched(q)
  PROVE  CountHeld(q)'
  <1> DEFINE j == JobOf(q)
  <1>1. j \in Job /\ jobs[j] \in Row /\ jobs'[j] \in Row /\ seenRetries[q] \in Nat
    BY JobOfType DEF TypeOK
  <1>2. JobOf(q)' = j /\ pc'[q] = pc[q] /\ seenRetries'[q] = seenRetries[q]
    BY DEF Untouched, JobOf
  <1>3. Exists(jobs[j]) =>
           Exists(jobs'[j]) /\ jobs'[j].retryCount >= jobs[j].retryCount
    BY <1>1, CountsGrow
  <1>4. jobs[j].retryCount \in Nat /\ jobs'[j].retryCount \in Nat
    BY <1>1 DEF Row
  <1>5. QED
    BY <1>1, <1>2, <1>3, <1>4 DEF CountHeld

\* A cycle's nowIso is never ahead of the clock.
LEMMA NowStep ==
  ASSUME TypeOK, TypeOK', \A r \in Runners : now[r] <= clock, [Next]_vars
  PROVE  clock' >= clock /\ \A r \in Runners : now'[r] <= clock'
  <1> USE DEF TypeOK
  <1>1. clock \in Nat /\ clock' \in Nat
    BY WindowingAssumption DEF Time
  <1>2. ASSUME UNCHANGED now, clock' >= clock
        PROVE  \A r \in Runners : now'[r] <= clock'
    BY <1>1, <1>2, WindowingAssumption DEF Time
  <1>3. CASE Tick \/ UNCHANGED vars
    <2>1. UNCHANGED now /\ clock' >= clock
      BY <1>1, <1>3 DEF Tick, vars, locals
    <2>2. QED
      BY <1>2, <2>1
  <1>4. ASSUME NEW r \in Runners, StartCycle(r) \/ Advance(r) \/ Crash(r)
        PROVE  UNCHANGED clock /\ now'[r] \in {now[r], clock, 0}
    <2> USE DEF Proceed, locals, tables
    <2>1. AbortCycle(r) \/ JobReturns(r) => now'[r] \in {now[r], 0}
      BY DEF AbortCycle, JobReturns
    <2>2. ASSUME NEW row, Dispatch(r, row) PROVE now'[r] \in {now[r], 0}
      BY <2>1, <2>2 DEF Dispatch
    <2>3. CASE InsertJob(r) \/ SelectJob(r)
      BY <2>2, <2>3 DEF InsertJob, SelectJob
    <2>4. CASE StartCycle(r)
      BY <2>4 DEF StartCycle
    <2>5. CASE \/ MarkRunning(r) \/ Fetch(r) \/ AppendRaw(r) \/ UpsertAccounts(r)
               \/ UpsertContents(r) \/ AppendSnapshots(r) \/ SavePageCursor(r)
               \/ TryThrows(r) \/ SucceededAckLost(r)
      BY <2>5
      DEF MarkRunning, Fetch, AppendRaw, UpsertAccounts, UpsertContents,
          AppendSnapshots, SavePageCursor, TryThrows, SucceededAckLost
    <2>6. CASE \/ MarkSucceeded(r) \/ RecordJobFailure(r) \/ FailureRejected(r)
               \/ BuildTrend(r) \/ CallThrows(r) \/ Crash(r)
      BY <2>1, <2>6
      DEF MarkSucceeded, RecordJobFailure, FailureRejected, BuildTrend, CallThrows, Crash
    <2>7. QED
      BY <1>4, <2>3, <2>4, <2>5, <2>6 DEF Advance
  <1>5. ASSUME NEW r \in Runners, StartCycle(r) \/ Advance(r) \/ Crash(r),
               NEW q \in Runners
        PROVE  now'[q] <= clock'
    <2>1. CASE q = r
      BY <1>1, <1>4, <1>5, <2>1
    <2>2. CASE q # r
      BY <1>4, <1>5, <2>2, OthersUntouched DEF Untouched
    <2>3. QED
      BY <2>1, <2>2
  <1>6. QED
    BY <1>1, <1>3, <1>4, <1>5 DEF Next

\* The inductive invariant behind RetryDueInTime.
LEMMA StepDueInv ==
  ASSUME TypeOK, DueInv, [Next]_vars
  PROVE  DueInv'
  <1>1. TypeOK'
    BY TypeStep
  <1>2. clock' >= clock /\ \A r \in Runners : now'[r] <= clock'
    BY <1>1, NowStep DEF DueInv
  <1>3. RetryDueInTime'
    BY <1>1, <1>2, DueStep
  <1>4. CASE Tick \/ UNCHANGED vars
    <2>1. \A q \in Runners : Untouched(q)
      BY <1>4 DEF Tick, vars, locals, Untouched
    <2>2. \A q \in Runners : CountHeld(q)'
      BY <1>1, <2>1, CountStays DEF DueInv
    <2>3. QED
      BY <1>2, <1>3, <2>2 DEF DueInv
  <1>5. ASSUME NEW r \in Runners, StartCycle(r) \/ Advance(r) \/ Crash(r)
        PROVE  DueInv'
    <2>1. CountHeld(r)'
      BY <1>1, <1>5, CountSeen DEF DueInv
    <2>2. ASSUME NEW q \in Runners \ {r} PROVE CountHeld(q)'
      BY <1>1, <1>5, OthersUntouched, CountStays DEF DueInv
    <2>3. QED
      BY <1>2, <1>3, <2>1, <2>2 DEF DueInv
  <1>6. QED
    BY <1>4, <1>5 DEF Next

\* Runners that share a job, each with the count it saw when it began, never
\* postpone its retry beyond the backoff of the count in its row.
THEOREM RetriesAreDueInTime == Spec => []RetryDueInTime
  <1>1. Init => DueInv
    BY DEF Init, DueInv, CountHeld, CountKept, TrySteps, RetryDueInTime, NoRow
  <1>2. TypeOK /\ DueInv /\ [Next]_vars => DueInv'
    BY StepDueInv
  <1>3. DueInv => RetryDueInTime
    BY DEF DueInv
  <1>4. QED
    BY <1>1, <1>2, <1>3, Typing, PTL DEF Spec
=============================================================================
