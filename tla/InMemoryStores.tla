--------------------------- MODULE InMemoryStores ---------------------------
(***************************************************************************)
(* The in-memory repositories the tests run on, beside the Postgres ones.  *)
(* Every statement a lone runner issues is applied to both stores in the   *)
(* same step, so that a state shows how far what a test sees in memory     *)
(* says what production would hold.  The memory does not survive a crash:  *)
(* from then on there is nothing to compare.                               *)
(***************************************************************************)
EXTENDS CollectionLifecycle, FiniteSetsExt

VARIABLES
    seen,           \* first_seen_at and last_seen_at of account and content, in Postgres
    memJobs, memSnapshots, memSeen,     \* the same tables in memory
    lost            \* a crash has emptied the memory

memory == <<memJobs, memSnapshots, memSeen, lost>>
twins  == <<seen, memory>>

\* What the comparison needs of the faults: the statements of a runner do not
\* fail, because a Map does not throw.
StoresDoNotThrow == Faults \subseteq {"fetch", "crash"}

\* What is upserted under its own id: the authors and the posts of a listing.
Entities == Authors \cup Posts

Unseen == [first |-> NoTime, last |-> NoTime]

EmptyMemory ==
    /\ memJobs = [j \in Job |-> NoRow]
    /\ memSnapshots = {}
    /\ memSeen = [e \in Entities |-> Unseen]

TwinInit ==
    /\ Init
    /\ seen = [e \in Entities |-> Unseen]
    /\ EmptyMemory
    /\ lost = FALSE

-----------------------------------------------------------------------------
(* The statements of the in-memory job repository on one row.              *)

\* Variant: a job that is run again keeps the due time of its last failure.
MemSetStatusKeepsDueTime(row, status) ==
    [row EXCEPT
        !.status       = status,
        !.started      = @ \/ status = "running",
        !.finished     = @ \/ status \in {"succeeded", "failed", "dead_letter"},
        !.deadLettered = @ \/ status = "dead_letter"]

\* Unlike the Postgres statement it finishes a row that it dead-letters.
MemSetStatus(row, status) ==
    [row EXCEPT
        !.status       = status,
        !.started      = @ \/ status = "running",
        !.finished     = @ \/ status \in {"succeeded", "failed", "dead_letter"},
        !.nextRunAt    = IF status \in {"running", "succeeded", "failed", "dead_letter"}
                         THEN NoTime ELSE @,
        !.deadLettered = @ \/ status = "dead_letter"]

\* create returns the live object, so the job computes its delay from the
\* count as it is when it fails, not as it was when it started.
MemFail(row, at) ==
    LET count == row.retryCount + 1
    IN  IF count > MaxRetries
        THEN [row EXCEPT !.retryCount = count, !.status = "dead_letter",
                         !.deadLettered = TRUE, !.finished = TRUE, !.nextRunAt = NoTime]
        ELSE [row EXCEPT !.retryCount = count, !.status = "retrying",
                         !.deadLettered = FALSE, !.finished = FALSE,
                         !.nextRunAt = at + RetryDelay(count)]

-----------------------------------------------------------------------------
(* What the two stores keep of an author or a post seen at nowIso.         *)

SpanAt(at) == [first |-> at, last |-> at]

\* Postgres merges: LEAST of the first times, GREATEST of the last.
MergeSeen(table, entities, at) ==
    [e \in Entities |->
        IF e \notin entities THEN table[e]
        ELSE IF table[e] = Unseen THEN SpanAt(at)
        ELSE [ first |-> Min({at, table[e].first}), last |-> Max({at, table[e].last}) ]]

\* The Map keeps the object it was given last.
ReplaceSeen(table, entities, at) ==
    [e \in Entities |-> IF e \in entities THEN SpanAt(at) ELSE table[e]]

\* The last object of a key stays.
MemAppend(table, rows) ==
    {t \in table : \A s \in rows : ~SameKey(s, t)} \cup rows

-----------------------------------------------------------------------------
(* Each await of the cycle, applied to both stores.                        *)

\* A statement on the memory's row of the runner's job.
MemRow(r, row) ==
    /\ memJobs' = IF lost THEN memJobs ELSE [memJobs EXCEPT ![JobOf(r)] = row]
    /\ UNCHANGED <<seen, memSnapshots, memSeen, lost>>

\* The objects the runner upserts are first and last seen at its nowIso.
Upsert(r, entities) ==
    /\ seen' = MergeSeen(seen, entities, now[r])
    /\ memSeen' = IF lost THEN memSeen ELSE ReplaceSeen(memSeen, entities, now[r])
    /\ UNCHANGED <<memJobs, memSnapshots, lost>>

TwinTick == Tick /\ UNCHANGED twins

TwinStart(r) == StartCycle(r) /\ UNCHANGED twins

\* In memory create is one step: it inserts, or returns the row that is there.
TwinCreate(r) ==
    \/ /\ InsertJob(r)
       /\ MemRow(r, IF Exists(memJobs[JobOf(r)]) THEN memJobs[JobOf(r)]
                    ELSE QueuedRow(now[r]))
    \/ SelectJob(r) /\ UNCHANGED twins

TwinMark(r) ==
    \/ MarkRunning(r) /\ MemRow(r, MemSetStatus(memJobs[JobOf(r)], "running"))
    \/ MarkSucceeded(r) /\ MemRow(r, MemSetStatus(memJobs[JobOf(r)], "succeeded"))

TwinSaveCursor(r) ==
    /\ SavePageCursor(r)
    /\ MemRow(r, [memJobs[JobOf(r)] EXCEPT !.cursorSaved = TRUE])

TwinFail(r) ==
    /\ RecordJobFailure(r)
    /\ MemRow(r, MemFail(memJobs[JobOf(r)], now[r]))

TwinUpsert(r) ==
    \/ UpsertAccounts(r) /\ Upsert(r, {AuthorOf[p] : p \in page[r].posts})
    \/ UpsertContents(r) /\ Upsert(r, page[r].posts)

TwinAppend(r) ==
    /\ AppendSnapshots(r)
    /\ memSnapshots' = IF lost THEN memSnapshots
                       ELSE MemAppend(memSnapshots, SnapshotsOf(JobOf(r), page[r]))
    /\ UNCHANGED <<seen, memJobs, memSeen, lost>>

\* Raw events are pushed on an array or inserted, and nothing else moves.
TwinOther(r) ==
    /\ Fetch(r) \/ AppendRaw(r) \/ BuildTrend(r) \/ TryThrows(r)
    /\ UNCHANGED twins

TwinCrash(r) ==
    /\ Crash(r)
    /\ lost' = TRUE
    /\ memJobs' = [j \in Job |-> NoRow]
    /\ memSnapshots' = {}
    /\ memSeen' = [e \in Entities |-> Unseen]
    /\ UNCHANGED seen

TwinAdvance(r) ==
    \/ TwinCreate(r) \/ TwinMark(r) \/ TwinSaveCursor(r) \/ TwinFail(r)
    \/ TwinUpsert(r) \/ TwinAppend(r) \/ TwinOther(r)

TwinNext ==
    \/ TwinTick
    \/ \E r \in Runners : TwinStart(r) \/ TwinAdvance(r) \/ TwinCrash(r)

twinVars == <<vars, twins>>

TwinSpec ==
    /\ TwinInit /\ [][TwinNext]_twinVars
    /\ WF_twinVars(TwinTick)
    /\ \A r \in Runners : WF_twinVars(TwinStart(r)) /\ WF_twinVars(TwinAdvance(r))

-----------------------------------------------------------------------------
\* Up to the first crash the two job tables are the same, row by row, although
\* one is written by conditional SQL and the other by assignments to a live
\* object, and although only one takes the delay from an old copy of the count.
JobTablesAgree == ~lost => memJobs = jobs

\* The metrics are the same as well, although Postgres keeps the first value of
\* a key and the memory the last: a job appends once, because a store that does
\* not throw leaves nothing to retry after the append, and a succeeded job is
\* not run again.  Authors and posts were last seen at the same time; only
\* Postgres still knows when they were first seen.
ObservationsAgree ==
    ~lost =>
        /\ memSnapshots = snapshots
        /\ \A e \in Entities :
              /\ memSeen[e].last = seen[e].last
              /\ memSeen[e].first >= seen[e].first
=============================================================================
