-------------------------- MODULE CollectionCycle --------------------------
(***************************************************************************)
(* Processes that run the phase-1 collection cycle against one Postgres    *)
(* database.  A runner is a sequential thread of cycles: the scheduler     *)
(* (cycles never overlap, thanks to inFlight), a one-shot worker, or one   *)
(* POST /v1/runs/reddit-phase1 request of the API.  A cycle fixes nowIso   *)
(* when it starts and then, for every target in order, calls               *)
(* collectSubredditAboutJob, collectSubredditNewPostsJob and               *)
(* buildSubredditTrendPointsJob.  Runners share nothing but the tables.    *)
(*                                                                         *)
(* Every await on the database or on the connector is a step of its own,   *)
(* so that two runners interleave between any two statements, and every    *)
(* step may fail or be cut short by a crash, as far as Faults allows.      *)
(***************************************************************************)
EXTENDS JobTable, Windowing, FiniteSets

CONSTANTS
    Runners,        \* the processes that run cycles
    NumTargets,     \* active targets, visited in the order of canonical_name
    Posts,          \* posts a listing may return
    Authors,        \* their authors
    AuthorOf,       \* [Posts -> Authors]
    AboutMetrics,   \* metrics an about page may carry: subscribers, active_users
    PageLimit,      \* limit: the most children a listing has
    Faults          \* what may go wrong, see FaultKinds

FaultKinds ==
    { "fetch",      \* the connector gives up
      "statement",  \* a statement is not applied and its call throws
      "ack",        \* a statement is applied and its call throws
      "crash" }     \* the process dies

ASSUME CycleAssumption ==
    /\ NumTargets \in Nat \ {0}
    /\ IsFiniteSet(Posts)
    /\ Posts \cap (AboutMetrics \cup {"new_posts_15m"}) = {}
    /\ AuthorOf \in [Posts -> Authors]
    /\ AboutMetrics \subseteq {"subscribers", "active_users"}
    /\ PageLimit \in Nat
    /\ Faults \subseteq FaultKinds

Targets == 1 .. NumTargets
Kinds   == {"about", "posts"}

\* The unique key of collection_job, which also names the job's id.
Job == [target : Targets, kind : Kinds, window : Windows]

\* A metrics_snapshot row; job stands for (target_id, snapshot_at,
\* collection_job_id) and item for (metric_name, content_id): a metric of the
\* target, or a post for any one of score, num_comments, upvote_ratio.
Item     == AboutMetrics \cup {"new_posts_15m"} \cup Posts
Snapshot == [job : Job, item : Item, value : Nat]

\* What a runner keeps of a fetched page: the posts it lists, the metrics it
\* has a number for, the number of its children and whether it has a next cursor.
Page ==
    [ posts   : SUBSET Posts,
      metrics : SUBSET (AboutMetrics \cup Posts),
      length  : 0 .. PageLimit,
      more    : BOOLEAN ]

NoPage == [posts |-> {}, metrics |-> {}, length |-> 0, more |-> FALSE]

\* A listing may show a post twice, and a post without a number to its name.
IsListing(p) ==
    /\ p.metrics \subseteq p.posts
    /\ Cardinality(p.posts) <= p.length
    /\ p.posts = {} => p.length = 0

IsAboutPage(p) ==
    p.posts = {} /\ p.metrics \subseteq AboutMetrics /\ p.length = 0 /\ ~p.more

PagesOf(kind) ==
    {p \in Page : IF kind = "about" THEN IsAboutPage(p) ELSE IsListing(p)}

VARIABLES
    clock,
    jobs,           \* collection_job: Job -> Row
    rawEvents,      \* raw_reddit_event: number of rows per job
    accounts,       \* account
    contents,       \* content: the posts stored
    snapshots,      \* metrics_snapshot
    pc,             \* the await each runner is at
    now,            \* nowIso of the runner's cycle
    target, kind,   \* the call the runner is in
    seenRetries,    \* retryCount of the row create returned
    page,           \* what the connector returned
    lastStart       \* tick of the runner's last cycle start

tables == <<jobs, rawEvents, accounts, contents, snapshots>>
locals == <<now, target, kind, seenRetries, page>>
vars   == <<clock, tables, pc, locals, lastStart>>

TrySteps == {"fetch", "append_raw", "upsert_accounts", "upsert_contents",
             "append_snapshots", "save_cursor", "mark_succeeded"}
Steps == {"idle", "insert_job", "select_job", "mark_running", "record_failure",
          "build_trend"} \cup TrySteps

JobOf(r) ==
    [target |-> target[r], kind |-> kind[r], window |-> WindowStart(now[r])]

Init ==
    /\ clock = 0
    /\ jobs = [j \in Job |-> NoRow]
    /\ rawEvents = [j \in Job |-> 0]
    /\ accounts = {}
    /\ contents = {}
    /\ snapshots = {}
    /\ pc = [r \in Runners |-> "idle"]
    /\ now = [r \in Runners |-> 0]
    /\ target = [r \in Runners |-> 1]
    /\ kind = [r \in Runners |-> "about"]
    /\ seenRetries = [r \in Runners |-> 0]
    /\ page = [r \in Runners |-> NoPage]
    /\ lastStart = [r \in Runners |-> NoTime]

-----------------------------------------------------------------------------
(* Control flow helpers.                                                   *)

At(r, step)   == pc[r] = step
GoTo(r, step) == pc' = [pc EXCEPT ![r] = step]

\* The call or the cycle is over: its locals are forgotten.
Forget(r) ==
    /\ seenRetries' = [seenRetries EXCEPT ![r] = 0]
    /\ page' = [page EXCEPT ![r] = NoPage]

\* The exception leaves the job and aborts the cycle.
AbortCycle(r) ==
    /\ GoTo(r, "idle")
    /\ Forget(r)
    /\ now' = [now EXCEPT ![r] = 0]
    /\ target' = [target EXCEPT ![r] = 1]
    /\ kind' = [kind EXCEPT ![r] = "about"]

\* Variant: the call does not move on from the posts job.
JobReturnsToPosts(r) ==
    /\ GoTo(r, "insert_job")
    /\ kind' = [kind EXCEPT ![r] = "posts"]
    /\ Forget(r)
    /\ UNCHANGED <<now, target>>

\* The job returned: posts follow about, the trend build follows posts.
JobReturns(r) ==
    /\ IF kind[r] = "about"
         THEN GoTo(r, "insert_job") /\ kind' = [kind EXCEPT ![r] = "posts"]
         ELSE GoTo(r, "build_trend") /\ UNCHANGED kind
    /\ Forget(r)
    /\ UNCHANGED <<now, target>>

\* Variant: the count kept for the catch block has the coming failure in it.
DispatchCountsAhead(r, row) ==
    IF ShouldRun(row, now[r])
    THEN /\ GoTo(r, "mark_running")
         /\ seenRetries' = [seenRetries EXCEPT ![r] = row.retryCount + 1]
         /\ UNCHANGED <<now, target, kind, page>>
    ELSE JobReturns(r)

\* Variant: the retry count of the row is not kept for the catch block.
DispatchForgetsCount(r, row) ==
    IF ShouldRun(row, now[r])
    THEN GoTo(r, "mark_running") /\ UNCHANGED locals
    ELSE JobReturns(r)

\* The branch on the row that create returned.
Dispatch(r, row) ==
    IF ShouldRun(row, now[r])
    THEN /\ GoTo(r, "mark_running")
         /\ seenRetries' = [seenRetries EXCEPT ![r] = row.retryCount]
         /\ UNCHANGED <<now, target, kind, page>>
    ELSE JobReturns(r)

\* A statement of the try block that changes one table.
Proceed(r, from, to) ==
    /\ At(r, from)
    /\ GoTo(r, to)
    /\ UNCHANGED <<clock, locals, lastStart>>

-----------------------------------------------------------------------------
(* The clock and the start of a cycle.                                     *)

Tick ==
    /\ clock < MaxClock
    /\ clock' = clock + 1
    /\ UNCHANGED <<tables, pc, locals, lastStart>>

\* Bound: a runner starts at most one cycle per tick, the scheduler's interval.
StartCycle(r) ==
    /\ At(r, "idle")
    /\ lastStart[r] < clock
    /\ lastStart' = [lastStart EXCEPT ![r] = clock]
    /\ now' = [now EXCEPT ![r] = clock]
    /\ GoTo(r, "insert_job")
    /\ UNCHANGED <<clock, tables, target, kind, seenRetries, page>>

-----------------------------------------------------------------------------
(* create: INSERT .. ON CONFLICT DO NOTHING, then a SELECT of its own.     *)

InsertJob(r) ==
    LET j == JobOf(r)
    IN  /\ At(r, "insert_job")
        /\ \/ /\ ~Exists(jobs[j])
              /\ jobs' = [jobs EXCEPT ![j] = QueuedRow(now[r])]
              /\ Dispatch(r, QueuedRow(now[r]))
           \/ /\ Exists(jobs[j])
              /\ GoTo(r, "select_job")
              /\ UNCHANGED <<jobs, locals>>
        /\ UNCHANGED <<clock, rawEvents, accounts, contents, snapshots, lastStart>>

SelectJob(r) ==
    /\ At(r, "select_job")
    /\ Dispatch(r, jobs[JobOf(r)])
    /\ UNCHANGED <<clock, tables, lastStart>>

-----------------------------------------------------------------------------
(* The body of the two jobs.                                               *)

MarkRunning(r) ==
    /\ Proceed(r, "mark_running", "fetch")
    /\ jobs' = [jobs EXCEPT ![JobOf(r)] = SetStatus(@, "running")]
    /\ UNCHANGED <<rawEvents, accounts, contents, snapshots>>

Fetch(r) ==
    /\ At(r, "fetch")
    /\ GoTo(r, "append_raw")
    /\ \E p \in PagesOf(kind[r]) : page' = [page EXCEPT ![r] = p]
    /\ UNCHANGED <<clock, tables, now, target, kind, seenRetries, lastStart>>

\* Variant: an empty listing has nothing to store, not even its count.
StepAfterRawSkipsEmpty(r) ==
    IF kind[r] = "about"
    THEN IF page[r].metrics = {} THEN "mark_succeeded" ELSE "append_snapshots"
    ELSE IF page[r].posts = {} THEN "mark_succeeded" ELSE "upsert_accounts"

\* Variant: contents are stored without their authors.
StepAfterRawSkipsAccounts(r) ==
    IF kind[r] = "about"
    THEN IF page[r].metrics = {} THEN "mark_succeeded" ELSE "append_snapshots"
    ELSE IF page[r].posts = {} THEN "append_snapshots" ELSE "upsert_contents"

\* An about page without metrics writes no snapshot; an empty listing upserts
\* nothing but still has its new_posts_15m snapshot.
StepAfterRaw(r) ==
    IF kind[r] = "about"
    THEN IF page[r].metrics = {} THEN "mark_succeeded" ELSE "append_snapshots"
    ELSE IF page[r].posts = {} THEN "append_snapshots" ELSE "upsert_accounts"

AppendRaw(r) ==
    /\ Proceed(r, "append_raw", StepAfterRaw(r))
    /\ rawEvents' = [rawEvents EXCEPT ![JobOf(r)] = @ + 1]
    /\ UNCHANGED <<jobs, accounts, contents, snapshots>>

UpsertAccounts(r) ==
    /\ Proceed(r, "upsert_accounts", "upsert_contents")
    /\ accounts' = accounts \cup {AuthorOf[p] : p \in page[r].posts}
    /\ UNCHANGED <<jobs, rawEvents, contents, snapshots>>

UpsertContents(r) ==
    /\ Proceed(r, "upsert_contents", "append_snapshots")
    /\ contents' = contents \cup page[r].posts
    /\ UNCHANGED <<jobs, rawEvents, accounts, snapshots>>

\* The rows a page yields.  The count is the length of the listing, whatever
\* its posts are; it alone differs from one attempt to the next, and every other
\* metric is the number 1.
SnapshotsOf(j, p) ==
    {[job |-> j, item |-> i, value |-> 1] : i \in p.metrics}
    \cup IF j.kind = "about" THEN {}
         ELSE {[job |-> j, item |-> "new_posts_15m", value |-> p.length]}

SameKey(s, t) == s.job = t.job /\ s.item = t.item

\* Variants: no unique index, and the last value of a key wins.
InsertAll(table, rows) == table \cup rows

InsertOrReplace(table, rows) ==
    {t \in table : \A s \in rows : ~SameKey(s, t)} \cup rows

\* INSERT .. ON CONFLICT DO NOTHING: the first value of a key stays.
InsertMissing(table, rows) ==
    table \cup {s \in rows : \A t \in table : ~SameKey(s, t)}

AppendSnapshots(r) ==
    /\ Proceed(r, "append_snapshots",
               IF kind[r] = "posts" /\ page[r].more
               THEN "save_cursor" ELSE "mark_succeeded")
    /\ snapshots' = InsertMissing(snapshots, SnapshotsOf(JobOf(r), page[r]))
    /\ UNCHANGED <<jobs, rawEvents, accounts, contents>>

SavePageCursor(r) ==
    /\ Proceed(r, "save_cursor", "mark_succeeded")
    /\ jobs' = [jobs EXCEPT ![JobOf(r)] = SaveCursor(@)]
    /\ UNCHANGED <<rawEvents, accounts, contents, snapshots>>

Succeeded(r) == jobs' = [jobs EXCEPT ![JobOf(r)] = SetStatus(@, "succeeded")]

MarkSucceeded(r) ==
    /\ At(r, "mark_succeeded")
    /\ Succeeded(r)
    /\ JobReturns(r)
    /\ UNCHANGED <<clock, rawEvents, accounts, contents, snapshots, lastStart>>

\* catch block: fail, then rethrow.  The count is read by the statement, the
\* delay comes from the row create returned.
RecordJobFailure(r) ==
    LET j   == JobOf(r)
        row == RecordFailure(jobs[j], now[r], RetryDelay(seenRetries[r] + 1))
    IN  /\ At(r, "record_failure")
        /\ Admitted(row)
        /\ jobs' = [jobs EXCEPT ![j] = row]
        /\ AbortCycle(r)
        /\ UNCHANGED <<clock, rawEvents, accounts, contents, snapshots, lastStart>>

\* The server refuses the statement: fail throws out of the catch block.
FailureRejected(r) ==
    LET row == RecordFailure(jobs[JobOf(r)], now[r], RetryDelay(seenRetries[r] + 1))
    IN  /\ At(r, "record_failure")
        /\ ~Admitted(row)
        /\ AbortCycle(r)
        /\ UNCHANGED <<clock, tables, lastStart>>

\* Variant: one target too many.
BuildTrendOverruns(r) ==
    /\ At(r, "build_trend")
    /\ \/ /\ target[r] <= NumTargets
          /\ GoTo(r, "insert_job")
          /\ target' = [target EXCEPT ![r] = @ + 1]
          /\ kind' = [kind EXCEPT ![r] = "about"]
          /\ Forget(r)
          /\ UNCHANGED now
       \/ /\ target[r] > NumTargets
          /\ AbortCycle(r)
    /\ UNCHANGED <<clock, tables, lastStart>>

\* The trend build reads snapshots and writes trend points only (module
\* TrendSeries), then the cycle goes on to the next target or ends.
BuildTrend(r) ==
    /\ At(r, "build_trend")
    /\ \/ /\ target[r] < NumTargets
          /\ GoTo(r, "insert_job")
          /\ target' = [target EXCEPT ![r] = @ + 1]
          /\ kind' = [kind EXCEPT ![r] = "about"]
          /\ Forget(r)
          /\ UNCHANGED now
       \/ /\ target[r] = NumTargets
          /\ AbortCycle(r)
    /\ UNCHANGED <<clock, tables, lastStart>>

-----------------------------------------------------------------------------
(* Faults.                                                                 *)

\* Something in the try block throws: the connector, a statement or the mapper.
TryThrows(r) ==
    /\ pc[r] \in TrySteps
    /\ (IF At(r, "fetch") THEN "fetch" ELSE "statement") \in Faults
    /\ GoTo(r, "record_failure")
    /\ UNCHANGED <<clock, tables, locals, lastStart>>

\* A statement outside the try block throws, or fail itself does.
CallThrows(r) ==
    /\ "statement" \in Faults
    /\ pc[r] \in {"insert_job", "select_job", "mark_running", "record_failure",
                  "build_trend"}
    /\ AbortCycle(r)
    /\ UNCHANGED <<clock, tables, lastStart>>

\* The last statement is applied but its acknowledgement is lost, so the catch
\* block records a failure of a job that succeeded.  For every other statement
\* this is what a failure of the next one, or a crash, leaves behind.
SucceededAckLost(r) ==
    /\ "ack" \in Faults
    /\ At(r, "mark_succeeded")
    /\ Succeeded(r)
    /\ GoTo(r, "record_failure")
    /\ UNCHANGED <<clock, rawEvents, accounts, contents, snapshots, locals, lastStart>>

\* The process dies; it restarts with nothing but the tables.
Crash(r) ==
    /\ "crash" \in Faults
    /\ ~At(r, "idle")
    /\ AbortCycle(r)
    /\ UNCHANGED <<clock, tables, lastStart>>

-----------------------------------------------------------------------------
\* One step of a cycle that is under way, whatever its outcome.
Advance(r) ==
    \/ InsertJob(r) \/ SelectJob(r) \/ MarkRunning(r) \/ Fetch(r)
    \/ AppendRaw(r) \/ UpsertAccounts(r) \/ UpsertContents(r)
    \/ AppendSnapshots(r) \/ SavePageCursor(r) \/ MarkSucceeded(r)
    \/ RecordJobFailure(r) \/ FailureRejected(r) \/ BuildTrend(r)
    \/ TryThrows(r) \/ CallThrows(r) \/ SucceededAckLost(r)

Next ==
    \/ Tick
    \/ \E r \in Runners : StartCycle(r) \/ Advance(r) \/ Crash(r)

Spec == Init /\ [][Next]_vars

\* Time passes, the interval timer fires and every await settles.
Fairness ==
    /\ WF_vars(Tick)
    /\ \A r \in Runners : WF_vars(StartCycle(r)) /\ WF_vars(Advance(r))

FairSpec == Spec /\ Fairness

-----------------------------------------------------------------------------
(* Properties.  The first group holds for any runners and any faults.      *)

PostsOnly == {"upsert_accounts", "upsert_contents", "save_cursor", "build_trend"}

\* Types of the tables and of the runners' locals; a runner holds a page of the
\* kind of its job, and only a posts job reaches the steps of a listing.
TypeOK ==
    /\ clock \in Time
    /\ jobs \in [Job -> Row]
    /\ rawEvents \in [Job -> Nat]
    /\ accounts \subseteq Authors
    /\ contents \subseteq Posts
    /\ snapshots \subseteq Snapshot
    /\ pc \in [Runners -> Steps]
    /\ now \in [Runners -> Time]
    /\ target \in [Runners -> Targets]
    /\ kind \in [Runners -> Kinds]
    /\ seenRetries \in [Runners -> Nat]
    /\ page \in [Runners -> Page]
    /\ \A r \in Runners :
          /\ page[r] \in PagesOf(kind[r])
          /\ pc[r] \in PostsOnly => kind[r] = "posts"
    /\ lastStart \in [Runners -> Time \cup {NoTime}]

\* However runners interleave and fail, the columns of every row agree with
\* its status.
RowsConsistent == \A j \in Job : RowConsistent(jobs[j])

HasNewPostsCount(j) ==
    \E s \in snapshots : s.job = j /\ s.item = "new_posts_15m"

\* A job that reads succeeded has left what it was run for: a raw event and,
\* for a listing, the count of its posts.  Skipping a succeeded job in later
\* cycles of the window therefore loses nothing.
SucceededHasData ==
    \A j \in Job : jobs[j].status = "succeeded" =>
        /\ rawEvents[j] > 0
        /\ j.kind = "posts" => HasNewPostsCount(j)

\* The foreign keys of content and metrics_snapshot are met at every moment,
\* even though every table is written by a transaction of its own.
NoDanglingReference ==
    /\ \A p \in contents : AuthorOf[p] \in accounts
    /\ \A s \in snapshots : s.item \in Posts => s.item \in contents

\* One value per target, content, metric and window, whichever attempt of
\* whichever runner got there first.
OneValuePerKey ==
    \A s, t \in snapshots : SameKey(s, t) => s = t

\* However many runners fail on a job, each with the delay of the count it saw
\* when it began, the row never asks for more patience than the count in it
\* justifies: an old count can only bring the retry forward.
RetryDueInTime ==
    \A j \in Job : jobs[j].status = "retrying" =>
        jobs[j].nextRunAt <= clock + RetryDelay(jobs[j].retryCount)

\* Observations are append-only: a retry or a second runner neither rewrites a
\* snapshot nor loses a raw event.
AppendOnly ==
    [][ /\ snapshots \subseteq snapshots'
        /\ \A j \in Job : rawEvents'[j] >= rawEvents[j] ]_vars

(* The second group needs a single runner, and no lost acknowledgement;    *)
(* module CollectionLifecycle adds the life of a job to it.                *)

\* COLLECTION_JOB_MAX_RETRIES is a ceiling on the failures a job can have.
RetryCeiling == \A j \in Job : jobs[j].retryCount <= MaxRetries + 1

\* A failure is on record when the cycle it aborts is over: the row says
\* whether and when to try again.
FailureRecorded ==
    [][ \A r \in Runners : At(r, "record_failure") /\ At(r, "idle")' =>
          jobs'[JobOf(r)].status \in {"retrying", "dead_letter"} ]_vars

\* What a runner has established by the time it reaches a step.  No other
\* runner can undo it, because rows are only added to these tables.
AfterRaw == TrySteps \ {"fetch", "append_raw"}

RunnerProgress(r) ==
    /\ pc[r] \in AfterRaw => rawEvents[JobOf(r)] > 0
    /\ At(r, "upsert_contents") => \A p \in page[r].posts : AuthorOf[p] \in accounts
    /\ At(r, "append_snapshots") /\ kind[r] = "posts" => page[r].posts \subseteq contents
    /\ pc[r] \in {"save_cursor", "mark_succeeded"} /\ kind[r] = "posts" =>
          HasNewPostsCount(JobOf(r))

\* The inductive invariant behind SucceededHasData and NoDanglingReference:
\* a runner reaches mark_succeeded only over rows that are already stored.
IInv ==
    /\ TypeOK
    /\ RowsConsistent
    /\ \A r \in Runners : RunnerProgress(r)
    /\ SucceededHasData
    /\ NoDanglingReference
    /\ OneValuePerKey

(* Liveness, under Fairness.                                               *)

\* Every cycle ends, whatever fails on the way.
CycleEnds == \A r \in Runners : ~At(r, "idle") ~> At(r, "idle")

\* A job that waits for a retry is eventually settled.  The last window is
\* left out: the bounded clock may stop in it.
RetrySettles ==
    \A j \in Job : j.window < WindowStart(MaxClock) =>
        (jobs[j].status = "retrying"
            ~> jobs[j].status \in {"succeeded", "dead_letter"})
=============================================================================
