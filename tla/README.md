# Verification of euroish-ojh

TLA+ models of the Reddit monitoring pipeline in `src/`, checked with TLC, and
theorems about them checked with TLAPS. The code is the reference: every
definition names in `PROJECT.json` ("map") the lines it stands for.

Run everything from this directory:

    tlc -config MC_TwoRunners.cfg MCCollectionCycle.tla    # one run
    tlapm CollectionCycleProofs.tla                        # one proof module

## 1. Inventory

The system collects subreddit metrics in 15-minute windows, stores them in
Postgres, turns them into trend points and serves those over HTTP. Several
processes share the database: the scheduler, one-shot workers and the API server,
which can run a cycle of its own. Nothing locks a job; only SQL
statements, unique keys and `ON CONFLICT` clauses keep the processes apart.

| Component | State | Operations | Interacts with |
|---|---|---|---|
| collection jobs (`collect-subreddit-about.job.ts`, `collect-subreddit-new-posts.job.ts`, `job-retry-policy.ts`) | locals across awaits: the row `create` returned, the page | create, run, fail | job table, connector, mapper, all repositories |
| job table (`postgres-collection-job.repository.ts`, migrations 001 and 004) | `collection_job` | create, updateStatus, fail, saveCursor, findRunnableJobs (no caller) | Postgres |
| collection cycle (`reddit-phase1.worker.ts`) | nowIso, current target | about, posts, trend build per target | jobs, build |
| scheduler (`workers/reddit-phase1-scheduler.ts`) | inFlight, stopped, timer, pool | runCycle, closeGracefully | cycle, signals, timers |
| trend build (`build-subreddit-trend-points.job.ts`, `trend-scoring.service.ts`) | `subreddit_trend_point` | read, score, upsert | metrics and trend repositories |
| trend read path (`api-validation.ts`, `subreddit-trend-read-model.ts`, GET route) | none | resolve a range, read, summarise | trend repository |
| HTTP connector (`reddit-http.connector.ts`) | one call's attempt, timer, hints | requestJson | the Reddit server |
| other Postgres repositories, `postgres-client.ts` | `metrics_snapshot`, `content`, `account`, `raw_reddit_event`, `monitor_target` | appendMany, upsertMany, append | Postgres |
| API server and process (`create-api-server.ts`, `server.ts`) | open requests, pool | routes, shutdown | repositories, cycle |
| migrations (`run-migrations.ts`, `*.sql`) | `schema_migration` and the schema | apply the missing files | Postgres |
| in-memory repositories | maps | the repository interfaces, for tests | jobs, cycle |
| mapper, stable ids, windowing | none | pure functions | jobs |
| mock and Apify connectors, one-shot workers, scripts | none of their own | fixed data; one cycle | cycle |

What is hard to get right, and to test:

- two runners inside one job, each with a stale copy of its row;
- five or more transactions per job, any of which may fail, or be applied without
  its acknowledgement arriving, with a crash in between;
- retries whose identity includes the window they were scheduled in;
- a retry policy spread over the row (`retry_count`), the caller (the delay) and
  the environment (the ceiling);
- a shutdown that races with the first cycle, the timer and a second signal;
- builds that read and write in separate transactions and rewrite the last two
  hours each time, with gaps where nothing was collected;
- a request loop with an abort timer, server hints, jitter and a body that may stall;
- a server that closes its pool when its connections are gone, which need not mean that
  its handlers are, and that stops checking its clients' timeouts when it is closed.

What makes the components correct: a succeeded job has stored its data; foreign
keys hold between transactions; there is one value per metric and window;
failures are recorded, counted up to the ceiling and backed off; cycles end and do
not overlap in one process; shutdown waits for the cycle; a point says what was
collected; a request ends in bounded time and waits as long as it was asked to.
`PROJECT.json` lists each hazard at its line with the properties about it.

## 2. Modules

| Module | Stands for | Uses |
|---|---|---|
| `JobLifecycle` | abstract: the life of a job, whatever statements and processes stand behind it | |
| `JobTable` | one `collection_job` row and the statements on it, as operators from the old row to the new one | |
| `Windowing` | clock ticks and `floorToWindow` | |
| `CollectionCycle` | runners (any process that runs cycles) executing cycles of two jobs and a build per target, over shared tables | `JobTable`, `Windowing` |
| `CollectionLifecycle` | the refinement mapping from `CollectionCycle` to `JobLifecycle` | `CollectionCycle`, instance of `JobLifecycle` |
| `InMemoryStores` | the in-memory repositories, fed with the statements of the same runner | `CollectionLifecycle` |
| `TrendSeries` | builders that read metrics and upsert trend points; the rows a request reads | `Windowing` |
| `TrendScoring` | `scoreTrendWindows` and its helpers, as operators on sequences of counts | |
| `TrendBoard` | the rows that successive builds leave, with their scores, and the movers a reader sees | `Windowing`, `TrendScoring` |
| `Migrations` | runs of `runMigrations` against one database | |
| `Phase1Scheduler` | the scheduler process: callbacks, timer, signals, pool | |
| `RedditRequest` | one call of `requestJson` | |
| `ApiProcess` | the API process: request handlers as sequences of awaits, connections, pool, shutdown | |
| `MC...` | constants of the instances | the module of that name |
| `...Proofs` | theorems and their proofs | the module of that name; `CollectionCycleProofs` has those about `JobTable` too, `LifecycleProofs` those about `CollectionLifecycle` and `InMemoryStores`, `TrendBoardProofs` those about `TrendScoring` |

The grain of an action follows the code: between two awaits JavaScript is not
interrupted, and a statement or `withTransaction` block is atomic in Postgres, so
an action is one await with the synchronous code up to the next one. In
`CollectionCycle` the program counter names the await (`insert_job`, `fetch`,
`upsert_contents`, ...); `create` is two steps because its INSERT and its SELECT
are two statements. `TryThrows` is any exception that the job's catch block sees,
`CallThrows` one that it does not see, `Crash` loses all locals. The
modules meet in several places: a scheduler cycle is the life of one runner of
`CollectionCycle`; `build_trend` there is the read and the write of a builder in
`TrendSeries`, which in turn sees a job only as what it leaves in the metrics; and
`Fetch` is a `RedditRequest` call, which ends by `Settles`. A handler of `ApiProcess` that
runs a cycle is a runner of `CollectionCycle` as well, one that starts when a
request comes.

**The promise of a job.** `JobLifecycle` knows jobs that are absent, waiting, running,
succeeded or buried, a count of failures and a due time. `CollectionLifecycle` maps
`queued` and `retrying` to waiting, `dead_letter` to buried, and the time of a cycle to the
`nowIso` of the latest one, because that is what the code stamps on all it writes.
`KeepsLifecycle` says that a lone runner implements it. It combines what would be separate
properties otherwise: a retry does not start before it is due, the delay belongs to the
count in the row, a job is buried at exactly its `MaxRetries + 1`-th failure, and a settled
job is not touched. With two runners it does not hold (`shared_jobs`), nor when the
acknowledgement of the last update is lost and the catch block records a failure of a job
that has succeeded; what holds then are the invariants of `two_runners`.

**Two stores.** `InMemoryStores` extends the state by the maps of the in-memory
repositories and applies each statement of the cycle to both, so that a state shows how far
a test in memory speaks for production. Its job operators are translated from
`in-memory.repositories.ts` on their own: a live object instead of a copy, `fail` that takes
its delay from the count in the row, `updateStatus` that finishes what it dead-letters,
the last value of a key instead of the first. A crash empties the memory, and the comparison ends.

**Scores.** A score is `tanh` of a weighted sum of components; the model keeps the
components, exactly: growth rates as fractions, medians doubled, standard deviations as
variances over a common denominator. Equal components give equal scores (not the other way
round: different components may add up to the same sum), so "the score stays" needs no floating
point, and thresholds on the z-scores are compared without rounding. The velocity is a sum of the
growth of all three series, posts, active users and subscribers; subscribers have no other part
in a score, but a window with nothing else is listed, scored and made a row of. A sort is stated by its result: `Sorted` puts each element at
the place that the number of elements before it gives, which is what `Array.sort` returns for a
comparison without ties (windows are distinct, and movers of equal size are told apart by their
window). The sort inside the median has ties; it is stable, so `Precede` counts equal readings in
the order of the list, and `Ascending` is again a sort by result. `TrendSeries` has the interleavings of builds and no scores,
`TrendBoard` the scores and builds that follow one another.

**Migrations.** Each file of the schema directory has its own `BEGIN` and `COMMIT`, so the
file and its record are two transactions although the code puts them into one
(`CommitFile`, then `Record`). A file whose guards make it harmless to apply again may still
collide with itself when two runs apply it at once; `saw` remembers whether the statement
began after the other run's commit. `SharedFate` puts the runs into one process, as in the
scripts that import `runMigrations` and so start its `main()` beside their own call.

Times are ticks. A snapshot keeps its job for (target, window, job), and an item
for its metric or post. A fetched page (`Page`) is what the job makes of it: the posts it
lists, those of them (or the metrics of an about page) that carry a number, its length and
whether there is a next one. The stored count is the length of the listing, as in the code: a
post listed twice counts twice, and a post without numbers counts as well, so a count says
nothing of the post metrics beside it. All other values are the constant 1;
only the post count differs between attempts, which is the case that first-value-wins
has to get right. `raw_reddit_event` is a count. In `TrendSeries` a window has its post count and
a flag each for active users and subscribers, which the about job stores independently of each
other; in `TrendBoard` it has the three readings.

**Clients.** A connection of `ApiProcess` is silent until the headers of its request are there, open
while the request is handled and idle after it, when the client may send the next one.
`server.close` closes the idle connections; the silent ones count as active for `node:http` and
stay, and their requests are still served.

Operators whose comment starts with "Variant" are plausible mistakes in the code
(a dropped guard, a swapped order, a missing reset). No specification uses them; they
serve to show that each property can fail: `PROJECT.json` ("mutants") says which
variant, put in place of which definition, breaks which property.

Two constants of `JobTable` stand for facts about Postgres that are not visible in
TypeScript. `DeadLetterAllowed` is FALSE for a database migrated by this repository:
`pg_get_constraintdef` prints `status = ANY (ARRAY[...])`, which the
`ILIKE '%status IN%'` of migration 004 does not match, so the CHECK of migration 001
remains. `FailureTyped` is FALSE when the server resolves the untyped
`CASE ... THEN NULL ELSE $4 END` of `fail` as text and refuses it for a
`TIMESTAMPTZ` column. Both were derived from the SQL and the documented type
resolution of Postgres, not observed on a server. Runs with both TRUE show what the
code does on a schema that accepts its statements; `two_runners` has the first one
FALSE, `failure_refused` the second. (With `DeadLetterAllowed = FALSE` alone,
`FailureRecorded` is violated as well, by the failure that should dead-letter a job.)

## 3. Runs

| Run | Instance | Shows |
|---|---|---|
| `two_runners` | two runners, one target, one post, one window, retries up to 2, every fault, dead_letter refused | every invariant of the tables, append-only observations, retries due in time |
| `one_runner` | one fair runner, two targets, one window of 4 ticks, retries up to 2, failing fetches and crashes, both stores | the refinement of `JobLifecycle`; both stores hold the same until a crash; cycles end |
| `shared_jobs` (violation) | two runners, no crash | `RetryCeiling` is exceeded |
| `stranded_retry` (violation) | one fair runner, two windows | a retry due in the next window is never run |
| `failure_refused` (violation) | `FailureTyped = FALSE` | no failure is recorded |
| `trend_two_builders` | two builders, two windows of two ticks, up to two posts, with or without active users and subscribers, lookback of one window | points and deltas are backed by metrics, old rows are final, only an overtaken build takes anything back |
| `trend_deltas` (violation) | one builder, four windows, lookback of two | a response holds a delta that is not the difference of its rows |
| `trend_board` | one cycle per tick, six windows of 1 or 9 posts or of subscribers alone, failed jobs, one outage | scores are local, typical windows no anomalies, rescoring only forgets, in the end everything before the window, the movers are the largest |
| `migrations` | three runs, two files, one crash, one edit of each file | true records, files in order, somebody wins, migrated in the end |
| `scheduler_boot` | first cycle at boot, three subreddits, three signals | no overlap, graceful stop, exit, continued collection |
| `request_retries` | three attempts, hints below and above the cap, 20 % jitter | budget, waits asked for, no stale hint, termination |
| `api_shutdown` | two clients, requests of up to two queries, three signals | answers before the exit, pool kept for waiting clients, handlers and shutdown end unless a client holds them |

**Bounds.** Two runners and one target give every pairwise interleaving of one job; jobs
of different targets share no row, so a second target only matters for the loop
(`one_runner`). One window of two ticks lets runners differ in `nowIso`; longer
windows are needed only for retries (`one_runner`: backoffs of 1 and 2 in a window of 4, so
that a job is buried by the cycle that starts in the last tick). A listing has up to
`PageLimit` = 1 children: none, one with a number to its name or one without; a count above the number of
posts, as of a post listed twice, needs nothing else of the tables. In `two_runners`
`MaxRetries` = 2 lets the delay grow between the failures of runners that saw different counts; its
schema buries no job; burial is checked by `one_runner` and covered by the theorem `RowsAlwaysConsistent`. Its `VIEW` leaves out
a page that no step looks at any more (its snapshots are written, or the job has failed), which
changes neither the steps of the other variables nor the properties. `MaxClock` ends the clock; runs
therefore do not check deadlock, and `RetrySettles` leaves out the last window, in
which the clock may stop. A runner starts one cycle per tick at most, because
cycles that do nothing would only repeat states. With a lookback of one window and
two windows (`trend_two_builders`), or of two and four (`trend_deltas`), a window
enters a build, loses its predecessor and leaves. `trend_board` scales the parameters
of the scoring down (baseline 3, recent 2, baseline of the change 2, lookback 4 windows, movers 3)
and keeps their relation (recent and baseline of the change make the baseline and the
window itself), so that six windows fill each slice, overflow it and leave it;
with the real parameters (8, 3, 6, 3) a score would need ten windows. What the jobs of a cycle
may store (`Collectable`) are six combinations: nothing, subscribers alone, two full pairs of pages, a failed
about job, and an about page without subscribers. Counts of 1 and 9,
and the 0 that stands for a missing one, let histories be constant, mostly constant and
mixed, which are the three cases of the robust z-score; `MaxBreaks` = 1 outage leaves a
row that the next build has not rescored (`OldRowsForgotten` is about the behaviours without it, since a
window of one tick allows no outage). Three runs of two
files are enough for one that is overtaken by a run that is overtaken in turn; a crash and
an edit fall anywhere. Three signals cover
first, second and further. Hints of 0, 5 and 9 ticks lie below and above
a backoff cap of 3, and a timeout of 2 lets an answer, its body and the abort
fall in any order. Two clients are enough for one whose request finishes while the other keeps
the server open, and for one that has left while the pool ends.

**Fairness.** `CollectionCycle`: the clock, the start of a cycle and the next step of
a cycle under way, whatever its outcome: the interval fires and every await
settles (`RedditRequest!Settles`; the database driver reports broken connections).
No fairness forces an outcome, so a connector may fail for ever.
`TwinSpec` has the same fairness on the same actions, applied to both stores. `Migrations`: every
statement of a run settles, and a deployment whose migration failed is run again
(`Start` from failed), which is what an operator does and what `EventuallyMigrated` is about; a
file that was edited is excepted, because the code then refuses for good.
`Phase1Scheduler`: the interval, every await of a cycle, the 200 ms poll, `pool.end`;
signals are never forced. `RedditRequest`: time, timers and the code's own
steps; nothing is asked of the server, which may stay silent or never finish a
body. `ApiProcess`: queries, transactions and fetches settle, the reading of a body notices that its
connection is gone, idle connections time out, and the calls of the shutdown go on. No client
need ever send anything, neither a request nor the rest of a body. While the server
listens, `node:http` closes the connection of one that keeps it waiting (headers and request
timeout); `server.close` ends the interval that checks these, so from then on no timeout is
assumed. `HandlersFinish` and `StopExits` therefore name what can hold a handler or the exit up:
a client that owes something and neither sends it nor leaves, or one that goes on sending requests on
the connection it has. Without either of these clauses TLC refutes them. Signals are not forced.

The findings that the violation runs stand for are in `PROJECT.json` ("findings"),
with the line of the code and the sentence that it contradicts.

## 4. Proofs

TLAPS proves, for every value of the constants that the named assumptions allow:

- `CollectionCycleProofs`: first what the statements preserve of one row of `JobTable`, the
  type of the retry delay and `BackoffNeverShrinks` (powers of two are handled as the number
  of subsets of `1..n`). Then `Typing`, `RowsAlwaysConsistent` and, from `Invariance`,
  `SucceededIsComplete`, `ReferencesHold`, `ValuesUnique`; `ObservationsAppendOnly`.
  "Succeeded implies stored" is not inductive: a step to succeeded says nothing of
  the tables. `IInv` adds `RunnerProgress`, what a runner has stored by the time it
  reaches each step. It survives the other runners because rows are only ever
  added to those tables. `RetriesAreDueInTime` is about the delay, which a runner computes from
  the count it saw before the fetch, while `fail` increments the count that is in the row by
  then. `DueInv` says that no runner holds a count above that of its row
  (`CountHeld`): the counts of the table never fall, so an old one is a smaller one, and by
  `BackoffNeverShrinks` its delay is no longer than that of the count in the row. With the clock
  at or past every `nowIso`, a retry is never put off for longer than the row justifies; it may come
  sooner.
- `LifecycleProofs`: `LoneRunnerKeepsLifecycle`, the refinement, for any targets, posts,
  windows, delays and faults other than lost acknowledgements, under the hypothesis `Lone`
  (one runner). The initial states map to the initial state and `StepRefines` maps each step of
  `CollectionCycle` to a step of `JobLifecycle` or a stutter, by the statement it issues. It
  needs `LoneInv`: what `create` returned is still what the row says when the
  job is marked, and when its failure is recorded, and every row is within the ceiling.
  `CeilingHolds` (`RetryCeiling`) follows from the same invariant; `shared_jobs` shows that `Lone`
  cannot be dropped. `JobTablesSame` and `ObservationsSame` are about `InMemoryStores` and need
  a second hypothesis, `StoresDoNotThrow` (only fetches fail and processes crash), because a
  map does not throw and the two stores could not be compared otherwise; run `one_runner`
  has both. Their invariant `TwinInv` adds to `LoneInv` what makes the last value of a key
  the first one as well: `AppendedOnce`, a job that is still to append has nothing in the
  table, since nothing can fail between its append and its success. `TwinsKeepLifecycle`
  carries the refinement over to the specification that `one_runner` checks.
- `MigrationsProofs`: `OrderInv` adds to `RecordedWasApplied` and `AppliedInOrder` what a run knows
  at each step: a run that is about to record has applied what it read, and one
  that is at a file knows that those before it are applied. `RecordsAreTrue` and `FilesInOrder` hold
  for any number of runs, files, crashes and edits. `RacersDoNotAllFail` is about undisturbed runs
  in processes of their own and needs `RaceInv`: from the moment the table exists some run
  is ahead, in that no other has done what it is about to do, and a run that overtakes
  it is ahead in its place.
- `TrendSeriesProofs`: `TimelineIsBacked` rests on `ViewsBacked`: what a build has read
  stays true until it writes, because the first value of a window stays.
  `OneRowPerWindow` and `OldRowsAreFinal` follow from the upsert and the range, and
  `OnlyStaleBuildsTakeBack` from `PointsBacked`: an up-to-date build has read at least
  what any row of its windows says. `DeltasAreBacked` follows from the same readings, once
  the window before another one in a list is known to be a window (the last of a bounded set
  of integers, by well-founded induction on the distance). `DeltasWithinLookback` and
  `OnlyTheSecondDeltaIsOff` say what is true of `ResponseDeltas`, which `trend_deltas`
  refutes: for a lone builder (`LoneBuilder`) a delta is the difference to the window before
  it, or the window's own count once that window has left the lookback; the response to a request
  without `from` and `to`, whose range is the lookback, therefore holds at most one wrong delta, that of
  its second window. (For an explicit range in the past every older row is off, as
  `OldRowsForgotten` shows.) Their invariant `LoneInv` says that cycles only move
  forward (nobody collects for a window that has rows after it) and that each row compares with
  the metrics of the window before it, or with nothing when that has left the lookback; it needs
  some arithmetic of the grid on which windows start. The hypothesis is needed: with the two
  builders of `trend_two_builders` TLC finds a delta that compares with neither.
- `TrendBoardProofs`: `ScoresAreLocal`, under `LocalParameters` (a baseline of two windows at least,
  and the recent windows and those of the change fit into the baseline and the window itself; `DefaultsAreLocal`: the
  default parameters do). Each slice of a series is a part of the part that `Near` cuts
  out (`PartOfPart`), so sums and medians of the two are those of equal sequences and need not be expanded;
  that is why no induction over data is needed. `RescoringOnlyForgets`, under the same
  hypothesis: what a later build lists up to a window is the end of what an earlier one
  listed (`LaterList`), so either the window has fewer samples or `NearOfEnd` makes the cut
  lists, and with `LocalScore` the rows, the same. `MoversAreLargest` rests on the lemmas on
  sorting (`RanksOf`: the ranks of a finite set under a strict total order are 0 to n - 1, one each) and
  on `BoardInv`, which gives the order its integers. `TypicalNeverAnomalous` is about arithmetic
  on data of any length. A median is that of a rearrangement (`Rearranges`, `AscendingRises`), so
  a reading with no more than half of its history on either side is between the two
  middle readings, and a deviation from it is compared by counting. Where the median deviation is
  0 more than half of the readings are the same, and the mean is within one standard deviation
  of them (`Deviation`). Sums are functions on prefixes, and what holds of them is shown
  at the first prefix where it would fail, because the induction theorems of the library cannot be
  instantiated. `OldRowsForget` rests on `ForgetInv`: a row that still has a history is at least
  `WindowLen` ticks from leaving the lookback, less one for each tick without a build, so that a
  build meets it as the first of its list before it leaves.
- `Phase1SchedulerProofs`: `SchedulerInv` adds to `NoOverlap` that main has no timer while
  it waits for the first cycle, and that the pool is closed only by the call that
  found `inFlight` reset. `CyclesNeverOverlap`, `PoolIsSafe`, `OneSignalIsGraceful` and
  `NothingStartsAfterStop` follow.
- `RedditRequestProofs`: `BudgetInv` says what the call may have spent by each of its
  steps; `CallIsBounded` sums it up, for any policy and any bound on the hints. `WaitsAreKept`
  and `HintsAreNotReused` need `WaitInv` instead: while a body is read, its hint, as the code
  keeps it (a duration, or a point in time for a reset), is what the server asked for
  (`HintsFit`), and the abort comes within `Timeout` of the answer (`TimerInv`), which bounds
  how much later than the answer the sleep starts.
- `ApiProcessProofs`: `ApiInv` ties connections to handlers and the pool to the calls of
  `closeGracefully`, and says that it is closed only when no connection is left, not even a silent
  one, so that a late request finds it open; `ClientsAreAnswered`, `PoolIsKept` and `OneSignalIsPatient` follow. The
  proof splits it into the part that a request can disturb and the part about the process.

Assumptions: `RetryPolicyAssumption`, `WindowingAssumption`, `CycleAssumption`,
`TrendAssumption`, `ScoringAssumption`, `BoardAssumption`, `MigrationAssumption`, `SchedulerAssumption`, `RequestAssumption`, `ApiAssumption`, which say that counts
and durations are natural numbers, windows and intervals are not empty, and hints
are bounded. TLC evaluates them in the runs.

Hypotheses of single theorems are written with them (`Lone`, `StoresDoNotThrow`,
`LocalParameters`, `LoneBuilder`); the instances that check the same properties satisfy
them, and the runs that refute a property violate the hypothesis of its theorem or lack the
restriction that the theorem adds.

Only model-checked: the liveness properties (`CycleEnds`, `StopExits`,
`KeepsCollecting`, `Settles`, `HandlersFinish`, `EventuallyMigrated`), which TLAPS does not
cover. Every safety invariant and every action property of a passing run is a theorem.

## 5. Not modelled

- Of the scores: the weighted sums and `tanh` that make one number of the components, and of the
  read model the direction and the anomaly list, which compare those numbers with thresholds.
- What a migration file creates (the tables are those of the migrated schema), and
  rows from before a migration. `SomeRunWins` is stated for runs in processes
  of their own: with `SharedFate = TRUE` it is false, because the one run that fails
  rejects a promise nobody awaits and Node ends the process with the other run in it; the
  next start of the script then migrates.
- What the API's requests and answers contain, CORS and authentication: in `ApiProcess`
  they decide only whether a request is answered at once. A request answered at once on an
  idle connection changes nothing there; that clients do not keep a connection from its idle
  timeout with such requests for ever is part of the fairness. The two parallel queries of the trend route
  are one, and the queries of a run are bounded by `MaxQueries`. A request whose handler
  finds the pool closed (its client has left) throws; that its cycle stays
  incomplete is a runner's `CallThrows` or `Crash` in `CollectionCycle`.
- The in-memory targets, raw events and trend points, which behave as their tables do
  (upsert by key, append), and `findRecent`, which only reads.
- `monitor_target`: an upsert by name and a status that nothing changes. The mock and Apify
  connectors, which are outcomes of `Fetch`; the one-shot workers, which are runners
  that start once; the scripts that summarise; the sync use case, which has no caller.
- The choice of targets by a cycle (`monitor_target` never changes to paused in the code),
  `findRunnableJobs` (no caller), logging, CLI summaries, environment
  parsing, and `awesome-design-md-main`, which is vendored documentation.
- Pool exhaustion and locks between statements: every transaction is one step. Two
  transactions that upsert many rows in different orders could deadlock in Postgres,
  which aborts one of them; that is a failed statement here.
- Hints beyond the limit of `setTimeout` (2^31 - 1 ms). Below it, `AskedWaitKept` allows a
  retry to come early by the jitter, which `computeDelayMs` also takes off the wait
  until a rate-limit reset; `docs/collection-strategy.md:78` says to wait until it.

## 6. Plan

In the order of their worth:

1. `TrendTimeline`, the abstract series (a window's point is a function of its metrics
   and its predecessor), and what `TrendSeries` implements of it.
2. The anomaly list and the direction of the read model, on a monotone abstraction of the score.
3. A composition of `Phase1Scheduler` with the API's run route as two runners.
