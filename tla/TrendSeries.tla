---------------------------- MODULE TrendSeries ----------------------------
(***************************************************************************)
(* The trend timeline of one target: buildSubredditTrendPointsJob turns    *)
(* the metrics of the last two hours into rows of subreddit_trend_point,   *)
(* and GET /v1/trends/subreddit/{name} reads those rows.                   *)
(*                                                                         *)
(* A builder is a process that runs collection cycles (a Runner of         *)
(* CollectionCycle).  Here a cycle is reduced to what it does to the       *)
(* metrics of its window: the two jobs may store the metrics of the        *)
(* window, may return without storing any (settled, or backing off, or     *)
(* nothing in the page), or may throw, which ends the cycle before the     *)
(* build.  The build itself reads the metrics, scores them and upserts the *)
(* points; two builders may interleave between the read and the upsert.    *)
(***************************************************************************)
EXTENDS Windowing, FiniteSetsExt

CONSTANTS
    Builders,
    Lookback,       \* trendLookbackMinutes, in ticks
    MaxPosts        \* bound: the largest new_posts_15m

ASSUME TrendAssumption ==
    /\ Lookback \in Nat
    /\ MaxPosts \in Nat

Missing == -1       \* no new_posts_15m snapshot for the window

\* The target-level snapshots of a window.  For active_users and subscribers it
\* only matters whether there is one.
Metrics ==
    [posts : (0 .. MaxPosts) \cup {Missing}, users : BOOLEAN, subs : BOOLEAN]
Nothing == [posts |-> Missing, users |-> FALSE, subs |-> FALSE]

\* A row of subreddit_trend_point, without its float scores.
Point == [window : Windows, newPosts : 0 .. MaxPosts, delta : Int, complete : BOOLEAN]

VARIABLES
    clock,
    metrics,        \* metrics_snapshot: Windows -> Metrics
    points,         \* subreddit_trend_point: a set of Points
    pc,             \* the await each builder is at
    now,            \* nowIso of its cycle
    view            \* the snapshots it has read, by window

vars == <<clock, metrics, points, pc, now, view>>

NoView == [w \in Windows |-> Nothing]

Init ==
    /\ clock = 0
    /\ metrics = NoView
    /\ points = {}
    /\ pc = [b \in Builders |-> "idle"]
    /\ now = [b \in Builders |-> 0]
    /\ view = [b \in Builders |-> NoView]

At(b, step)     == pc[b] = step
GoTo(b, step)   == pc' = [pc EXCEPT ![b] = step]

-----------------------------------------------------------------------------
(* Scoring, on the windows a build has listed.                             *)

\* Any of the three metrics puts a window on the list.
Listed(v) == {w \in Windows : v[w] # Nothing}

\* A window without a count is scored as one without posts.
NewPosts(m) == IF m.posts = Missing THEN 0 ELSE m.posts

\* Variant: the list is taken in descending order.
NextNewPosts(v, w) ==
    LET later == {u \in Listed(v) : u > w}
    IN  IF later = {} THEN 0 ELSE NewPosts(v[Min(later)])

\* The window before w in the list, which need not be the adjacent one; the
\* first of the list is compared with 0.
PreviousNewPosts(v, w) ==
    LET earlier == {u \in Listed(v) : u < w}
    IN  IF earlier = {} THEN 0 ELSE NewPosts(v[Max(earlier)])

\* Variant: one of the two metrics is enough.
PointOfPart(v, w) ==
    [ window   |-> w,
      newPosts |-> NewPosts(v[w]),
      delta    |-> NewPosts(v[w]) - PreviousNewPosts(v, w),
      complete |-> v[w].posts # Missing \/ v[w].users ]

PointOf(v, w) ==
    [ window   |-> w,
      newPosts |-> NewPosts(v[w]),
      delta    |-> NewPosts(v[w]) - PreviousNewPosts(v, w),
      complete |-> v[w].posts # Missing /\ v[w].users ]

-----------------------------------------------------------------------------
Tick ==
    /\ clock < MaxClock
    /\ clock' = clock + 1
    /\ UNCHANGED <<metrics, points, pc, now, view>>

StartCycle(b) ==
    /\ At(b, "idle")
    /\ GoTo(b, "about")
    /\ now' = [now EXCEPT ![b] = clock]
    /\ UNCHANGED <<clock, metrics, points, view>>

\* Variant: the last value stays, as in the in-memory repository.
LastValue(old, new) == new

\* ON CONFLICT DO NOTHING: the first value of a window stays.
FirstValue(old, new) == IF old = Missing THEN new ELSE old

\* The about job returns; a page may carry either number, both or neither.
CollectAbout(b) ==
    /\ At(b, "about")
    /\ GoTo(b, "posts")
    /\ \E users, subs \in BOOLEAN :
          metrics' = [metrics EXCEPT ![WindowStart(now[b])].users = @ \/ users,
                                     ![WindowStart(now[b])].subs  = @ \/ subs]
    /\ UNCHANGED <<clock, points, now, view>>

\* The new posts job returns.
CollectPosts(b) ==
    /\ At(b, "posts")
    /\ GoTo(b, "read")
    /\ \/ \E n \in 0 .. MaxPosts :
             metrics' = [metrics EXCEPT ![WindowStart(now[b])].posts = FirstValue(@, n)]
       \/ UNCHANGED metrics
    /\ UNCHANGED <<clock, points, now, view>>

\* Variant: the range has no lower end.
InRangeOpen(w, t) == w <= t

\* snapshot_at >= fromIso and snapshot_at <= toIso.
InRange(w, t) == t - Lookback <= w /\ w <= t

ReadSnapshots(b) ==
    /\ At(b, "read")
    /\ GoTo(b, "write")
    /\ view' = [view EXCEPT ![b] =
                   [w \in Windows |-> IF InRange(w, now[b]) THEN metrics[w] ELSE Nothing]]
    /\ UNCHANGED <<clock, metrics, points, now>>

\* Variant: the timeline is replaced by what the build has seen.
UpsertReplacesAll(rows) == rows

\* INSERT .. ON CONFLICT (target_id, window_start, window_end) DO UPDATE.
Upsert(rows) ==
    {p \in points : \A q \in rows : q.window # p.window} \cup rows

\* Score and upsert, in one transaction; then the cycle goes on elsewhere.
WritePoints(b) ==
    /\ At(b, "write")
    /\ GoTo(b, "idle")
    /\ points' = Upsert({PointOf(view[b], w) : w \in Listed(view[b])})
    /\ view' = [view EXCEPT ![b] = NoView]
    /\ now' = [now EXCEPT ![b] = 0]
    /\ UNCHANGED <<clock, metrics>>

\* A job or a statement throws, or the process dies.
Abort(b) ==
    /\ ~At(b, "idle")
    /\ GoTo(b, "idle")
    /\ view' = [view EXCEPT ![b] = NoView]
    /\ now' = [now EXCEPT ![b] = 0]
    /\ UNCHANGED <<clock, metrics, points>>

Next ==
    \/ Tick
    \/ \E b \in Builders :
          \/ StartCycle(b) \/ CollectAbout(b) \/ CollectPosts(b)
          \/ ReadSnapshots(b) \/ WritePoints(b) \/ Abort(b)

Spec == Init /\ [][Next]_vars

-----------------------------------------------------------------------------
\* The points a request without from and to reads at time t: both ends of the
\* range are aligned to windows, and a point must end within it.
Response(t) ==
    {p \in points : /\ p.window >= WindowStart(t - Lookback)
                    /\ p.window + WindowLen <= WindowStart(t)}

-----------------------------------------------------------------------------
(* Properties.                                                             *)

TypeOK ==
    /\ clock \in Time
    /\ metrics \in [Windows -> Metrics]
    /\ points \subseteq Point
    /\ pc \in [Builders -> {"idle", "about", "posts", "read", "write"}]
    /\ now \in [Builders -> Time]
    /\ view \in [Builders -> [Windows -> Metrics]]

\* What the timeline says of a window is what was collected in it, or that
\* nothing was; a point is complete only if both metrics were collected.  No
\* interleaving of two builds mixes up windows or invents a count.
PointsBacked ==
    \A p \in points :
        /\ metrics[p.window] # Nothing
        /\ p.newPosts # 0 => p.newPosts = metrics[p.window].posts
        /\ p.complete => /\ metrics[p.window].users
                         /\ metrics[p.window].posts = p.newPosts

\* A delta compares a window with a window before it, as that one was collected,
\* or with nothing.
DeltaBacked ==
    \A p \in points : \E base \in 0 .. MaxPosts :
        /\ p.delta = p.newPosts - base
        /\ base # 0 => \E u \in Windows : u < p.window /\ metrics[u].posts = base

\* A build rewrites no window that its own lookback has left behind: the row of
\* such a window is final for every reader.
OldPointsFrozen ==
    [][ \A w \in Windows :
          (\A b \in Builders : ~At(b, "idle") => w < now[b] - Lookback)
          => {p \in points' : p.window = w} = {p \in points : p.window = w} ]_vars

\* The readings of a build are what the table still says.
UpToDate(b) == \A w \in Windows : view[b][w] \in {metrics[w], Nothing}

\* Only a build whose readings another cycle has overtaken takes anything back:
\* otherwise no window leaves the timeline, turns from complete to incomplete or
\* loses its count, although the lookback has slid and a metric may have failed.
PointsNotLost ==
    [][ (\A b \in Builders : At(b, "write") /\ At(b, "idle")' => UpToDate(b))
        => \A p \in points : \E q \in points' :
              /\ q.window = p.window
              /\ p.complete => q.complete
              /\ p.newPosts # 0 => q.newPosts = p.newPosts ]_vars

\* The delta of a window in a response is the difference to the window before
\* it, when the response has that window too and both are complete.
ResponseDeltas ==
    \A p, q \in Response(clock) :
        p.complete /\ q.complete /\ q.window = p.window - WindowLen
        => p.delta = p.newPosts - q.newPosts

\* Every reading a builder holds was in the table, and is still there; the
\* inductive invariant behind PointsBacked.
ViewsBacked ==
    \A b \in Builders : \A w \in Windows :
        /\ view[b][w].users => metrics[w].users
        /\ view[b][w].subs => metrics[w].subs
        /\ view[b][w].posts # Missing => view[b][w].posts = metrics[w].posts
=============================================================================
