----------------------------- MODULE TrendBoard -----------------------------
(***************************************************************************)
(* The trend board of one target: the rows that the builds of successive   *)
(* cycles leave behind, with their scores, and the read model that         *)
(* GET /v1/trends/subreddit/{name} and trend-board-summary make of them.   *)
(*                                                                         *)
(* Cycles follow each other (TrendSeries has those that interleave), one   *)
(* per tick at most, in any ticks of a window.  A window is rescored by    *)
(* every build whose lookback lists it, with ever fewer windows before it. *)
(***************************************************************************)
EXTENDS Windowing, TrendScoring

CONSTANTS
    Collectable,    \* what the jobs of one cycle may store, see Readings
    Lookback,       \* trendLookbackMinutes, in ticks
    MoverLimit,     \* TOP_MOVER_LIMIT
    MaxBreaks       \* bound: ticks without a build

Missing == -1       \* no snapshot

\* The new_posts_15m, active_users and subscribers of a window.
Optional == Nat \cup {Missing}
Readings == [posts : Optional, users : Optional, subs : Optional]

ASSUME BoardAssumption ==
    /\ Collectable \subseteq Readings
    /\ Lookback \in Nat
    /\ MoverLimit \in Nat \ {0}
    /\ MaxBreaks \in Nat

VARIABLES
    clock,          \* the tick of the next cycle
    metrics,        \* metrics_snapshot: Windows -> Readings
    rows,           \* subreddit_trend_point: a function on the windows with a row
    breaks

vars == <<clock, metrics, rows, breaks>>

Nothing == [posts |-> Missing, users |-> Missing, subs |-> Missing]

Init ==
    /\ clock = 0
    /\ metrics = [w \in Windows |-> Nothing]
    /\ rows = << >>
    /\ breaks = 0

-----------------------------------------------------------------------------
(* A build.                                                                *)

\* A set of windows, in order.
InOrder(S) == Sorted(S, [w \in S |-> {u \in S : u < w}])

HasSnapshot(reading) == reading # Nothing

\* The windows with snapshots in the range of a build at time t, in order.
Listed(m, t) ==
    InOrder({w \in Windows : t - Lookback <= w /\ w <= t /\ HasSnapshot(m[w])})

\* A metric without a snapshot is scored as 0.
Reading(n) == IF n = Missing THEN 0 ELSE n

Series(m, list, metric) == [i \in DOMAIN list |-> Reading(m[list[i]][metric])]

\* The rows a build makes of the windows in list.
RowsOf(m, list) ==
    LET posts == Series(m, list, "posts")
        users == Series(m, list, "users")
        subs  == Series(m, list, "subs")
    IN  [w \in {list[i] : i \in DOMAIN list} |->
            LET i == CHOOSE i \in DOMAIN list : list[i] = w
            IN  [ newPosts |-> posts[i],
                  delta    |-> posts[i] - (IF i = 1 THEN 0 ELSE posts[i - 1]),
                  complete |-> m[w].posts # Missing /\ m[w].users # Missing,
                  score    |-> Score(posts, users, subs, i) ]]

\* The rows a build at time t makes of the metrics m.
Built(m, t) == RowsOf(m, Listed(m, t))

\* ON CONFLICT DO NOTHING: the first value of a window stays.
FirstValue(old, new) == IF old = Missing THEN new ELSE old

\* What a cycle stores whose jobs get c.
Collected(c) ==
    [metrics EXCEPT ![WindowStart(clock)] =
        [ posts |-> FirstValue(@.posts, c.posts),
          users |-> FirstValue(@.users, c.users),
          subs  |-> FirstValue(@.subs, c.subs) ]]

NextCycle ==
    /\ clock < MaxClock
    /\ clock' = clock + 1

\* Variant: DO NOTHING, as for snapshots.
UpsertFirst(new) ==
    [w \in DOMAIN rows \cup DOMAIN new |->
        IF w \in DOMAIN rows THEN rows[w] ELSE new[w]]

\* ON CONFLICT DO UPDATE: the rows of other windows stay.
Upsert(new) ==
    [w \in DOMAIN rows \cup DOMAIN new |->
        IF w \in DOMAIN new THEN new[w] ELSE rows[w]]

\* A cycle that gets as far as the build, which upserts its rows.
CycleBuilds(c) ==
    LET stored == Collected(c)
    IN  /\ NextCycle
        /\ metrics' = stored
        /\ rows' = Upsert(Built(stored, clock))
        /\ UNCHANGED breaks

\* A job throws, or no cycle runs at all: no build.
CycleBreaks(c) ==
    /\ breaks < MaxBreaks
    /\ breaks' = breaks + 1
    /\ NextCycle
    /\ metrics' = Collected(c)
    /\ UNCHANGED rows

Next == \E c \in Collectable : CycleBuilds(c) \/ CycleBreaks(c)

Spec == Init /\ [][Next]_vars

-----------------------------------------------------------------------------
(* The read model.                                                         *)

\* Variant: the comparison of the deltas themselves.
MovesUp(v, w) == rows[v].delta > rows[w].delta \/ (rows[v].delta = rows[w].delta /\ v > w)

\* The comparison of the sort: by the size of the delta, the later window first.
MovesMore(v, w) ==
    LET dv == Abs(rows[v].delta)
        dw == Abs(rows[w].delta)
    IN  dv > dw \/ (dv = dw /\ v > w)

TopMovers ==
    LET before == [w \in DOMAIN rows |-> {v \in DOMAIN rows : MovesMore(v, w)}]
        sorted == Sorted(DOMAIN rows, before)
    IN  SubSeq(sorted, 1, Smaller(MoverLimit, Len(sorted)))

-----------------------------------------------------------------------------
(* Properties.                                                             *)

\* In a list of any length, a score looks neither ahead nor further back than
\* the baseline: cutting the list off behind a window, and BaselineWindows
\* before it, leaves its score as it is.  With the default parameters growth,
\* acceleration, baseline and change all stay within those eight windows.
ScoreIsLocal ==
    LET list  == InOrder({w \in Windows : HasSnapshot(metrics[w])})
        posts == Series(metrics, list, "posts")
        users == Series(metrics, list, "users")
        subs  == Series(metrics, list, "subs")
    IN  \A i \in DOMAIN list :
            LET near(s) == Latest(SubSeq(s, 1, i), BaselineWindows + 1)
            IN  Score(posts, users, subs, i) =
                Score(near(posts), near(users), near(subs), Len(near(posts)))

\* As much of the history is below n as above it.
Typical(n, history) ==
    /\ 2 * Cardinality({i \in DOMAIN history : history[i] < n}) <= Len(history)
    /\ 2 * Cardinality({i \in DOMAIN history : history[i] > n}) <= Len(history)

\* A window in the middle of its history is no anomaly, on whichever of the two
\* scales: where the median absolute deviation is 0 the mean takes over, and it
\* is within one standard deviation of the median.
TypicalIsNoAnomaly ==
    LET list  == InOrder({w \in Windows : HasSnapshot(metrics[w])})
        posts == Series(metrics, list, "posts")
        users == Series(metrics, list, "users")
    IN  \A s \in {posts, users}, i \in DOMAIN list :
            Typical(s[i], Baseline(s, i)) => ~Beyond(RobustZ(s[i], Baseline(s, i)), 1, 1)

\* The row of w is what a build, now or earlier, would make of the metrics m.
Explained(w, m) ==
    \E t \in 0 .. clock : w \in DOMAIN Built(m, t) /\ rows[w] = Built(m, t)[w]

\* Rescoring a window without new data only ever forgets: a row that the metrics
\* in the table explain changes only as the sliding lookback takes away samples
\* of its baseline, never otherwise.
RescoringForgets ==
    [][ \A w \in DOMAIN rows :
          \/ rows'[w] = rows[w]
          \/ rows'[w].score.sampleCount < rows[w].score.sampleCount
          \/ ~Explained(w, metrics') ]_vars

\* The score of the first window of a list: nothing to compare it with.
Neutral ==
    [ velocity     |-> NoVelocity,
      lastVelocity |-> NoVelocity,
      newPostsZ    |-> NoZ,
      usersZ       |-> NoZ,
      change       |-> NoChange,
      sampleCount  |-> 0 ]

Forgotten(row) == row.delta = row.newPosts /\ row.score = Neutral

\* As long as fewer than WindowLen ticks went without a build, every row older
\* than the lookback is the one that the last build to list its window made of it,
\* when it was the first of the list.
OldRowsForgotten ==
    breaks < WindowLen =>
        \A w \in DOMAIN rows : w + Lookback < clock => Forgotten(rows[w])

\* The movers on the board are those no other window outdoes, whatever builds
\* and outages have left in the table.
MoversAreTop ==
    LET shown == {TopMovers[i] : i \in DOMAIN TopMovers}
    IN  /\ Cardinality(shown) = Smaller(MoverLimit, Cardinality(DOMAIN rows))
        /\ \A v \in shown, w \in DOMAIN rows \ shown :
              Abs(rows[w].delta) <= Abs(rows[v].delta)
=============================================================================
