------------------------- MODULE TrendSeriesProofs -------------------------
(***************************************************************************)
(* Proofs about TrendSeries: what the timeline shows is backed by what was *)
(* collected, for any number of builders, windows and posts, and the       *)
(* deltas of a lone builder are those of adjacent windows in its lookback. *)
(***************************************************************************)
EXTENDS TrendSeries, WellFoundedInduction, TLAPS

\* The types of the tables the invariant speaks about, and of the builders.
Tables ==
    /\ metrics \in [Windows -> Metrics]
    /\ view \in [Builders -> [Windows -> Metrics]]
    /\ pc \in [Builders -> {"idle", "about", "posts", "read", "write"}]
    /\ now \in [Builders -> Time]
    /\ clock \in Time
    /\ \A p \in points : p.window \in Windows /\ p.newPosts \in 0 .. MaxPosts

\* One row per window, whichever build wrote last.
OnePointPerWindow == \A p, q \in points : p.window = q.window => p = q

\* The inductive invariant: builders only hold readings of stored metrics.
TrendInv == Tables /\ ViewsBacked /\ PointsBacked /\ OnePointPerWindow

\* A time lies in a window.
LEMMA WindowOfTime ==
  ASSUME NEW t \in Time
  PROVE  WindowStart(t) \in Windows
  BY DEF Windows

LEMMA NoViewType == NoView \in [Windows -> Metrics]
  BY DEF NoView, Nothing, Metrics

\* A point that a build makes of its view says what the view says.
LEMMA PointOfView ==
  ASSUME NEW v, NEW w \in Windows
  PROVE  /\ PointOf(v, w).window = w
         /\ PointOf(v, w).newPosts = NewPosts(v[w])
         /\ PointOf(v, w).complete <=> v[w].posts # Missing /\ v[w].users
  BY DEF PointOf

\* Metrics are never lost or changed once they are stored.
MetricsGrow ==
    \A w \in Windows :
        /\ metrics[w].users => metrics'[w].users
        /\ metrics[w].subs => metrics'[w].subs
        /\ metrics[w].posts # Missing => metrics'[w].posts = metrics[w].posts

\* Storing a metric changes no other, and no count that is there.
LEMMA CountStored ==
  ASSUME NEW m \in Metrics, NEW n \in 0 .. MaxPosts
  PROVE  /\ [m EXCEPT !.posts = FirstValue(@, n)] \in Metrics
         /\ [m EXCEPT !.posts = FirstValue(@, n)].users = m.users
         /\ [m EXCEPT !.posts = FirstValue(@, n)].subs = m.subs
         /\ m.posts # Missing => [m EXCEPT !.posts = FirstValue(@, n)].posts = m.posts
  BY DEF Metrics, FirstValue

\* One row of the metrics table is written, the others stay.
LEMMA OneMetricsRow ==
  ASSUME Tables, NEW w \in Windows, NEW row \in Metrics,
         metrics' = [metrics EXCEPT ![w] = row],
         metrics[w].users => row.users,
         metrics[w].subs => row.subs,
         metrics[w].posts # Missing => row.posts = metrics[w].posts
  PROVE  metrics' \in [Windows -> Metrics] /\ MetricsGrow
  BY DEF Tables, MetricsGrow

\* The two steps that write metrics keep the type and lose nothing.
LEMMA CollectStep ==
  ASSUME Tables, NEW b \in Builders, CollectAbout(b) \/ CollectPosts(b)
  PROVE  metrics' \in [Windows -> Metrics] /\ MetricsGrow
  <1> DEFINE w == WindowStart(now[b])
  <1>1. w \in Windows /\ metrics[w] \in Metrics
    BY WindowOfTime DEF Tables
  <1>2. CASE UNCHANGED metrics
    BY <1>2 DEF Tables, MetricsGrow
  <1>3. ASSUME NEW users \in BOOLEAN, NEW subs \in BOOLEAN,
               metrics' = [metrics EXCEPT ![w].users = @ \/ users, ![w].subs = @ \/ subs]
        PROVE  metrics' \in [Windows -> Metrics] /\ MetricsGrow
    <2> DEFINE row == [metrics[w] EXCEPT !.users = @ \/ users, !.subs = @ \/ subs]
    <2>1. metrics' = [metrics EXCEPT ![w] = row]
      BY <1>1, <1>3 DEF Tables
    <2>2. /\ row \in Metrics
          /\ metrics[w].users => row.users
          /\ metrics[w].subs => row.subs
          /\ row.posts = metrics[w].posts
      BY <1>1, <1>3 DEF Metrics
    <2> HIDE DEF row
    <2>3. QED
      BY <1>1, <2>1, <2>2, OneMetricsRow
  <1>4. ASSUME NEW n \in 0 .. MaxPosts,
               metrics' = [metrics EXCEPT ![w].posts = FirstValue(@, n)]
        PROVE  metrics' \in [Windows -> Metrics] /\ MetricsGrow
    <2> DEFINE row == [metrics[w] EXCEPT !.posts = FirstValue(@, n)]
    <2>1. metrics' = [metrics EXCEPT ![w] = row]
      BY <1>4, Zenon
    <2>2. /\ row \in Metrics
          /\ row.users = metrics[w].users
          /\ row.subs = metrics[w].subs
          /\ metrics[w].posts # Missing => row.posts = metrics[w].posts
      BY <1>1, CountStored
    <2>3. QED
      BY <1>1, <2>1, <2>2, OneMetricsRow
  <1>5. QED
    BY <1>2, <1>3, <1>4 DEF CollectAbout, CollectPosts

LEMMA MetricsOnlyGrow ==
  ASSUME Tables, [Next]_vars
  PROVE  MetricsGrow
  <1>1. CASE UNCHANGED metrics
    BY <1>1 DEF MetricsGrow
  <1>2. QED
    BY <1>1, CollectStep
    DEF Next, vars, Tick, StartCycle, ReadSnapshots, WritePoints, Abort

LEMMA TablesStep ==
  ASSUME Tables, [Next]_vars
  PROVE  Tables'
  <1> USE DEF Tables
  <1>1. CASE Tick
    BY <1>1, WindowingAssumption DEF Tick, Time
  <1>2. ASSUME NEW b \in Builders, StartCycle(b) PROVE Tables'
    BY <1>2 DEF StartCycle, GoTo
  <1>3. ASSUME NEW b \in Builders, CollectAbout(b) PROVE Tables'
    BY <1>3, CollectStep DEF CollectAbout, GoTo
  <1>4. ASSUME NEW b \in Builders, CollectPosts(b) PROVE Tables'
    BY <1>4, CollectStep DEF CollectPosts, GoTo
  <1>5. ASSUME NEW b \in Builders, ReadSnapshots(b) PROVE Tables'
    <2>1. Nothing \in Metrics
      BY DEF Nothing, Metrics
    <2>2. view' \in [Builders -> [Windows -> Metrics]]
      BY <1>5, <2>1 DEF ReadSnapshots
    <2>3. QED
      BY <1>5, <2>2 DEF ReadSnapshots, GoTo
  <1>6. ASSUME NEW b \in Builders, WritePoints(b) PROVE Tables'
    <2>1. \A p \in points' : p.window \in Windows /\ p.newPosts \in 0 .. MaxPosts
      <3>1. \A w \in Windows : NewPosts(view[b][w]) \in 0 .. MaxPosts
        BY TrendAssumption DEF NewPosts, Metrics
      <3>2. QED
        BY <1>6, <3>1, PointOfView DEF WritePoints, Upsert, Listed
    <2>2. 0 \in Time
      BY WindowingAssumption DEF Time
    <2>3. QED
      BY <1>6, <2>1, <2>2, NoViewType DEF WritePoints, GoTo
  <1>7. ASSUME NEW b \in Builders, Abort(b) PROVE Tables'
    <2>1. 0 \in Time
      BY WindowingAssumption DEF Time
    <2>2. QED
      BY <1>7, <2>1, NoViewType DEF Abort, GoTo
  <1>8. CASE UNCHANGED vars
    BY <1>8 DEF vars
  <1>9. QED
    BY <1>1, <1>2, <1>3, <1>4, <1>5, <1>6, <1>7, <1>8 DEF Next

-----------------------------------------------------------------------------
LEMMA ViewsStep ==
  ASSUME Tables, ViewsBacked, [Next]_vars
  PROVE  ViewsBacked'
  <1>1. MetricsGrow
    BY MetricsOnlyGrow
  <1>2. Tables'
    BY TablesStep
  <1>3. CASE UNCHANGED view
    BY <1>1, <1>3 DEF ViewsBacked, MetricsGrow
  <1>4. ASSUME NEW b \in Builders, ReadSnapshots(b) PROVE ViewsBacked'
    BY <1>4 DEF ReadSnapshots, ViewsBacked, Tables, Nothing
  <1>5. ASSUME NEW b \in Builders, view' = [view EXCEPT ![b] = NoView], UNCHANGED metrics
        PROVE  ViewsBacked'
    BY <1>5 DEF ViewsBacked, Tables, NoView, Nothing
  <1>6. QED
    BY <1>3, <1>4, <1>5
    DEF Next, vars, Tick, StartCycle, CollectAbout, CollectPosts, WritePoints, Abort

\* A written point is one the build made, or one that was there.
LEMMA WrittenPoint ==
  ASSUME NEW b \in Builders, WritePoints(b), NEW p \in points'
  PROVE  \/ p \in points /\ p.window \notin Listed(view[b])
         \/ \E w \in Listed(view[b]) : p = PointOf(view[b], w)
  BY PointOfView DEF WritePoints, Upsert, Listed

LEMMA PointsStep ==
  ASSUME TrendInv, [Next]_vars
  PROVE  PointsBacked'
  <1> USE DEF TrendInv
  <1>1. MetricsGrow
    BY MetricsOnlyGrow
  <1>2. Tables'
    BY TablesStep
  <1>3. ASSUME NEW p \in points
        PROVE  /\ metrics'[p.window] # Nothing
               /\ p.newPosts # 0 => p.newPosts = metrics'[p.window].posts
               /\ p.complete => /\ metrics'[p.window].users
                                /\ metrics'[p.window].posts = p.newPosts
    <2>1. /\ p.window \in Windows
          /\ p.newPosts \in 0 .. MaxPosts
          /\ metrics[p.window] \in Metrics
          /\ metrics'[p.window] \in Metrics
      BY <1>2 DEF Tables
    <2>2. /\ metrics[p.window] # Nothing
          /\ p.newPosts # 0 => p.newPosts = metrics[p.window].posts
          /\ p.complete => /\ metrics[p.window].users
                           /\ metrics[p.window].posts = p.newPosts
      BY DEF PointsBacked
    <2>3. \/ metrics[p.window].users
          \/ metrics[p.window].subs
          \/ metrics[p.window].posts # Missing
      BY <2>1, <2>2 DEF Metrics, Nothing
    <2>4. QED
      BY <1>1, <2>1, <2>2, <2>3 DEF MetricsGrow, Nothing, Metrics, Missing
  <1>4. CASE UNCHANGED points
    BY <1>3, <1>4 DEF PointsBacked
  <1>5. ASSUME NEW b \in Builders, WritePoints(b) PROVE PointsBacked'
    <2>1. ASSUME NEW w \in Listed(view[b])
          PROVE  /\ metrics'[w] # Nothing
                 /\ NewPosts(view[b][w]) # 0 => NewPosts(view[b][w]) = metrics'[w].posts
                 /\ view[b][w].posts # Missing /\ view[b][w].users =>
                       metrics'[w].users /\ metrics'[w].posts = NewPosts(view[b][w])
      <3>1. w \in Windows /\ view[b][w] \in Metrics /\ view[b][w] # Nothing
        BY DEF Listed, Tables
      <3>2. /\ view[b][w].users => metrics'[w].users
            /\ view[b][w].subs => metrics'[w].subs
            /\ view[b][w].posts # Missing => metrics'[w].posts = view[b][w].posts
        BY <1>5, <3>1 DEF ViewsBacked, WritePoints
      <3>3. view[b][w].users \/ view[b][w].subs \/ view[b][w].posts # Missing
        BY <3>1 DEF Metrics, Nothing
      <3>4. QED
        BY <3>1, <3>2, <3>3 DEF NewPosts, Nothing
    <2>2. QED
      BY <1>3, <1>5, <2>1, WrittenPoint, PointOfView DEF PointsBacked, Listed
  <1>6. QED
    BY <1>4, <1>5
    DEF Next, vars, Tick, StartCycle, CollectAbout, CollectPosts, ReadSnapshots, Abort

LEMMA OnePointStep ==
  ASSUME TrendInv, [Next]_vars
  PROVE  OnePointPerWindow'
  <1> USE DEF TrendInv
  <1>1. CASE UNCHANGED points
    BY <1>1 DEF OnePointPerWindow
  <1>2. ASSUME NEW b \in Builders, WritePoints(b) PROVE OnePointPerWindow'
    BY <1>2, WrittenPoint, PointOfView DEF OnePointPerWindow, Listed
  <1>3. QED
    BY <1>1, <1>2
    DEF Next, vars, Tick, StartCycle, CollectAbout, CollectPosts, ReadSnapshots, Abort

-----------------------------------------------------------------------------
LEMMA InitTrendInv == Init => TrendInv
  <1> SUFFICES ASSUME Init PROVE TrendInv
    OBVIOUS
  <1>1. 0 \in Time
    BY WindowingAssumption DEF Time
  <1>2. Tables
    BY <1>1, NoViewType DEF Init, Tables
  <1>3. ViewsBacked
    BY DEF Init, ViewsBacked, NoView, Nothing
  <1>4. PointsBacked /\ OnePointPerWindow
    BY DEF Init, PointsBacked, OnePointPerWindow
  <1>5. QED
    BY <1>2, <1>3, <1>4 DEF TrendInv

\* The invariant holds in every reachable state.
LEMMA TrendInvariance == Spec => []TrendInv
  <1>1. TrendInv /\ [Next]_vars => TrendInv'
    BY TablesStep, ViewsStep, PointsStep, OnePointStep DEF TrendInv
  <1>2. QED
    BY InitTrendInv, <1>1, PTL DEF Spec

\* The timeline shows nothing that was not collected, whichever builds of the
\* worker, the scheduler and the API overlap.
THEOREM TimelineIsBacked == Spec => []PointsBacked
  <1>1. TrendInv => PointsBacked
    BY DEF TrendInv
  <1>2. QED
    BY TrendInvariance, <1>1, PTL

\* The upsert keeps one row per window.
THEOREM OneRowPerWindow == Spec => []OnePointPerWindow
  <1>1. TrendInv => OnePointPerWindow
    BY DEF TrendInv
  <1>2. QED
    BY TrendInvariance, <1>1, PTL

\* A reading stays true while a builder holds it.
THEOREM ReadingsStayTrue == Spec => []ViewsBacked
  <1>1. TrendInv => ViewsBacked
    BY DEF TrendInv
  <1>2. QED
    BY TrendInvariance, <1>1, PTL

-----------------------------------------------------------------------------
\* A builder holds readings of its lookback only, and none when it is idle.
ViewsInRange ==
    \A b \in Builders : \A w \in Windows :
        view[b][w] # Nothing => pc[b] = "write" /\ InRange(w, now[b])

RangeInv == Tables /\ ViewsInRange

LEMMA ViewsInRangeStep ==
  ASSUME RangeInv, [Next]_vars
  PROVE  ViewsInRange'
  <1> USE DEF RangeInv, Tables, ViewsInRange
  <1>1. ASSUME NEW b \in Builders,
               StartCycle(b) \/ CollectAbout(b) \/ CollectPosts(b)
        PROVE  ViewsInRange'
    BY <1>1 DEF StartCycle, CollectAbout, CollectPosts, At, GoTo
  <1>2. ASSUME NEW b \in Builders, ReadSnapshots(b) PROVE ViewsInRange'
    BY <1>2 DEF ReadSnapshots, GoTo
  <1>3. ASSUME NEW b \in Builders, WritePoints(b) \/ Abort(b) PROVE ViewsInRange'
    BY <1>3 DEF WritePoints, Abort, GoTo, NoView
  <1>4. CASE Tick \/ UNCHANGED vars
    BY <1>4 DEF Tick, vars
  <1>5. QED
    BY <1>1, <1>2, <1>3, <1>4 DEF Next

\* The report of a window the clock has left behind does not change any more.
THEOREM OldRowsAreFinal == Spec => OldPointsFrozen
  <1>1. Init => RangeInv
    BY InitTrendInv DEF TrendInv, RangeInv, ViewsInRange, Init, NoView
  <1>2. RangeInv /\ [Next]_vars => RangeInv'
    BY TablesStep, ViewsInRangeStep DEF RangeInv
  <1> DEFINE Frozen ==
        \A w \in Windows :
          (\A b \in Builders : ~At(b, "idle") => w < now[b] - Lookback)
          => {p \in points' : p.window = w} = {p \in points : p.window = w}
  <1>3. RangeInv /\ [Next]_vars => [Frozen]_vars
    <2> SUFFICES ASSUME RangeInv, [Next]_vars PROVE Frozen
      OBVIOUS
    <2>1. CASE UNCHANGED points
      BY <2>1
    <2>2. ASSUME NEW b \in Builders, WritePoints(b) PROVE Frozen
      <3> SUFFICES ASSUME NEW w \in Windows,
                          \A c \in Builders : ~At(c, "idle") => w < now[c] - Lookback
                   PROVE  {p \in points' : p.window = w} = {p \in points : p.window = w}
        OBVIOUS
      <3>1. w < now[b] - Lookback
        BY <2>2 DEF WritePoints, At
      <3>2. w \notin Listed(view[b])
        <4>1. w \in Int /\ now[b] \in Int /\ Lookback \in Int
          BY WindowingAssumption, TrendAssumption
          DEF Windows, WindowStart, Time, RangeInv, Tables
        <4>2. ~InRange(w, now[b])
          BY <3>1, <4>1 DEF InRange
        <4>3. QED
          BY <4>2 DEF Listed, RangeInv, ViewsInRange
      <3>3. QED
        BY <2>2, <3>2, PointOfView DEF WritePoints, Upsert, Listed
    <2>3. QED
      BY <2>1, <2>2
      DEF Next, vars, Tick, StartCycle, CollectAbout, CollectPosts, ReadSnapshots, Abort
  <1>4. QED
    BY <1>1, <1>2, <1>3, PTL DEF Spec, OldPointsFrozen

\* What an up-to-date build has read of a window it lists covers the row of it.
LEMMA UpToDateCovers ==
  ASSUME TrendInv, NEW b \in Builders, UpToDate(b),
         NEW p \in points, p.window \in Listed(view[b])
  PROVE  LET q == PointOf(view[b], p.window)
         IN  /\ p.complete => q.complete
             /\ p.newPosts # 0 => q.newPosts = p.newPosts
  <1> DEFINE w == p.window
  <1>1. w \in Windows /\ p.newPosts \in 0 .. MaxPosts
    BY DEF TrendInv, Tables
  <1>2. view[b][w] = metrics[w]
    BY <1>1 DEF UpToDate, Listed
  <1>3. /\ p.newPosts # 0 => p.newPosts = view[b][w].posts
        /\ p.complete => view[b][w].users /\ view[b][w].posts = p.newPosts
    BY <1>2 DEF TrendInv, PointsBacked
  <1>4. p.newPosts # Missing
    BY <1>1 DEF Missing
  <1>5. QED
    BY <1>1, <1>3, <1>4, PointOfView DEF NewPosts

\* Only a build that has been overtaken takes anything back from the timeline.
THEOREM OnlyStaleBuildsTakeBack == Spec => PointsNotLost
  <1> DEFINE Kept ==
        (\A b \in Builders : At(b, "write") /\ At(b, "idle")' => UpToDate(b))
        => \A p \in points : \E q \in points' :
              /\ q.window = p.window
              /\ p.complete => q.complete
              /\ p.newPosts # 0 => q.newPosts = p.newPosts
  <1>1. TrendInv /\ [Next]_vars => [Kept]_vars
    <2> SUFFICES ASSUME TrendInv, [Next]_vars,
                        \A b \in Builders : At(b, "write") /\ At(b, "idle")' => UpToDate(b),
                        NEW p \in points
                 PROVE  \E q \in points' :
                           /\ q.window = p.window
                           /\ p.complete => q.complete
                           /\ p.newPosts # 0 => q.newPosts = p.newPosts
      OBVIOUS
    <2>1. CASE UNCHANGED points
      BY <2>1
    <2>2. ASSUME NEW b \in Builders, WritePoints(b), p.window \notin Listed(view[b])
          PROVE  p \in points'
      BY <2>2, PointOfView DEF WritePoints, Upsert, Listed
    <2>3. ASSUME NEW b \in Builders, WritePoints(b), p.window \in Listed(view[b])
          PROVE  \E q \in points' :
                    /\ q.window = p.window
                    /\ p.complete => q.complete
                    /\ p.newPosts # 0 => q.newPosts = p.newPosts
      <3>1. UpToDate(b)
        BY <2>3 DEF WritePoints, At, GoTo, TrendInv, Tables
      <3>2. PointOf(view[b], p.window) \in points'
        BY <2>3 DEF WritePoints, Upsert
      <3>3. PointOf(view[b], p.window).window = p.window
        BY PointOfView DEF TrendInv, Tables
      <3>4. QED
        BY <2>3, <3>1, <3>2, <3>3, UpToDateCovers
    <2>4. QED
      BY <2>1, <2>2, <2>3
      DEF Next, vars, Tick, StartCycle, CollectAbout, CollectPosts, ReadSnapshots, Abort
  <1>2. QED
    BY TrendInvariance, <1>1, PTL DEF Spec, PointsNotLost

-----------------------------------------------------------------------------
\* Windows are times, so that the windows before a window have a last one.
LEMMA WindowsBounded ==
  ASSUME NEW w \in Windows
  PROVE  w \in Int /\ w <= MaxClock
  BY WindowingAssumption DEF Windows, WindowStart, Time

LEMMA LastWindow ==
  ASSUME NEW S, S \subseteq Windows, S # {}
  PROVE  Max(S) \in S
  <1> DEFINE left == {MaxClock - w : w \in S}
  <1>1. left \subseteq Nat /\ left # {}
    BY WindowsBounded, WindowingAssumption
  <1>2. PICK d \in left : \A e \in left : ~ (<<e, d>> \in OpToRel(<, Nat))
    BY <1>1, NatLessThanWellFounded, WFMin
  <1>3. \A e \in left : ~ (e < d)
    BY <1>1, <1>2 DEF OpToRel
  <1>4. PICK w \in S : d = MaxClock - w
    BY <1>2
  <1>5. \A u \in S : w >= u
    BY <1>3, <1>4, WindowsBounded, WindowingAssumption
  <1>6. QED
    BY <1>4, <1>5 DEF Max

\* What a build compares a window with: a count it has read of a window before
\* it, or 0.
LEMMA PreviousIsRead ==
  ASSUME NEW v \in [Windows -> Metrics], NEW w \in Windows
  PROVE  /\ PreviousNewPosts(v, w) \in 0 .. MaxPosts
         /\ PreviousNewPosts(v, w) # 0 =>
               \E u \in Windows : /\ u < w
                                  /\ v[u].posts # Missing
                                  /\ v[u].posts = PreviousNewPosts(v, w)
  <1> DEFINE earlier == {u \in Listed(v) : u < w}
  <1>1. CASE earlier = {}
    BY <1>1, TrendAssumption DEF PreviousNewPosts
  <1>2. CASE earlier # {}
    <2>1. Max(earlier) \in earlier
      BY <1>2, LastWindow DEF Listed
    <2>2. PreviousNewPosts(v, w) = NewPosts(v[Max(earlier)])
      BY <1>2 DEF PreviousNewPosts
    <2>3. v[Max(earlier)] \in Metrics /\ Max(earlier) \in Windows /\ Max(earlier) < w
      BY <2>1 DEF Listed
    <2>4. PreviousNewPosts(v, w) \in 0 .. MaxPosts
      BY <2>2, <2>3, TrendAssumption DEF NewPosts, Metrics
    <2>5. PreviousNewPosts(v, w) # 0 =>
             /\ v[Max(earlier)].posts # Missing
             /\ v[Max(earlier)].posts = PreviousNewPosts(v, w)
      BY <2>2 DEF NewPosts
    <2>6. QED
      BY <2>3, <2>4, <2>5
  <1>3. QED
    BY <1>1, <1>2

\* The part of the type invariant that only the points need.
PointsTyped == points \subseteq Point

LEMMA PointTyped ==
  ASSUME NEW v \in [Windows -> Metrics], NEW w \in Windows
  PROVE  PointOf(v, w) \in Point
  <1>1. NewPosts(v[w]) \in 0 .. MaxPosts
    BY TrendAssumption DEF NewPosts, Metrics
  <1>2. NewPosts(v[w]) - PreviousNewPosts(v, w) \in Int
    BY <1>1, PreviousIsRead
  <1>3. QED
    BY <1>1, <1>2 DEF PointOf, Point, Metrics

LEMMA PointsTypedStep ==
  ASSUME Tables, PointsTyped, [Next]_vars
  PROVE  PointsTyped'
  <1>1. CASE UNCHANGED points
    BY <1>1 DEF PointsTyped
  <1>2. ASSUME NEW b \in Builders, WritePoints(b) PROVE PointsTyped'
    BY <1>2, PointTyped DEF PointsTyped, WritePoints, Upsert, Listed, Tables
  <1>3. QED
    BY <1>1, <1>2
    DEF Next, vars, Tick, StartCycle, CollectAbout, CollectPosts, ReadSnapshots, Abort

\* Every variable keeps its type: in particular a delta is never computed from a
\* window that the build has not listed.
THEOREM TrendSeriesTypes == Spec => []TypeOK
  <1>1. Init => Tables /\ PointsTyped
    BY InitTrendInv DEF TrendInv, Init, PointsTyped
  <1>2. Tables /\ PointsTyped /\ [Next]_vars => (Tables /\ PointsTyped)'
    BY TablesStep, PointsTypedStep
  <1>3. Tables /\ PointsTyped => TypeOK
    BY DEF Tables, PointsTyped, TypeOK
  <1>4. QED
    BY <1>1, <1>2, <1>3, PTL DEF Spec

-----------------------------------------------------------------------------
\* What DeltaBacked says of one point.
Backed(p) ==
    \E base \in 0 .. MaxPosts :
        /\ p.delta = p.newPosts - base
        /\ base # 0 => \E u \in Windows : u < p.window /\ metrics[u].posts = base

\* A build that holds stored readings makes backed points only, also when other
\* cycles have stored metrics since it has read them.
LEMMA MadePointBacked ==
  ASSUME TrendInv, NEW b \in Builders, NEW w \in Windows
  PROVE  Backed(PointOf(view[b], w))
  <1> DEFINE base == PreviousNewPosts(view[b], w)
  <1>1. view[b] \in [Windows -> Metrics]
    BY DEF TrendInv, Tables
  <1>2. base \in 0 .. MaxPosts
    BY <1>1, PreviousIsRead
  <1>3. base # 0 => \E u \in Windows : u < w /\ metrics[u].posts = base
    BY <1>1, PreviousIsRead DEF TrendInv, ViewsBacked
  <1>4. /\ PointOf(view[b], w).delta = PointOf(view[b], w).newPosts - base
        /\ PointOf(view[b], w).window = w
    BY DEF PointOf
  <1>5. QED
    BY <1>2, <1>3, <1>4 DEF Backed

LEMMA DeltaStep ==
  ASSUME TrendInv, DeltaBacked, [Next]_vars
  PROVE  DeltaBacked'
  <1>1. \A p \in points : Backed(p)
    BY DEF DeltaBacked, Backed
  <1>2. MetricsGrow
    BY MetricsOnlyGrow DEF TrendInv
  <1>3. ASSUME NEW p, Backed(p) PROVE Backed(p)'
    <2>1. PICK base \in 0 .. MaxPosts :
             /\ p.delta = p.newPosts - base
             /\ base # 0 => \E u \in Windows : u < p.window /\ metrics[u].posts = base
      BY <1>3 DEF Backed
    <2>2. base # Missing
      BY TrendAssumption DEF Missing
    <2>3. base # 0 => \E u \in Windows : u < p.window /\ metrics'[u].posts = base
      BY <1>2, <2>1, <2>2 DEF MetricsGrow
    <2>4. QED
      BY <2>1, <2>3 DEF Backed
  <1>4. \A p \in points' : Backed(p)
    <2>1. CASE UNCHANGED points
      BY <1>1, <2>1
    <2>2. ASSUME NEW b \in Builders, WritePoints(b) PROVE \A p \in points' : Backed(p)
      BY <1>1, <2>2, WrittenPoint, MadePointBacked DEF Listed
    <2>3. QED
      BY <2>1, <2>2
      DEF Next, vars, Tick, StartCycle, CollectAbout, CollectPosts, ReadSnapshots, Abort
  <1>5. QED
    BY <1>3, <1>4 DEF DeltaBacked, Backed

\* A delta compares a window with the count of an earlier window, or with 0,
\* whichever builds overlap and whatever they have missed.
THEOREM DeltasAreBacked == Spec => []DeltaBacked
  <1>1. Init => DeltaBacked
    BY DEF Init, DeltaBacked
  <1>2. TrendInv /\ DeltaBacked /\ [Next]_vars => DeltaBacked'
    BY DeltaStep
  <1>3. QED
    BY TrendInvariance, <1>1, <1>2, PTL DEF Spec

-----------------------------------------------------------------------------
(* The grid of the windows.                                                *)

\* Two multiples of a length are at least that length apart.
LEMMA Multiples ==
  ASSUME NEW n \in Nat \ {0}, NEW i \in Int, NEW j \in Int, n * j < n * i
  PROVE  n * j <= n * i - n
  <1> DEFINE d == i - 1 - j
  <1>1. j < i
    <2> SUFFICES ASSUME j >= i PROVE FALSE
      OBVIOUS
    <2> DEFINE e == j - i
    <2>1. e \in Nat /\ n * j = n * i + n * e
      OBVIOUS
    <2> HIDE DEF e
    <2>2. n * e \in Nat /\ n * i \in Int
      BY <2>1
    <2>3. QED
      BY <2>1, <2>2
  <1>2. d \in Nat /\ n * i - n - n * j = n * d
    BY <1>1
  <1> HIDE DEF d
  <1>3. n * d \in Nat
    BY <1>2
  <1>4. n * i \in Int /\ n * j \in Int
    OBVIOUS
  <1>5. QED
    BY <1>2, <1>3, <1>4

\* A window starts at a multiple of its length, at or before each of its times.
LEMMA StartOfWindow ==
  ASSUME NEW t \in Int
  PROVE  /\ WindowStart(t) \in Int
         /\ WindowStart(t) <= t /\ t < WindowStart(t) + WindowLen
         /\ \E i \in Int : WindowStart(t) = WindowLen * i
  <1> DEFINE q == t \div WindowLen
             r == t % WindowLen
  <1>1. q \in Int /\ r \in 0 .. WindowLen - 1 /\ t = WindowLen * q + r
    BY WindowingAssumption
  <1>2. WindowStart(t) = t - r
    BY DEF WindowStart
  <1> HIDE DEF q, r
  <1>3. WindowLen * q \in Int
    BY <1>1, WindowingAssumption
  <1>4. QED
    BY <1>1, <1>2, <1>3, WindowingAssumption

\* Every window is on the grid.
LEMMA OnGrid ==
  ASSUME NEW w \in Windows
  PROVE  w \in Int /\ \E i \in Int : w = WindowLen * i
  <1>1. PICK t \in Time : w = WindowStart(t)
    BY DEF Windows
  <1>2. t \in Int
    BY WindowingAssumption DEF Time
  <1>3. WindowStart(t) \in Int /\ \E i \in Int : WindowStart(t) = WindowLen * i
    BY <1>2, StartOfWindow
  <1>4. QED
    BY <1>1, <1>3

\* No window starts between a window and the next one.
LEMMA WindowsApart ==
  ASSUME NEW u \in Windows, NEW w \in Windows, u < w
  PROVE  u <= w - WindowLen
  <1>1. PICK i \in Int : w = WindowLen * i
    BY OnGrid
  <1>2. PICK j \in Int : u = WindowLen * j
    BY OnGrid
  <1>3. QED
    BY <1>1, <1>2, Multiples, WindowingAssumption

\* The window of a time is the last one that has started.
LEMMA LastStarted ==
  ASSUME NEW w \in Windows, NEW t \in Int, w <= t
  PROVE  w <= WindowStart(t)
  <1>1. PICK i \in Int : w = WindowLen * i
    BY OnGrid
  <1>2. PICK j \in Int : WindowStart(t) = WindowLen * j
    BY StartOfWindow
  <1>3. WindowStart(t) \in Int /\ t < WindowStart(t) + WindowLen /\ w \in Int
    BY StartOfWindow, OnGrid
  <1> SUFFICES ASSUME WindowStart(t) < w PROVE FALSE
    BY <1>3
  <1>4. WindowStart(t) <= w - WindowLen
    BY <1>1, <1>2, Multiples, WindowingAssumption
  <1>5. QED
    BY <1>3, <1>4, WindowingAssumption

-----------------------------------------------------------------------------
(* The deltas of a lone builder.                                           *)

\* One process runs the cycles, and so the builds, one after the other.
LoneBuilder == \E b \in Builders : Builders = {b}

\* Collection goes forward in time: a cycle never stores a metric of a window
\* behind one that has metrics, and a lone builder writes what it has just read.
Forward ==
    /\ \A w \in Windows : metrics[w] # Nothing => w <= clock
    /\ \A b \in Builders : ~At(b, "idle") =>
          /\ now[b] <= clock
          /\ \A w \in Windows : metrics[w] # Nothing => w <= now[b]
    /\ \A b \in Builders : At(b, "write") =>
          \A w \in Windows :
             view[b][w] = IF InRange(w, now[b]) THEN metrics[w] ELSE Nothing

\* The row of p compares with the window u before it, if that has metrics, or u
\* has left the lookback and the row compares with nothing.
Compares(p, u) ==
    \/ p.delta = p.newPosts - NewPosts(metrics[u])
    \/ p.delta = p.newPosts /\ u < clock - Lookback

DeltasCompare ==
    \A p \in points : \A u \in Windows :
        u = p.window - WindowLen /\ metrics[u] # Nothing => Compares(p, u)

\* The inductive invariant of a lone builder.
LoneInv == TrendInv /\ Forward /\ DeltasCompare

\* Collecting writes the metrics of the window of the cycle only.
LEMMA CollectsOneWindow ==
  ASSUME Tables, NEW b \in Builders, CollectAbout(b) \/ CollectPosts(b),
         NEW w \in Windows, w # WindowStart(now[b])
  PROVE  metrics'[w] = metrics[w]
  BY DEF CollectAbout, CollectPosts, Tables

\* What the arithmetic of the steps needs.
LEMMA TimesAreIntegers ==
  ASSUME Tables
  PROVE  clock \in Int /\ Lookback \in Nat /\ \A b \in Builders : now[b] \in Int
  <1>1. Time \subseteq Int
    BY WindowingAssumption DEF Time
  <1>2. QED
    BY <1>1, TrendAssumption DEF Tables

\* With one builder, nothing is stored between its read and its write, and the
\* window it stores into is the last one that has started.
LEMMA ForwardStep ==
  ASSUME LoneBuilder, Tables, Forward, [Next]_vars
  PROVE  Forward'
  <1>1. clock \in Int /\ \A b \in Builders : now[b] \in Int
    BY TimesAreIntegers
  <1>2. \A b, c \in Builders : b = c
    BY DEF LoneBuilder
  <1>3. \A w \in Windows : w \in Int
    BY WindowsBounded
  <1>4. /\ pc \in [Builders -> {"idle", "about", "posts", "read", "write"}]
        /\ now \in [Builders -> Time]
        /\ view \in [Builders -> [Windows -> Metrics]]
        /\ metrics \in [Windows -> Metrics]
    BY DEF Tables
  <1>5. CASE Tick
    BY <1>1, <1>3, <1>5 DEF Tick, Forward, At
  <1>6. ASSUME NEW b \in Builders, StartCycle(b) PROVE Forward'
    <2>1. \A c \in Builders : pc'[c] = "about" /\ now'[c] = clock
      BY <1>2, <1>4, <1>6 DEF StartCycle, GoTo
    <2>2. clock' = clock /\ metrics' = metrics
      BY <1>6 DEF StartCycle
    <2>3. QED
      BY <1>1, <2>1, <2>2 DEF Forward, At
  <1>7. ASSUME NEW b \in Builders, CollectAbout(b) \/ CollectPosts(b) PROVE Forward'
    <2>1. \A c \in Builders : ~At(c, "idle") /\ ~At(c, "write")'
      BY <1>2, <1>4, <1>7 DEF CollectAbout, CollectPosts, At, GoTo
    <2>2. clock' = clock /\ now' = now
      BY <1>7 DEF CollectAbout, CollectPosts
    <2>3. now[b] <= clock /\ \A w \in Windows : metrics[w] # Nothing => w <= now[b]
      BY <2>1 DEF Forward
    <2>4. \A w \in Windows : metrics'[w] # Nothing => w <= now[b]
      <3> SUFFICES ASSUME NEW w \in Windows, metrics'[w] # Nothing PROVE w <= now[b]
        OBVIOUS
      <3>1. CASE w = WindowStart(now[b])
        BY <1>1, <3>1, StartOfWindow
      <3>2. CASE w # WindowStart(now[b])
        BY <1>7, <2>3, <3>2, CollectsOneWindow DEF Tables
      <3>3. QED
        BY <3>1, <3>2
    <2>5. \A w \in Windows : metrics'[w] # Nothing => w <= clock
      BY <1>1, <1>3, <2>3, <2>4
    <2>6. \A c \in Builders : c = b
      BY <1>2
    <2>7. QED
      BY <2>1, <2>2, <2>3, <2>4, <2>5, <2>6 DEF Forward
  <1>8. ASSUME NEW b \in Builders, ReadSnapshots(b) PROVE Forward'
    <2>1. \A c \in Builders : c = b
      BY <1>2
    <2>2. clock' = clock /\ now' = now /\ metrics' = metrics /\ ~At(b, "idle")
      BY <1>8 DEF ReadSnapshots, At
    <2>3. \A w \in Windows :
             view'[b][w] = IF InRange(w, now[b]) THEN metrics[w] ELSE Nothing
      BY <1>4, <1>8 DEF ReadSnapshots
    <2>4. QED
      BY <2>1, <2>2, <2>3 DEF Forward, InRange
  <1>9. ASSUME NEW b \in Builders, WritePoints(b) \/ Abort(b) PROVE Forward'
    <2>1. \A c \in Builders : pc'[c] = "idle"
      BY <1>2, <1>4, <1>9 DEF WritePoints, Abort, GoTo
    <2>2. clock' = clock /\ metrics' = metrics
      BY <1>9 DEF WritePoints, Abort
    <2>3. QED
      BY <2>1, <2>2 DEF Forward, At
  <1>10. CASE UNCHANGED vars
    BY <1>10 DEF vars, Forward, At, InRange
  <1>11. QED
    BY <1>5, <1>6, <1>7, <1>8, <1>9, <1>10 DEF Next

\* Max of windows, when one of them is the last.
LEMMA LastIs ==
  ASSUME NEW S, S \subseteq Windows, NEW u \in S, \A x \in S : x <= u
  PROVE  Max(S) = u
  <1>1. Max(S) \in S /\ \A x \in S : Max(S) >= x
    <2> DEFINE P(m) == \A x \in S : m >= x
    <2>1. \E m \in S : P(m)
      BY WindowsBounded
    <2>2. Max(S) = CHOOSE m \in S : P(m)
      BY DEF Max
    <2>3. QED
      BY <2>1, <2>2
  <1>2. Max(S) \in Int /\ u \in Int /\ Max(S) <= u /\ u <= Max(S)
    BY <1>1, WindowsBounded
  <1>3. QED
    BY <1>2

\* A row that a build makes of what the table holds compares.
LEMMA MadePointCompares ==
  ASSUME Tables, Forward, NEW b \in Builders, At(b, "write"),
         NEW w \in Listed(view[b]), NEW u \in Windows, u = w - WindowLen,
         metrics[u] # Nothing
  PROVE  Compares(PointOf(view[b], w), u)
  <1> DEFINE p == PointOf(view[b], w)
             earlier == {x \in Listed(view[b]) : x < w}
  <1>1. clock \in Int /\ now[b] \in Int /\ Lookback \in Nat
    BY TimesAreIntegers
  <1>2. /\ \A x \in Windows :
              view[b][x] = IF InRange(x, now[b]) THEN metrics[x] ELSE Nothing
        /\ now[b] <= clock
    BY DEF Forward, At
  <1>3. w \in Windows /\ w \in Int /\ u \in Int /\ u < w
    BY WindowsBounded, WindowingAssumption DEF Listed
  <1>4. InRange(w, now[b])
    BY <1>2, <1>3 DEF Listed
  <1>5. /\ earlier \subseteq Windows
        /\ \A x \in earlier : x <= u /\ x \in Int /\ InRange(x, now[b])
    <2> SUFFICES ASSUME NEW x \in earlier
                 PROVE  x \in Windows /\ x <= u /\ x \in Int /\ InRange(x, now[b])
      OBVIOUS
    <2>1. x \in Windows /\ view[b][x] # Nothing /\ x < w
      BY DEF Listed
    <2>2. x <= u /\ x \in Int
      BY <1>3, <2>1, WindowsApart, WindowsBounded
    <2>3. QED
      BY <1>2, <2>1, <2>2
  <1>6. p.newPosts = NewPosts(view[b][w])
        /\ p.delta = NewPosts(view[b][w]) - PreviousNewPosts(view[b], w)
    BY DEF PointOf
  <1>7. PreviousNewPosts(view[b], w) =
           IF earlier = {} THEN 0 ELSE NewPosts(view[b][Max(earlier)])
    BY DEF PreviousNewPosts
  <1>8. NewPosts(view[b][w]) \in Int
    BY <1>3, TrendAssumption DEF NewPosts, Metrics, Tables
  <1> HIDE DEF p
  <1>9. CASE InRange(u, now[b])
    <2>1. view[b][u] = metrics[u] /\ u \in earlier
      BY <1>2, <1>3, <1>9 DEF Listed
    <2> HIDE DEF earlier
    <2>2. Max(earlier) = u
      BY <1>5, <2>1, LastIs
    <2>3. PreviousNewPosts(view[b], w) = NewPosts(metrics[u])
      BY <1>7, <2>1, <2>2
    <2>4. QED
      BY <1>6, <2>3 DEF Compares, p
  <1>10. CASE ~InRange(u, now[b])
    <2>1. u < now[b] - Lookback
      BY <1>1, <1>3, <1>4, <1>10 DEF InRange
    <2>2. earlier = {}
      <3> HIDE DEF earlier
      <3>1. \A x \in earlier : FALSE
        BY <1>1, <1>3, <1>5, <2>1 DEF InRange
      <3>2. QED
        BY <3>1
    <2>3. PreviousNewPosts(view[b], w) = 0
      BY <1>7, <2>2
    <2>4. p.delta = p.newPosts /\ u < clock - Lookback
      BY <1>1, <1>2, <1>3, <1>6, <1>8, <2>1, <2>3
    <2>5. QED
      BY <2>4 DEF Compares, p
  <1>11. QED
    BY <1>9, <1>10

\* When a row is there, the window before it is settled: its metrics do not change
\* any more, so a row that compares goes on comparing.
LEMMA DeltasCompareStep ==
  ASSUME LoneBuilder, LoneInv, [Next]_vars
  PROVE  DeltasCompare'
  <1>1. Tables /\ Forward /\ PointsBacked /\ DeltasCompare
    BY DEF LoneInv, TrendInv
  <1>2. /\ clock \in Int /\ Lookback \in Nat
        /\ \A b \in Builders : now[b] \in Int
        /\ \A p \in points : p.window \in Windows
    BY <1>1, TimesAreIntegers DEF Tables
  <1>3. \A w \in Windows : w \in Int
    BY WindowsBounded
  <1>4. CASE UNCHANGED <<points, metrics, clock>>
    BY <1>1, <1>4 DEF DeltasCompare, Compares, NewPosts
  <1>5. CASE Tick
    BY <1>1, <1>2, <1>3, <1>5 DEF Tick, DeltasCompare, Compares
  <1>6. ASSUME NEW b \in Builders, CollectAbout(b) \/ CollectPosts(b)
        PROVE  DeltasCompare'
    <2>1. ~At(b, "idle") /\ points' = points /\ clock' = clock
      BY <1>6 DEF CollectAbout, CollectPosts, At
    <2>2. ASSUME NEW p \in points, NEW u \in Windows, u = p.window - WindowLen
          PROVE  metrics'[u] = metrics[u]
      <3>1. p.window \in Windows /\ metrics[p.window] # Nothing
        BY <1>1, <1>2 DEF PointsBacked
      <3>2. p.window <= now[b]
        BY <1>1, <2>1, <3>1 DEF Forward
      <3>3. p.window <= WindowStart(now[b])
        BY <1>2, <3>1, <3>2, LastStarted
      <3>4. u # WindowStart(now[b])
        <4>1. u \in Int /\ u < p.window /\ p.window \in Int /\ WindowStart(now[b]) \in Int
          <5>1. p.window \in Int /\ now[b] \in Int
            BY <1>2, <1>3, <3>1
          <5>2. u \in Int /\ u < p.window
            BY <2>2, <5>1, WindowingAssumption
          <5>3. QED
            BY <5>1, <5>2, StartOfWindow
        <4>2. QED
          BY <3>3, <4>1
      <3>5. QED
        BY <1>1, <1>6, <3>4, CollectsOneWindow
    <2>3. ASSUME NEW p \in points, NEW u \in Windows, u = p.window - WindowLen,
                 metrics'[u] # Nothing
          PROVE  \/ p.delta = p.newPosts - NewPosts(metrics'[u])
                 \/ p.delta = p.newPosts /\ u < clock' - Lookback
      BY <1>1, <2>1, <2>2, <2>3 DEF DeltasCompare, Compares
    <2>4. QED
      BY <2>1, <2>3 DEF DeltasCompare, Compares
  <1>7. ASSUME NEW b \in Builders, WritePoints(b) PROVE DeltasCompare'
    <2>1. At(b, "write") /\ metrics' = metrics /\ clock' = clock
      BY <1>7 DEF WritePoints
    <2>2. ASSUME NEW p \in points', NEW u \in Windows, u = p.window - WindowLen,
                 metrics[u] # Nothing
          PROVE  Compares(p, u)
      <3>1. CASE p \in points
        BY <1>1, <2>2, <3>1 DEF DeltasCompare
      <3>2. ASSUME NEW w \in Listed(view[b]), p = PointOf(view[b], w)
            PROVE  Compares(p, u)
        <4>1. p.window = w
          BY <3>2, PointOfView DEF Listed
        <4>2. QED
          BY <1>1, <2>1, <2>2, <3>2, <4>1, MadePointCompares
      <3>3. QED
        BY <1>7, <3>1, <3>2, WrittenPoint
    <2>3. QED
      BY <2>1, <2>2 DEF DeltasCompare, Compares
  <1>8. QED
    BY <1>4, <1>5, <1>6, <1>7
    DEF Next, vars, StartCycle, ReadSnapshots, Abort

\* The delta of a complete window whose predecessor is complete is the
\* difference of the two counts, or its own count once the predecessor has left
\* the lookback.
DeltasOfHeld ==
    \A p, q \in points :
        p.complete /\ q.complete /\ q.window = p.window - WindowLen =>
           \/ p.delta = p.newPosts - q.newPosts
           \/ p.delta = p.newPosts /\ q.window < clock - Lookback

\* ResponseDeltas, but for the second window of the response.  An explicit range
\* of a request may hold any number of rows behind the lookback.
LaterDeltas ==
    \A p, q \in Response(clock) :
        p.complete /\ q.complete /\ q.window = p.window - WindowLen
        /\ q.window # WindowStart(clock - Lookback)
        => p.delta = p.newPosts - q.newPosts

\* The invariant holds in every reachable state of a lone builder.
LEMMA InitLoneInv == Init => LoneInv
  <1> SUFFICES ASSUME Init PROVE LoneInv
    OBVIOUS
  <1>1. Forward
    BY DEF Init, Forward, At, NoView
  <1>2. DeltasCompare
    BY DEF Init, DeltasCompare
  <1>3. QED
    BY <1>1, <1>2, InitTrendInv DEF LoneInv

LEMMA LoneInvariance ==
  ASSUME LoneBuilder
  PROVE  Spec => []LoneInv
  <1>1. LoneInv /\ [Next]_vars => LoneInv'
    <2> SUFFICES ASSUME LoneInv, [Next]_vars PROVE LoneInv'
      OBVIOUS
    <2>1. TrendInv'
      BY TablesStep, ViewsStep, PointsStep, OnePointStep DEF LoneInv, TrendInv
    <2>2. Forward'
      BY ForwardStep DEF LoneInv, TrendInv
    <2>3. QED
      BY <2>1, <2>2, DeltasCompareStep DEF LoneInv
  <1>2. QED
    BY InitLoneInv, <1>1, PTL DEF Spec

\* A complete window has its count in the table, so that the row before is what a
\* row compares with.
LEMMA HeldDeltas ==
  ASSUME LoneInv
  PROVE  DeltasOfHeld
  <1> SUFFICES ASSUME NEW p \in points, NEW q \in points,
                      q.complete, q.window = p.window - WindowLen
               PROVE  \/ p.delta = p.newPosts - q.newPosts
                      \/ p.delta = p.newPosts /\ q.window < clock - Lookback
    BY DEF DeltasOfHeld
  <1>1. q.window \in Windows /\ q.newPosts \in 0 .. MaxPosts
    BY DEF LoneInv, TrendInv, Tables
  <1>2. metrics[q.window] # Nothing /\ metrics[q.window].posts = q.newPosts
    BY DEF LoneInv, TrendInv, PointsBacked
  <1>3. NewPosts(metrics[q.window]) = q.newPosts
    BY <1>1, <1>2, TrendAssumption DEF NewPosts, Missing
  <1>4. Compares(p, q.window)
    BY <1>1, <1>2 DEF LoneInv, DeltasCompare
  <1>5. QED
    BY <1>3, <1>4 DEF Compares

\* ResponseDeltas does not hold: the lookback of a build starts within a window,
\* that of a response at the start of one.  Of the whole timeline this much is
\* true as long as one process builds.
THEOREM DeltasWithinLookback ==
  ASSUME LoneBuilder
  PROVE  Spec => []DeltasOfHeld
  <1>1. LoneInv => DeltasOfHeld
    BY HeldDeltas
  <1>2. QED
    BY LoneInvariance, <1>1, PTL

\* In the response to a request without from and to, the delta of the second
\* window is the only one that can differ from the difference of its rows.
THEOREM OnlyTheSecondDeltaIsOff ==
  ASSUME LoneBuilder
  PROVE  Spec => []LaterDeltas
  <1>1. LoneInv => LaterDeltas
    <2> SUFFICES ASSUME LoneInv, NEW p \in Response(clock), NEW q \in Response(clock),
                        p.complete, q.complete, q.window = p.window - WindowLen,
                        q.window # WindowStart(clock - Lookback)
                 PROVE  p.delta = p.newPosts - q.newPosts
      BY DEF LaterDeltas
    <2> DEFINE first == WindowStart(clock - Lookback)
    <2>1. clock - Lookback \in Int
      BY TimesAreIntegers DEF LoneInv, TrendInv
    <2>2. p \in points /\ q \in points /\ q.window >= first
      BY DEF Response
    <2>3. q.window \in Windows /\ q.window \in Int
      BY <2>2, WindowsBounded DEF LoneInv, TrendInv, Tables
    <2>4. first \in Int /\ clock - Lookback < first + WindowLen
      BY <2>1, StartOfWindow
    <2>5. q.window >= first + WindowLen
      <3>1. PICK i \in Int : q.window = WindowLen * i
        BY <2>3, OnGrid
      <3>2. PICK j \in Int : first = WindowLen * j
        BY <2>1, StartOfWindow
      <3> HIDE DEF first
      <3>3. first < q.window
        BY <2>2, <2>3, <2>4 DEF first
      <3>4. first <= q.window - WindowLen
        BY <3>1, <3>2, <3>3, Multiples, WindowingAssumption
      <3>5. QED
        BY <2>3, <2>4, <3>4, WindowingAssumption
    <2> HIDE DEF first
    <2>6. ~ (q.window < clock - Lookback)
      BY <2>1, <2>3, <2>4, <2>5, WindowingAssumption
    <2>7. QED
      BY <2>2, <2>6, HeldDeltas DEF DeltasOfHeld
  <1>2. QED
    BY LoneInvariance, <1>1, PTL
=============================================================================
