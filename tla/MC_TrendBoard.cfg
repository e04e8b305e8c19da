\* Six windows of one tick, a lookback that lists five of them, a baseline of
\* three windows and a change over one more.
\* No deadlock check: the bounded clock stops.
SPECIFICATION Spec
CONSTANTS
    WindowLen = 1
    MaxClock = 6
    Collectable <- MCCollectable
    Lookback = 4
    MoverLimit = 3
    MaxBreaks = 1
    BaselineWindows = 3
    RecentWindows = 2
    ChangeWindows = 2
    MinChangeWindows = 2
INVARIANTS
    ScoreIsLocal
    TypicalIsNoAnomaly
    MoversAreTop
    OldRowsForgotten
PROPERTIES
    RescoringForgets
CHECK_DEADLOCK FALSE
