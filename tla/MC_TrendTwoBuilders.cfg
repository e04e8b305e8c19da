\* Two cycles of one target overlap: what the timeline always satisfies.
\* No deadlock check: the bounded clock stops.
SPECIFICATION Spec
CONSTANTS
    b1 = b1
    b2 = b2
    Builders = {b1, b2}
    WindowLen = 2
    Lookback = 2
    MaxPosts = 2
    MaxClock = 3
SYMMETRY BuilderSymmetry
INVARIANTS
    PointsBacked
    DeltaBacked
PROPERTIES
    OldPointsFrozen
    PointsNotLost
CHECK_DEADLOCK FALSE
