\* The deltas of a response, one builder.
\* No deadlock check: the bounded clock stops.
SPECIFICATION Spec
CONSTANTS
    b1 = b1
    b2 = b2
    Builders = {b1}
    WindowLen = 2
    Lookback = 4
    MaxPosts = 1
    MaxClock = 7
INVARIANTS
    ResponseDeltas
CHECK_DEADLOCK FALSE
