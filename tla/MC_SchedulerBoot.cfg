\* A first cycle at boot, three subreddits, up to three signals.
\* No deadlock check: the process exits.
SPECIFICATION FairSpec
CONSTANTS
    RunOnBoot = TRUE
    NumSeeds = 3
    Interval = 4
    MaxSignals = 3
INVARIANTS
    NoOverlap
    PoolOutlivesCycles
    FirstSignalIsGraceful
PROPERTIES
    NoStartAfterStop
    StopExits
    KeepsCollecting
CHECK_DEADLOCK FALSE
