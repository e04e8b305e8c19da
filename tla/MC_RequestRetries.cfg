\* Three attempts, with hints below and above the backoff cap.
\* No deadlock check: the call ends.
SPECIFICATION FairSpec
CONSTANTS
    Retries = 2
    Timeout = 2
    BackoffBase = 2
    BackoffCap = 3
    JitterPercent = 20
    Hints = {0, 5, 9}
    LongestHint = 9
INVARIANTS
    TypeOK
    TimeBudget
    AskedWaitKept
    NoStaleHint
PROPERTIES
    Settles
CHECK_DEADLOCK FALSE
