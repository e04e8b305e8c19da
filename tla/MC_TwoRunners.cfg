\* Two runners race through one window: what the tables always satisfy.
\* No deadlock check: the bounded clock stops.
SPECIFICATION Spec
CONSTANTS
    r1 = r1
    r2 = r2
    p1 = p1
    p2 = p2
    alice = alice
    Runners = {r1, r2}
    NumTargets = 1
    Posts = {p1}
    Authors = {alice}
    AuthorOf <- MCAuthorOf
    AboutMetrics = {"active_users"}
    PageLimit = 1
    WindowLen = 2
    MaxClock = 1
    Faults = {"fetch", "statement", "ack", "crash"}
    MaxRetries = 2
    BaseDelay = 1
    MaxDelay = 2
    DeadLetterAllowed = FALSE
    FailureTyped = TRUE
SYMMETRY RunnerSymmetry
VIEW CycleView
INVARIANTS
    TypeOK
    RowsConsistent
    SucceededHasData
    NoDanglingReference
    OneValuePerKey
    RetryDueInTime
PROPERTIES
    AppendOnly
CHECK_DEADLOCK FALSE
