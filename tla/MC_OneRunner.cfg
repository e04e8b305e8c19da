\* One runner, two targets, both stores: retries, backoff and dead letters within
\* one window.  No deadlock check: the bounded clock stops.
SPECIFICATION TwinSpec
CONSTANTS
    r1 = r1
    p1 = p1
    alice = alice
    Runners = {r1}
    NumTargets = 2
    Posts = {p1}
    Authors = {alice}
    AuthorOf <- MCAuthorOf
    AboutMetrics = {}
    PageLimit = 1
    WindowLen = 4
    MaxClock = 3
    Faults = {"fetch", "crash"}
    MaxRetries = 2
    BaseDelay = 1
    MaxDelay = 2
    DeadLetterAllowed = TRUE
    FailureTyped = TRUE
INVARIANTS
    JobTablesAgree
    ObservationsAgree
PROPERTIES
    KeepsLifecycle
    CycleEnds
CHECK_DEADLOCK FALSE
