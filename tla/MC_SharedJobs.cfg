\* Two runners on one job, nothing crashes.
SPECIFICATION Spec
CONSTANTS
    r1 = r1
    r2 = r2
    p1 = p1
    p2 = p2
    alice = alice
    Runners = {r1, r2}
    NumTargets = 1
    Posts = {p1}
    Authors = {alice}
    AuthorOf <- MCAuthorOf
    AboutMetrics = {"active_users"}
    PageLimit = 1
    WindowLen = 2
    MaxClock = 1
    Faults = {"fetch"}
    MaxRetries = 0
    BaseDelay = 1
    MaxDelay = 2
    DeadLetterAllowed = TRUE
    FailureTyped = TRUE
INVARIANTS
    RetryCeiling
CHECK_DEADLOCK FALSE
