\* A retry that falls due after its window is never run.
SPECIFICATION FairSpec
CONSTANTS
    r1 = r1
    r2 = r2
    p1 = p1
    p2 = p2
    alice = alice
    Runners = {r1}
    NumTargets = 1
    Posts = {p1}
    Authors = {alice}
    AuthorOf <- MCAuthorOf
    AboutMetrics = {"active_users"}
    PageLimit = 1
    WindowLen = 2
    MaxClock = 2
    Faults = {"fetch"}
    MaxRetries = 1
    BaseDelay = 1
    MaxDelay = 2
    DeadLetterAllowed = TRUE
    FailureTyped = TRUE
PROPERTIES
    RetrySettles
CHECK_DEADLOCK FALSE
