\* Two clients and up to three signals.
\* No deadlock check: the process exits, or has nothing more to do.
SPECIFICATION FairSpec
CONSTANTS
    c1 = c1
    c2 = c2
    Clients = {c1, c2}
    MaxQueries = 2
    MaxSignals = 3
INVARIANTS
    AnswerBeforeExit
    PoolServesClients
    OneSignalFinishesQueries
PROPERTIES
    HandlersFinish
    StopExits
CHECK_DEADLOCK FALSE
