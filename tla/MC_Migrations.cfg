\* Three runs, two files, one crash, one edit of each file.
\* No deadlock check: finished runs stop.
SPECIFICATION Spec
CONSTANTS
    Runs = {1, 2, 3}
    NumFiles = 2
    MaxCrashes = 1
    SharedFate = FALSE
INVARIANTS
    RecordedWasApplied
    AppliedInOrder
    SomeRunWins
PROPERTIES
    EventuallyMigrated
CHECK_DEADLOCK FALSE
