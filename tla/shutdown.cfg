CONSTANTS
    MaxChildren = 2
    MaxAttempts = 2
    SHUTDOWN_GRACE <- GRACE
    SHUTDOWN_KILL_GRACE <- KILL
    KILL_GRACE <- RUN_KILL
    SHUTDOWN_EXIT_WAIT <- EXIT_WAIT
    SHUTDOWN_ROUND_WAIT <- ROUND_WAIT
SPECIFICATION FairSpec
INVARIANTS
    NoOrphan
    CleanExit
PROPERTIES
    ShutdownEnds
    RoundEnds
CHECK_DEADLOCK FALSE
