CONSTANTS
    Callers = {"api", "webhook"}
    MaxBatches = 3
    PoolSize = 2
    Attempts = 2
    Tracing = TRUE
    MaxEvents <- MCMaxEvents
SPECIFICATION FairSpec
INVARIANTS TypeOK VerdictHolds CallsTraced NoCallOutlivesRun ReportsOwnResult
PROPERTIES RunEnds
CHECK_DEADLOCK FALSE
