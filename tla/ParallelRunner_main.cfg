\* Three tasks over two workers, every class of result, a capacity file.
SPECIFICATION FairSpec
CONSTANTS
    Index <- MCIndex3
    MaxWorkers = 2
    MinWorkers = 1
    Adaptive = TRUE
    RecoveryTasks = 2
    CapacityFile = TRUE
    CapacityReads = {0, 1, 2, 3}
    RunnerAttempts = 2
    Outcomes <- MCOutcomes
INVARIANTS Census PoolNeverOversubscribed PublishedIsEarned
PROPERTIES NoStartAfterSystemicResult Terminates
CHECK_DEADLOCK FALSE
