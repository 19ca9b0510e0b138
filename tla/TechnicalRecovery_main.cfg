\* Two tasks, two workers, one recovery round, one restart at any instant.
SPECIFICATION TRSpec
CONSTANTS
    Index <- MCIndex2
    MaxWorkers = 2
    MinWorkers = 1
    Adaptive = TRUE
    RecoveryTasks = 1
    CapacityFile = FALSE
    CapacityReads = {0}
    RunnerAttempts = 1
    Outcomes <- MCOutcomes
    MaxRecoveries = 1
    Evidence = {"a"}
    MaxRestarts = 1
INVARIANTS DecisionBeforeLaunch
PROPERTIES  LedgerCumulative VerdictKept
CHECK_DEADLOCK FALSE
