\* One evaluation with everything, or one whose patch is deferred, every fault, one cancellation in each life, one restart.
SPECIFICATION FairSpec
CONSTANTS
    MaxWork = 1
    IOFaults = TRUE
    FeatureSets <- MCEverything
    MaxAttempts = 2
INVARIANTS EligibleIsTrue ResourcesOutliveUsers
PROPERTIES EvaluationEnds
CHECK_DEADLOCK FALSE
