SPECIFICATION Spec
CONSTANTS
    MaxWork = 2
    IOFaults = FALSE
    FeatureSets <- MCCheckpointOnly
    MaxAttempts = 2
INVARIANTS SavedWorkSurvives
CHECK_DEADLOCK FALSE
