\* A preflight and two workers, one with a retry, three signals.
SPECIFICATION FairSpec
CONSTANTS
    w1 = w1  w2 = w2
    Worker = {w1, w2}
    Main = Main
    RunnerAttempts = 2
    MaxSignals = 3
INVARIANTS RegistryIsComplete NoGroupMissesTheSignal
PROPERTIES InterruptedRunEnds
CHECK_DEADLOCK FALSE
