\* The same instance: a report set aside after a fold has named it.
SPECIFICATION QueueSpec
CONSTANTS
    j1 = j1  j2 = j2
    Job = {j1, j2}
    Queue = Queue
    Priors <- MCPriors
    Outcomes <- MCOutcomes
    Workers = 2
    MaxTotal = 2
    MaxEval = 1
    MaxLives = 3
    MaxSlots <- MCMaxSlots
    BadLives <- MCBadLives
INVARIANT AcceptedOutcomesAreRefreshed
CHECK_DEADLOCK FALSE
