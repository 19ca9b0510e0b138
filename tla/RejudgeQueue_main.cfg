\* Two jobs of one parent, two workers, three lives of the queue, the last misconfigured for some parents.
SPECIFICATION QueueSpec
CONSTANTS
    j1 = j1  j2 = j2
    Job = {j1, j2}
    Queue = Queue
    Priors <- MCPriors
    Outcomes <- MCOutcomes
    Workers = 2
    MaxTotal = 2
    MaxEval = 1
    MaxLives = 3
    MaxSlots <- MCMaxSlots
    BadLives <- MCBadLives
INVARIANTS  OverrunNeedsADeadChild 
PROPERTIES CountedStaysCounted QueueReturns
CHECK_DEADLOCK FALSE
