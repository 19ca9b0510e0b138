\* Two controllers of one claim and one of another, one of them without a time limit.
SPECIFICATION Spec
CONSTANTS
    c1 = c1  c2 = c2  c3 = c3
    Controller = {c1, c2, c3}
    Claim <- MCClaim
    Bounded = {c2}
    None = None
INVARIANTS LiveRunnerIsRecorded ResultIsFinal ResultIsOwnInvocation
PROPERTIES ReportedIsAdopted ControllersReturn
CHECK_DEADLOCK FALSE
