\* Two driver runs, without and with the three faults.
SPECIFICATION FairSpec
CONSTANTS
    d1 = d1  d2 = d2
    Driver = {d1, d2}
    None = None
    FaultSets <- MCFaultSets
 
PROPERTIES  ClaimsAreReleased
CHECK_DEADLOCK FALSE
