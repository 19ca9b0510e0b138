\* A direct and a standard gateway over two slots, every fault.
SPECIFICATION FairSpec
CONSTANTS
    r1 = r1  r2 = r2  p1 = p1  p2 = p2
    Request = {r1, r2}
    Process = {p1, p2}
    Owner <- MCOwner
    NumSlots = 2
    Policies <- MCPolicies
    Direct = {p1}
    NoRequest = NoRequest
    NoProcess = NoProcess
INVARIANTS SlotsAccounted SlotCoversUpstream
PROPERTIES ImplementsCapacity WaitersMakeProgress
CHECK_DEADLOCK FALSE
