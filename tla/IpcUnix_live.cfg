CONSTANTS
    a = a  b = b  pa = pa  pb = pb  va = va  vb = vb
    Callers = {a, b}
    Procs = {pa, pb}
    Placements <- TwoProcesses
    Workers = {va}
    Kinds = {"large"}
    MaxCalls = 2
    MaxCrashes = 1
    ServerMayDie = TRUE
    DestroyAt = {1}
SPECIFICATION FairSpec
PROPERTIES CallsReturn PostedIsServed DestroyReturns
CHECK_DEADLOCK FALSE
