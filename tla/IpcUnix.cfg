\* Two threads, of one process or of two; two calls let a late answer meet a later
\* call, one request in DATA overwrite another (a check goes through DATA as a
\* large request does), a death meet a live caller, and DestroyIPC close a
\* descriptor of a worker.
CONSTANTS
    a = a  b = b  pa = pa  pb = pb  va = va  vb = vb
    Callers = {a, b}
    Procs = {pa, pb}
    Placements <- AnyPlacement
    Workers = {va, vb}
    Kinds = {"small", "check"}
    MaxCalls = 2
    MaxCrashes = 1
    ServerMayDie = FALSE
    DestroyAt = {2}
SPECIFICATION Spec
SYMMETRY Symmetric
INVARIANTS TypeOK AnswerIsOwn BodyIntact CheckAnswerWhole
PROPERTY BoxSpec
\* Callers may all have died, or made all their calls.
CHECK_DEADLOCK FALSE
