\* One push is enough to be taken for the response to the first call.
CONSTANTS
    a = a  b = b
    Callers = {a}
    NoPacket = NoPacket
    MaxCalls = 1
    MaxPushes = 1
    MaxConnects = 0
    IdSpace = 4
SPECIFICATION Spec
INVARIANT ReturnsAResponse
CHECK_DEADLOCK FALSE
