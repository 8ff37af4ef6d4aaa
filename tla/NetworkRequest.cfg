\* Two calls, of one caller or of two, so that a late reply can meet a later call,
\* and one push, whose MSGID is that of the first call.
CONSTANTS
    a = a  b = b
    Callers = {a, b}
    NoPacket = NoPacket
    MaxCalls = 2
    MaxPushes = 1
    MaxConnects = 1
    IdSpace = 3
SPECIFICATION FairSpec
INVARIANTS
    TypeOK
    PromiseSomewhere
    NoLeakedPromise
    PromiseOnce
    OwnReply
    HandlerGetsLeftovers
PROPERTIES CallsReturn PacketsReceived ConnectReturns
\* With every call made and returned and the connection closed, nothing is left.
CHECK_DEADLOCK FALSE
