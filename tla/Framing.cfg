\* Chars of six bits: the sizes and MSGIDs in use fit in one, with the top bit clear.
CONSTANTS
    Byte = 64
    Protocols <- Good
    MaxPackets = 3
    BufSize = 60
SPECIFICATION FairSpec
INVARIANTS TypeOK SubsequenceOfSent PacketsIntact
PROPERTY EveryPacketReceived
\* The receive thread ends when the peer has closed.
CHECK_DEADLOCK FALSE
