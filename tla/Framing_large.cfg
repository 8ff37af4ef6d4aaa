\* One body of 9 bytes at a time, announced as convertSendMsg does.
CONSTANTS
    Byte = 64
    Protocols <- Bad
    MaxPackets = 2
    BufSize = 60
SPECIFICATION Spec
INVARIANT PacketsIntact
CHECK_DEADLOCK FALSE
