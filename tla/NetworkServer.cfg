\* Two clients, which the application disconnects at any moment, or never.
CONSTANTS
    a = a  b = b
    Clients = {a, b}
    MaxPackets = 1
SPECIFICATION FairSpec
INVARIANTS TypeOK MapEntriesOpen SocketOutlivesUsers ReceiverOutlivesThread
PROPERTY ClosedIsReleased
\* DisConnect of a silent client waits for ever; every client may have gone.
CHECK_DEADLOCK FALSE
