\* A client closes while the application disconnects it.
CONSTANTS
    a = a  b = b
    Clients = {a, b}
    MaxPackets = 1
SPECIFICATION FairSpec
PROPERTY SelfStopCompletes
CHECK_DEADLOCK FALSE
