CONSTANTS
    Clients = {c1}
    NoClient = NoClient
    Capacity = 1
    MaxAssoc = 1
    MaxPackets = 2
    MaxReplies = 1
SPECIFICATION FairSpec
PROPERTY PortReleased
CHECK_DEADLOCK FALSE
