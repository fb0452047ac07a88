CONSTANTS
    Clients = {c1, c2}
    NoClient = NoClient
    Capacity = 1
    MaxAssoc = 2
    MaxPackets = 2
    MaxReplies = 3
SPECIFICATION FairSpec
INVARIANTS HeldAssociationServes RelayedInOrder
PROPERTIES MappingStable PortSpec NobodyStuck IdlePortReleased
CHECK_DEADLOCK FALSE
