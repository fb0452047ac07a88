CONSTANTS
    Clients = {c1}
    Targets = {t1, t2}
    NoKey = NoKey
    Capacity = 1
    MaxAssoc = 2
    MaxPackets = 2
    MaxReplies = 1
SPECIFICATION FairSpec
INVARIANTS SendNeverClosed FlowKeepsRoute
PROPERTIES PortSpec NobodyStuck ExpiredEvicted
CHECK_DEADLOCK FALSE
