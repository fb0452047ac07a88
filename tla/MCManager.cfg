CONSTANTS
    p1 = p1
    p2 = p2
    NoPort = NoPort
    Ports <- TwoPorts
    Configured <- OneConfigured
    MaxInst = 3
    MaxFailures = 1
SPECIFICATION FairSpec
INVARIANTS AllOrNothing
PROPERTY RemovedServerStops FreshAddRuns
CHECK_DEADLOCK FALSE
