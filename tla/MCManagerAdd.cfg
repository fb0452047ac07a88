CONSTANTS
    p1 = p1
    p2 = p2
    NoPort = NoPort
    Ports <- TwoPorts
    Configured <- OneConfigured
    MaxInst = 2
    MaxFailures = 0
SPECIFICATION FairSpec
PROPERTY AddedServerRuns
CHECK_DEADLOCK FALSE
