CONSTANTS
    NumServers = 2
    MAX_LATENCY_QUEUE_SIZE = 2
    MAX_SERVER_RTT = 4
    Latencies <- OneLatency
    Errored = Errored
    Conns <- OneConn
SPECIFICATION FairSpec
INVARIANTS
    ChoiceIsBest
    NoBlindPick
PROPERTIES
    Created
    FailsOver
CHECK_DEADLOCK FALSE
