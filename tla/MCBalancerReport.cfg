CONSTANTS
    NumServers = 2
    MAX_LATENCY_QUEUE_SIZE = 1
    MAX_SERVER_RTT = 4
    Latencies <- FastAndTimeout
    Errored = Errored
    Conns <- OneConn
SPECIFICATION Spec
PROPERTY
    DirectFailureNotCharged
CHECK_DEADLOCK FALSE
