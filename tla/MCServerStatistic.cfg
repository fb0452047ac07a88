CONSTANTS
    MAX_LATENCY_QUEUE_SIZE = 3
    MAX_SERVER_RTT = 4
    Latencies <- FourLatencies
    Errored = Errored
    Servers <- TwoServers
SPECIFICATION Spec
INVARIANTS
    StatisticsAreRecent
    DeadLooksWorse
