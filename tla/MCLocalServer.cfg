SPECIFICATION FairSpec
CONSTANTS
    CacheCapacity = 1
    Responses <- MCResponses
    Ips <- MCIps
    Resolutions <- MCResolutions
    PluginTries = 2
    Segment = 5
    LocalIp <- MCLocalIp
    Loopback <- MCLoopback
    Configs <- MCConfigs
INVARIANTS
    RightTarget
    StreamsExact
    BlockedNeverReached
    AclHonoured
    EndToEndHeaders
    ConnectionAgreed
    RecordedBeforeReply
PROPERTIES
    AskAnswered
    EverybodyLeaves
    IdleCloses
CHECK_DEADLOCK FALSE
