CONSTANTS
    SaltSize = 2
    TagSize = 1
    LenSize = 2
    MAX_PACKET_SIZE = 2
    PipeSize = 5
    MaxWrite = 3
    MaxPackets = 3
    MaxGarbled = 1
SPECIFICATION FairSpec
INVARIANTS DeliveredInOrder EofIsComplete ReplayRefused
PROPERTIES WrittenIsDelivered EndIsNoticed
CHECK_DEADLOCK FALSE
