CONSTANTS
    Clients = {c1}
    Targets = {t1}
    NoKey = NoKey
    Capacity = 1
    MaxAssoc = 1
    MaxPackets = 1
    MaxReplies = 1
SPECIFICATION Spec
INVARIANT DirectReplyUnmodified
CHECK_DEADLOCK FALSE
