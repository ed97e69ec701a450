SPECIFICATION FairSpec
CONSTANTS
    Never = 100
    Uids = {"u1"}
    Reasons = {"short"}
    Idle = 3
    Probe = 1
    AckDelay = 1
    PacketTime = 1
    MaxBucket = 1
    Windows = {1}
    MaxBackoff = 1
    MaxWork = 0
    MaxSoon = 1
    MaxNumber = 1
PROPERTY ConnectedIsSeen
CHECK_DEADLOCK FALSE
