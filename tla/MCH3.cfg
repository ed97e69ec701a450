SPECIFICATION Spec
CONSTANTS
    MaxFrames = 3
    MaxData = 2
    MaxInserts = 2
    MaxPushId = 1
    PromiseNeeds = {0}
INVARIANTS
    NoProtocolError
    EventsFollowMessage
    BlockedForInserts
    AllIsReported
CHECK_DEADLOCK FALSE
