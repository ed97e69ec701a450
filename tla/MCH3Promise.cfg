SPECIFICATION Spec
CONSTANTS
    MaxFrames = 2
    MaxData = 1
    MaxInserts = 1
    MaxPushId = 1
    PromiseNeeds = {0, 1}
INVARIANT NoProtocolError
CHECK_DEADLOCK FALSE
