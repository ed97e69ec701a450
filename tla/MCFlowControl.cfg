SPECIFICATION Spec
CONSTANTS
    Streams = {0, 1}
    InitialLimit <- MCInitialLimit
    Resets = {1}
    MaxSize <- MCMaxSize
    MaxCounted = 2
    MaxFlight = 2
INVARIANTS
    TypeOK
    NoLimitError
    LimitsReachSender
    LimitIsRaised
CHECK_DEADLOCK FALSE
