SPECIFICATION Spec
CONSTANTS
    Streams = {0, 1}
    InitialLimit <- MCInitialLimit
    Resets = {1}
    MaxSize <- MCMaxSize
    MaxCounted = 2
    MaxFlight = 1
INVARIANT BlockedStreamIsSilent
CHECK_DEADLOCK FALSE
