SPECIFICATION PulseSpec
CONSTANTS
    QueueLength = 3
    BaseStart = 4
    Amplitude = 25
    Growth = 50
    InitialWindow = 8
    PacketBytes = 4
    Rtts = {1}
    InitialRtt = 2
    FallbackRtt = 2
    MaxBase = 8
    MaxPackets = 1
    MaxAcked = 1
    MaxLateness = 2
INVARIANTS
    QueueFilledAfterStartup
    WindowFollowsBase
PROPERTIES
    EstimateIsFresh
    CorrectionIsJudged
CHECK_DEADLOCK FALSE
