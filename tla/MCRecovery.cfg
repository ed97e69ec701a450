SPECIFICATION FairSpec
CONSTANTS
    Traffic <- MCTrafficAndAcks
    Spaces <- MCSpaces
    PacketThreshold = 2
    LossDelays = {1, 2}
    MaxPacket = 3
    MaxTime = 4
    InitialWindow = 6
    MinimumWindow = 2
    DatagramSize = 2
INVARIANTS
    CountersMatch
    WindowHolds
PROPERTIES
    OneCutPerFlight
    OvertakenIsReported
CHECK_DEADLOCK FALSE
