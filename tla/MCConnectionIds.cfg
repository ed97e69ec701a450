SPECIFICATION Spec
CONSTANTS
    Limit = 3
    MAX_PENDING_RETIRES = 0
    Addresses = {"home", "away"}
    Home = "home"
    ServerPackets = 2
    ClientPackets = 3
    MaxRepeats = 1
INVARIANTS IdsAreKnown TableFollowsIds PathsAreFollowed
CHECK_DEADLOCK FALSE
