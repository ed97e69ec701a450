SPECIFICATION Spec
CONSTANTS
    Limit = 2
    MAX_PENDING_RETIRES = 100
    Addresses = {"home", "away"}
    Home = "home"
    ServerPackets = 2
    ClientPackets = 3
    MaxRepeats = 1
INVARIANT ResponseMatches
CHECK_DEADLOCK FALSE
