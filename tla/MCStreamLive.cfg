SPECIFICATION FairSpec
CONSTANTS
    MaxOffset = 2
    MaxNet = 1
    Aborts = {"reset"}
PROPERTIES
    WrittenIsDelivered
    ResetIsSeen
CHECK_DEADLOCK FALSE
