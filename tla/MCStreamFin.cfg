SPECIFICATION FairFinSpec
CONSTANTS
    MaxOffset = 1
    MaxNet = 1
    Aborts = {}
PROPERTY EndIsDelivered
CHECK_DEADLOCK FALSE
