SPECIFICATION Spec
CONSTANTS
    MaxOffset = 1
    MaxNet = 1
    Aborts = {"reset", "stop"}
INVARIANT ResetCalledOnce
CHECK_DEADLOCK FALSE
