SPECIFICATION Spec
CONSTANTS
    MaxOffset = 2
    MaxNet = 2
    Aborts = {"reset", "stop"}
INVARIANTS
    TypeOK
    NoByteForgotten
    OnePlaceForEachByte
    ScheduledWhilePending
    FinFrameEndsStream
    AckedIsReceived
    FinishedTogether
    NoFinalSizeError
    RangesAreHeld
PROPERTY ImplementsByteStream
CHECK_DEADLOCK FALSE
