SPECIFICATION Spec
CONSTANTS
    MaxOffset = 1
    MaxNet = 1
    Aborts = {"reset"}
INVARIANT EndWasWritten
CHECK_DEADLOCK FALSE
