SPECIFICATION RangesSpec
CONSTANT MaxOffset = 9
INVARIANT Canonical
PROPERTY ImplementsOffsetSet
CHECK_DEADLOCK FALSE
