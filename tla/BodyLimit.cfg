SPECIFICATION LimitSpec
CONSTANTS
    MaxBytes = 2
    Drainable = 3
    Pieces = {0, 1, 2}
    MaxSent = 9
INVARIANT NeverBuffersMore
CHECK_DEADLOCK FALSE
