SPECIFICATION Spec
CONSTANTS
    N = 3
    MaxFrame = 4
    Lag = 4
INVARIANT FailedReadNotEncoded
CHECK_DEADLOCK FALSE
