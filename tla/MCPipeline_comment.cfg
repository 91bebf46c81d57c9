SPECIFICATION Spec
CONSTANTS
    N = 3
    MaxFrame = 4
    Lag = 4
INVARIANT YoloIsExecuted
CHECK_DEADLOCK FALSE
