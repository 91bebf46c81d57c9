\* Four slots through two wraps of the cursor; inference is over before the
\* second frame after its own.
SPECIFICATION Spec
CONSTANTS
    N = 4
    MaxFrame = 10
    Lag = 2
INVARIANTS
    YoloExclusive
    ExecutedBeforeEncode
    InputLifetime
    EncodedIsDue
CHECK_DEADLOCK FALSE
