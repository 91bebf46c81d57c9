\* Inference as slow as it likes: what the code itself guarantees.
SPECIFICATION FairSpec
CONSTANTS
    N = 3
    MaxFrame = 4
    Lag = 4
INVARIANTS
    AtNeverThrows
    EncodesOldest
PROPERTY
    Inferred
CHECK_DEADLOCK FALSE
