\* A behaviour ends when post_process returns.
SPECIFICATION DetectionsSpec
CONSTANTS
    K = 4
    Scores = {1, 2, 3}
    Classes = {0, 1}
    MaxReported = 2
INVARIANTS
    SortsInPlace
    NothingOverlaps
    DroppedForBetter
    ResultsBelongTogether
    BestReported
PROPERTIES
    Returns
    ImplementsPostProcess
CHECK_DEADLOCK FALSE
