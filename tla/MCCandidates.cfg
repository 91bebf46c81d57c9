\* A behaviour ends after the last cell.
SPECIFICATION Spec
CONSTANTS
    Lo <- MCLo
    Hi = 1
    Parts = 2
    Outputs = 2
    Cells = 2
    Classes = 2
    Threshold <- MCThreshold
    ZeroPoint <- MCZeroPoint
INVARIANTS
    CandidatesAligned
    WithinOneQuantum
CHECK_DEADLOCK FALSE
