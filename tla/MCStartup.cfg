\* Start-up on every file of three lines, an int of 16 bits, one kind of failures
\* in a behaviour, two frames.  A behaviour ends with the frames or with the
\* process.
SPECIFICATION StartupFairSpec
CONSTANTS
    Sections <- MCSections
    Names <- MCNames
    Value <- MCValue
    Empty = ""
    MaxLines = 3
    IntegerOf <- MCIntegerOf
    NotANumber <- MCNotANumber
    IntMax = 32767
    BooleanOf <- MCBooleanOf
    NotABoolean = none
    Workers = {1, 2}
    ClassNum = 2
    MaxFrame = 2
    MaxFailures = 1
INVARIANTS
    ParsedAsWritten
    
    EndsWhereItFailed
    NamedAsInFile
    OnlyFramesPile
PROPERTY
    FirstPacket
CHECK_DEADLOCK FALSE
