\* A behaviour ends when the objects have been constructed.
SPECIFICATION SettingsSpec
CONSTANTS
    Sections <- MCSections
    Names <- MCNames
    Value <- MCValue
    Empty = ""
    MaxLines = 3
    IntegerOf <- MCIntegerOf
    NotANumber <- MCNotANumber
    IntMax = 32767
    BooleanOf <- MCBooleanOf
    NotABoolean = none
INVARIANTS
    HttpEnableIsRead
CHECK_DEADLOCK FALSE
