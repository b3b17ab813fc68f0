SPECIFICATION SourceSpec
CONSTANTS
    NoSource = NoSource
    HasLiterals = TRUE
    Sources <- LogicalValues
    Programs = {}
PROPERTY
    SilentReturnIsNil
CHECK_DEADLOCK FALSE
