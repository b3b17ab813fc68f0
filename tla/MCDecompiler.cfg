SPECIFICATION SourceSpec
CONSTANTS
    NoSource = NoSource
    HasLiterals = TRUE
    Sources <- MCSources
    Programs <- MCPrograms
INVARIANTS
    TypeOK
    BottomStays
    Contiguous
    PrintedOnce
    RoundTrip
CHECK_DEADLOCK FALSE
