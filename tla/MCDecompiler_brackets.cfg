SPECIFICATION SourceSpec
CONSTANTS
    NoSource = NoSource
    HasLiterals = TRUE
    Sources <- RightNested
    Programs = {}
INVARIANT
    BracketsKeepMeaning
CHECK_DEADLOCK FALSE
