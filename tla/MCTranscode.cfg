SPECIFICATION SourceSpec
CONSTANTS
    NoSource = NoSource
    Sources <- MCSources
    Streams <- MCStreams
    Behind <- MCBehind
INVARIANTS
    TypeOK
    PassesAgree
    BranchesLand
    LabelsCounted
    RestoresTheCode
CHECK_DEADLOCK FALSE
