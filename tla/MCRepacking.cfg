CONSTANTS
    Base = 128
    SymbolClass = 349522
    StemRoom = 6
    RefRoom = 5
    LastNumber = 3
    Filler = 45
    NoEdit = NoEdit
    InstructionsNames <- MCInstructionsNames
    RealNames <- MCRealNames
    Packages <- MCPackages
    Contenders <- MCContenders
SPECIFICATION Spec
INVARIANTS
    TypeOK
    LoadedAsBuilt
    LabelsAreUnique
    BytesCounted
    RepackedAlike
    EditKeepsStructure
    CompareSeesParts
CHECK_DEADLOCK FALSE
