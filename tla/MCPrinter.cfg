SPECIFICATION Spec
CONSTANTS
    n1 = n1
    n2 = n2
    n3 = n3
    sym = sym
    symInstructions = symInstructions
    int = int
    str = str
    ArraySymbol = symArray
    None = None
    PrintDepth = 3
    StackLimit = 16
    Graphs <- MCGraphs
INVARIANTS TypeOK DepthIsNesting PrintsTheGraph
PROPERTY PrintingEnds
CHECK_DEADLOCK FALSE
