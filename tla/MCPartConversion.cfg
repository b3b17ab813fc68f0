SPECIFICATION Spec
CONSTANTS
    p1 = p1
    p2 = p2
    p3 = p3
    p4 = p4
    s1 = s1
    s2 = s2
    s3 = s3
    s4 = s4
    symString = symString
    foo = foo
    bar = bar
    Garbage = Garbage
    NoRef = NoRef
    NoCall = NoCall
    StringName = bar
    StringClass = symString
    Ptrs = {p1, p2, p3, p4}
    Symbols = {s1, s2, s3, s4, symString}
    NameOf <- MCNameOf
    NIL = 2
    UNREF = 50
    Immediates <- MCImmediates
    SizeLimit = 4
    GrowthStep = 2
    SmallReserve = 1
    LargeReserve = 2
    InitialReserve = 1
    Parts <- MCParts
    Word = 65536
    SymbolClass = 21842
    MaxRuns = 2
INVARIANTS TypeOK MarksAreHonest CyclesAreDiscovered MadeOnce GraphKept WellFormedConverts
PROPERTIES MemoKept
CHECK_DEADLOCK FALSE
