SPECIFICATION GraphSpec
CONSTANTS
    p1 = p1
    p2 = p2
    p3 = p3
    p4 = p4
    p5 = p5
    s1 = s1
    s2 = s2
    s3 = s3
    s4 = s4
    s5 = s5
    symArray = symArray
    symString = symString
    foo = foo
    bar = bar
    n1 = n1
    n2 = n2
    nFoo = nFoo
    nBar = nBar
    nString = nString
    Garbage = Garbage
    NoRef = NoRef
    NoGraph = NoGraph
    ArrayClass = symArray
    StringClass = symString
    Ptrs = {p1, p2, p3, p4, p5}
    Symbols = {s1, s2, s3, s4, s5, symArray, symString}
    NameOf <- MCNameOf
    NIL = 2
    UNREF = 50
    Immediates = {2, 5, 22, 50, 253}
    Streams <- MCStreams
    SizeLimit = 4
    GrowthStep = 2
    SmallReserve = 1
    LargeReserve = 2
    InitialReserve = 1
    Nodes = {n1, n2, nFoo, nBar, nString}
    Graphs <- MCGraphs
    Word = 256
    LongestStream = 16
INVARIANTS TypeOK HolesAreOpen IdsInOrder NothingHalfRead SameGraph
