SPECIFICATION DisciplinedSpec
CONSTANTS
    p1 = p1
    p2 = p2
    foo = foo
    Foo = Foo
    bar = bar
    v = v
    w = w
    NIL = NIL
    UNREF = UNREF
    Garbage = Garbage
    Ptrs = {p1}
    Symbols = {foo, Foo, bar}
    NameOf <- MCNameOf
    Immediates = {NIL, UNREF, v, w}
    SizeLimit = 4
    GrowthStep = 2
    SmallReserve = 1
    LargeReserve = 2
    InitialReserve = 1
    Targets = {NIL, p1}
    Classes = {foo}
    Values = {v, w}
    Lengths = {0, 2, 3}
    Positions <- MCPositions
INVARIANT DisciplineSurvives
PROPERTY ImplementsStore
