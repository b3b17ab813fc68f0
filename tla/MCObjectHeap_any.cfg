SPECIFICATION Spec
CONSTANTS
    p1 = p1
    p2 = p2
    foo = foo
    Foo = Foo
    bar = bar
    baz = baz
    v = v
    NIL = NIL
    UNREF = UNREF
    Garbage = Garbage
    Ptrs = {p1, p2}
    Symbols = {foo, Foo, bar, baz}
    NameOf <- MCNameOf
    Immediates = {NIL, UNREF, v}
    Targets = {NIL, foo, p1, p2}
    Classes = {foo}
    Values = {v}
    SizeLimit = 4
    GrowthStep = 2
    SmallReserve = 1
    LargeReserve = 2
    InitialReserve = 1
    Lengths = {0, 1, 4, 5}
    Positions <- MCPositions
SYMMETRY PtrSymmetry
INVARIANTS TypeOK MemorySafe NoGarbageInUse TagsMirrorSlots TagReadsNeverAssert
CHECK_DEADLOCK FALSE
