SPECIFICATION Spec
CONSTANTS
    p1 = p1
    p2 = p2
    i1 = i1
    i2 = i2
    v1 = v1
    v2 = v2
    Procs <- MCProcs
    Ids <- MCIds
    Values <- MCValues
    Missing = Missing
    Inodes = {n1, n2, n3, n4}
    Chunks = 2
SYMMETRY MCSymmetry
INVARIANTS NeverHalfWritten ListMissesNothing
PROPERTIES RemovalIsTried ImplementsAtomicStore
