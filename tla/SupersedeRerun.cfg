SPECIFICATION Spec
CONSTANTS
    p1 = p1
    p2 = p2
    d1 = d1
    d2 = d2
    d3 = d3
    Procs <- MCProcs
    Ids <- MCIds
    KindOf <- MCKindOf
    None = None
SYMMETRY MCSymmetry
INVARIANT RerunCanFinish
