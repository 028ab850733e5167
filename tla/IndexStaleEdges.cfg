SPECIFICATION Spec
CONSTANTS
    p1 = p1
    p2 = p2
    plain = plain
    linked = linked
    bad = bad
    Procs <- MCProcs
    Ids = {i1}
    Contents <- MCContents
    Unreadable <- MCUnreadable
    Arity <- MCArity
    Gens = {g1, g2}
    None = None
SYMMETRY MCSymmetry
INVARIANT FilesWin
