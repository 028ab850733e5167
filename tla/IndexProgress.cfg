SPECIFICATION FairSpec
CONSTANTS
    p1 = p1
    p2 = p2
    plain = plain
    linked = linked
    bad = bad
    Procs <- MCProcs
    Ids = {i1}
    Contents <- MCOneContent
    Unreadable = {}
    Arity <- MCOneArity
    Gens = {g1, g2}
    None = None
PROPERTY OpenReturns
