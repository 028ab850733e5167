SPECIFICATION WritesSpec
CONSTANTS
    p1 = p1
    p2 = p2
    d1 = d1
    d2 = d2
    d3 = d3
    Procs <- MCProcs
    Ids <- MCIds
    KindOf <- MCKindOf
    None = None
    Importers = {m1, m2}
    Paths = {1, 2}
    Corpora <- MCCorpora
    Drafting <- MCDrafting
    EntryIds = {1, 2, 3}
    NoDocument = NoDocument
    NoImport = NoImport
    MaxRewrites = 1
SYMMETRY MCSymmetry
INVARIANTS EdgeFirst ExitCodeIsTrue RedirectReachesLive ImportedOnce RefusalsAsWritten
PROPERTIES NothingUndone SuccessMeansImported
CHECK_DEADLOCK FALSE
