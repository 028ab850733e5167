SPECIFICATION ServerSpec
CONSTANTS
    p1 = p1
    p2 = p2
    plain = plain
    linked = linked
    bad = bad
    Procs <- MCProcs
    Ids = {i1}
    Contents <- MCContents
    Unreadable <- MCUnreadable
    Arity <- MCArity
    Gens = {g1, g2}
    None = None
    w1 = w1
    w2 = w2
    old = old
    CardIds = {1, 2}
    Decks <- MCDecks
    Texts = {old, new}
    Tabs <- MCTabs
    NoCard = NoCard
    MaxElsewhere = 1
SYMMETRY ServerSymmetry
PROPERTY PageSaysWhatFilesSay
