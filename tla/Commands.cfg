SPECIFICATION CommandsSpec
CONSTANTS
    Events <- MCEvents
    Settings <- Shapes
    Runs = {p1, p2}
    MaxEdits = 2
    Absent = Absent
    Torn = Torn
    Installs = {s1, s2}
    Shipped = Shipped
    Edits = {older, edited}
    NoFile = NoFile
    CutOff = CutOff
    Inits = {i1, i2, i3}
    EntryScript <- MCScript
    NoDir = NoDir
    NoOne = NoOne
    SectionLoads <- MCLoads
    Ceilings = {4, 9, 14}
    DefaultMaxTokens = 19
    EntryCosts = {2, 6}
    MaxAncestors = 2
    MaxIntents = 1
    own = own
    near = near
    far = far
    Own = own
    Ledgers = {own, near, far}
    Chains <- MCChains
    Targets = {"t1"}
    NoPath = NoPath
    Asked = "s"
    Ancestries <- MCAncestries
    Index <- MCIndex
    KindOf <- MCKinds
    MapLedgers <- MCLedgers
    Contents <- MCContents
    Goals = {"g", "h"}
    Portfolios <- MCPortfolios
    NoTarget = NoTarget
    MaxStatusCalls = 1
    MaxChanges = 1
    Ln <- MCLn
    Ids <- MCIds
    Drafts <- MCDrafts
    Namespaces <- MCNamespaces
    Homes <- MCHomes
    Plans <- MCPlans
    Created <- MCCreated
    MaxMoves = 2
    NoEntry = NoEntry
    NoRun = NoRun
    NoCheck = NoCheck
SYMMETRY Symmetry
CHECK_DEADLOCK FALSE
INVARIANTS
    InstalledMeansInForce
    UninstallUndoes
    LedgerIsWhole
    UnderCeiling
    OpenOmission
    ChainIsAncestry
    LedgerHalfStands
    NeverGuessed
    RestatedIsRefused
    RetiredIsRedirected
    NoticesAreTrue
    PrivateStaysByReference
    
PROPERTIES
    EditsOutliveReinstalls
    ClassifiedAsDeclared
