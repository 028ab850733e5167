SPECIFICATION FairSpec
CONSTANTS
    Writers = {w1, w2, w3}
    Kinds = {"dec", "note"}
    Prior = Prior
    NoId = NoId
    InitialIds <- MCInitialIds
    MaxAttempts = 2
INVARIANTS ReportsWhatItStored FrugalNumbers
PROPERTIES ImplementsLedger Termination
CHECK_DEADLOCK FALSE
