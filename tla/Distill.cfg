SPECIFICATION FairSpec
CONSTANTS
    Ids <- MCIds
    Titles = {t1, t2}
    Bodies = {b1}
    NoBody = NoBody
    Missing = Missing
    MaxFailures = 3
INVARIANTS LedgerAsTold
PROPERTIES NoSilentRevert LoopEnds
CHECK_DEADLOCK FALSE
