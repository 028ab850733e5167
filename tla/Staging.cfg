SPECIFICATION FairSpec
CONSTANTS
    a = a
    b = b
    Hooks = {h1, h2}
    Transcript <- MCTranscript
    Ids <- MCIds
    Missing = Missing
    MaxCandidates = 1
    MaxFaults = 1
    MaxDiscards = 2
INVARIANTS NoSecondCopy
PROPERTIES NothingLostQuietly EveryCandidateArrives
