SPECIFICATION MCSpec
CONSTANTS
    Events <- MCEvents
    Settings <- WithEmptyHooks
    Runs = {p1, p2}
    MaxEdits = 2
    Absent = Absent
    Torn = Torn
    Installs = {s1, s2}
    Shipped = Shipped
    Edits = {older, edited}
    NoFile = NoFile
    CutOff = CutOff
    Inits = {i1, i2, i3}
    EntryScript <- MCScript
    NoDir = NoDir
    NoOne = NoOne
CHECK_DEADLOCK FALSE
INVARIANTS
    InstalledMeansInForce
