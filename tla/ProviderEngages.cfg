SPECIFICATION FairSpecAlike
CONSTANTS
    Names = {n1, n2}
    Hashes = {h1, h2}
    None = None
    Fields = {}
    MaxFaults = 1
    FaultKinds = {"secret", "rewrite", "create", "engage", "outage"}
INVARIANTS
    ListedIsEngaged
    NothingForgotten
PROPERTIES
    ReadyIsEngaged
    EngagedIsCurrent
    DeletedIsRemoved
CHECK_DEADLOCK FALSE
