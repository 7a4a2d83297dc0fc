SPECIFICATION Spec
CONSTANTS
    Names = {n1, n2}
    Hashes = {h1, h2}
    None = None
    Fields = {f1}
    MaxFaults = 1
    FaultKinds = {"secret", "rewrite", "create", "addons", "engage", "outage"}
INVARIANTS
    TypeOK
    EngagedIsStored
    StoredIsRunning
    RunningIsOwned
SYMMETRY Interchangeable
CHECK_DEADLOCK FALSE
