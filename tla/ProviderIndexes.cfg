SPECIFICATION Spec
CONSTANTS
    Names = {n1}
    Hashes = {h1}
    None = None
    Fields = {f1}
    MaxFaults = 0
    FaultKinds = {}
INVARIANT
    IndexedEverywhere
CHECK_DEADLOCK FALSE
