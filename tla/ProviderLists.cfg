SPECIFICATION Spec
CONSTANTS
    Names = {n1}
    Hashes = {h1}
    None = None
    Fields = {}
    MaxFaults = 1
    FaultKinds = {"addons"}
INVARIANT
    ListedIsEngaged
CHECK_DEADLOCK FALSE
