SPECIFICATION FairSpec
CONSTANTS
    Operators = {op1}
    Addresses = {a1, a2}
    NoAddress = NoAddress
    Missing = Missing
    MaxGen = 3
    MaxLag = 1
    MaxFaults = 1
    FaultKinds = {"update", "relocate"}
    StaleStart = FALSE
    NilNetworking = {2}
INVARIANTS
    QuietIsReady
PROPERTIES
    AddressPublished
    BecomesReady
CHECK_DEADLOCK FALSE
