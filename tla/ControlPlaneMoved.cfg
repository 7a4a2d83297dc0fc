SPECIFICATION SpecAtRest
CONSTANTS
    Operators = {op1}
    Addresses = {a1, a2}
    NoAddress = NoAddress
    Missing = Missing
    MaxGen = 1
    MaxLag = 1
    MaxFaults = 1
    FaultKinds = {"relocate"}
    StaleStart = FALSE
    NilNetworking = {}
INVARIANT
    AddressRendered
CHECK_DEADLOCK FALSE
