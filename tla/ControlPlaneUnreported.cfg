SPECIFICATION SpecAtRest
CONSTANTS
    Operators = {op1}
    Addresses = {a1}
    NoAddress = NoAddress
    Missing = Missing
    MaxGen = 1
    MaxLag = 1
    MaxFaults = 2
    FaultKinds = {"apply", "status"}
    StaleStart = FALSE
    NilNetworking = {}
INVARIANT
    StatusIsLatest
CHECK_DEADLOCK FALSE
