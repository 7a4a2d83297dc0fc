SPECIFICATION FairSpecAtRest
CONSTANTS
    Operators = {op1, op2}
    Addresses = {a1}
    NoAddress = NoAddress
    Missing = Missing
    MaxGen = 1
    MaxLag = 1
    MaxFaults = 0
    FaultKinds = {}
    StaleStart = TRUE
    NilNetworking = {}
PROPERTIES
    DeletionCompletes
CHECK_DEADLOCK FALSE
