SPECIFICATION Spec
CONSTANTS
    Operators = {op1}
    Addresses = {a1}
    NoAddress = NoAddress
    Missing = Missing
    MaxGen = 2
    MaxLag = 1
    MaxFaults = 1
    FaultKinds = {"apply", "status", "crash", "drift"}
    StaleStart = TRUE
    NilNetworking = {}
INVARIANTS
    TypeOK
    ReadyIsRendered
    RenderedInv
    ReadyIsReachable
    PublishedInv
    QuietIsDone
    QuietFoundReady
    ReportHolds
PROPERTIES
    KeepsContract
    ObservedForward
    PublishedForGood
CHECK_DEADLOCK FALSE
