SPECIFICATION JoinSpec
CONSTANTS
    Operators = {op1}
    JoinTable <- JoinObjects
    AddonTable <- AddonObjects
    NilNetworking = {}
    Renewable = {"mcp"}
    MaxVersion = 2
    MaxTokens = 3
    MaxFaults = 1
    FaultKinds = {"call", "crash", "remove", "unmark", "disengage", "delete"}
INVARIANTS
    TypeOK
    TokenIsStored
    NeedsArePresent
    DeletedIsPending
    RestIsInstalled
    JoinsWhenReady
PROPERTIES
    RenderedForward
CHECK_DEADLOCK FALSE
