SPECIFICATION FairSpec
CONSTANTS
    Operators = {op1, op2}
    JoinTable <- SmallJoin
    AddonTable <- SmallAddons
    NilNetworking = {}
    Renewable = {"ca"}
    MaxVersion = 2
    MaxTokens = 3
    MaxFaults = 1
    FaultKinds = {"call", "crash", "disengage", "lose", "remove", "unmark", "delete"}
PROPERTY
    AddonsFollow
CHECK_DEADLOCK FALSE
