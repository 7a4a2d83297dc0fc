SPECIFICATION FairSpec
CONSTANTS
    None = None
    ByteSize = 4
    Network <- FourBits
    MaxAddress = 2
    MaxFaults = 1
    Renewable = {"managed-ca"}
INVARIANTS
    TypeOK
    TrustHolds
    KubeconfigNotAhead
    QuietServes
PROPERTIES
    CredentialsForward
    ComesUp
