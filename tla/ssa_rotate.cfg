SPECIFICATION FairSpec
CONSTANTS
    Hubs = {h1}
    Processes = {p1, p2}
    Quota = 2
    MaxKeys = 4
    MaxRotations = 2
    MaxFaults = 1
    LiveExpiry = TRUE
    Null = Null
INVARIANTS
    TypeOK
    SigningKeyLive
PROPERTIES
    NotLockedOut
CHECK_DEADLOCK FALSE
