CONSTANTS
    p1 = p1
    p2 = p2
    o1 = o1
    NoOne = NoOne
    Others = {o1}
    Providers = {p1, p2}
    Order <- MCOrder
    TTL = 5
    Buffer = 2
    Retry = 2
    Timeout = 1
    Lease = 4
    MaxRotations = 1
SPECIFICATION FairSpec
INVARIANTS
    ReadyMeansFresh
    LeaseOutlivesRead
PROPERTIES
    RotationArrives
