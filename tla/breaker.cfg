CONSTANTS
    a = a
    b = b
    c0 = c0
    Callers = {a, b, c0}
    FailureThreshold = 2
SPECIFICATION FairSpec
INVARIANTS
    TripIsEarned
PROPERTIES
    DownTrips
    RecoversWhenReported
