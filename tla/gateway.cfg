CONSTANTS
    a = a
    b = b
    p1 = p1
    k = k
    Nobody = Nobody
    Requests = {a, b}
    Provider <- OneProvider
    Content <- SameContent
    Limit = 1
    MaxDeltas = 2
SPECIFICATION FairSpec
INVARIANTS
    OneLeaderPerKey
    OutcomeMatches
    QuotaHolds
    SameStory
    NoLostWakeup
PROPERTIES
    EveryCallEnds
    ClientsSeeStreams
