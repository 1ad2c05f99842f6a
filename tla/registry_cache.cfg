CONSTANTS
    v1 = v1
    v2 = v2
    Absent = Absent
    Versions = {v1, v2}
    Resyncs = TRUE
    MaxWrites = 2
SPECIFICATION FairSpec
INVARIANTS
    OnlyVerifiedIsTrusted
PROPERTIES
    LastKnownGood
    Converges
