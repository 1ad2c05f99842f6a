CONSTANTS
    v0 = v0
    v1 = v1
    m = m
    a = a
    b = b
    r1 = r1
    r2 = r2
    NoVersion = NoVersion
    NoRow = NoRow
    RolloutIDs = {r1, r2}
    ModelRefs = {m}
    Versions = {v0, v1}
    Bootstrapped <- MCBootstrapped
    Callers = {a, b}
SYMMETRY MCSymmetry
SPECIFICATION MCSpec
INVARIANTS
    OnlyVettedIsLive
    ExposureBounded
    PromotedWasActivated
PROPERTIES
    StagedGateHolds
