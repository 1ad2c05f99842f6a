CONSTANTS
    v0 = v0
    m = m
    h1 = h1
    c1 = c1
    c2 = c2
    r1 = r1
    NoVersion = NoVersion
    NoRow = NoRow
    NoHolder = NoHolder
    RolloutIDs = {r1}
    ModelRefs = {m}
    Versions = {v0}
    Bootstrapped <- MCBootstrapped
    Callers <- MCCallers
    Humans = {}
    Replicas = {c1, c2}
    MaxRuns = 2
SYMMETRY MCSymmetry
SPECIFICATION OrphanSpec
INVARIANTS
    RollbackIsEarned
PROPERTIES
    AutoAdvanceIsEarned
