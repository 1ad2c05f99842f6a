CONSTANTS
    v0 = v0
    v1 = v1
    m = m
    a = a
    b = b
    r1 = r1
    NoVersion = NoVersion
    NoRow = NoRow
    RolloutIDs = {r1}
    ModelRefs = {m}
    Versions = {v0, v1}
    Bootstrapped <- MCBootstrapped
    Callers = {a, b}
SPECIFICATION MCSpec
INVARIANT StoppedCanaryGetsNoTraffic
