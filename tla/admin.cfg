CONSTANTS
    a = a
    b = b
    root = root
    guest = guest
    Calls = {a, b}
    ModelRefs = {m, n}
    Home = m
    V0 = v0
    V1 = v1
    R0 = r0
    Last = 1
    Bypass = w
    NoVersion = NoVersion
    Users = {root, guest}
    Role <- MCRole
    Seeded = k0
    NoOne = NoOne
    Revocable = {root}
    Selections <- MCSelections
    AskedLimits = {0, 3}
    DefaultAuditListLimit = 1
    maxAuditListLimit = 2
SYMMETRY MCSymmetry
SPECIFICATION Spec
INVARIANTS
    LiveIsDistributed
    AuditTellsTruth
    OnlyTrustedAct
    AcknowledgedIsListed
    OnlyFailureBlanks
PROPERTIES
    LateRegistrationIsInert
