CONSTANTS
    Requests = {a, b}
    Limit = 2
SPECIFICATION FairSpec
INVARIANTS
    CapacityHolds
    AnsweredIsBilled
PROPERTIES
    SlotsComeBack
    IsMetered
