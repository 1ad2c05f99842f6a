CONSTANTS
    Requests = {a}
    Limit = 2
SPECIFICATION Spec
INVARIANTS
    FailureIsRecorded
