CONSTANTS
    MaxTexts = 4
    MaxMessages = 3
    Canned = 3
SPECIFICATION Spec
INVARIANTS
    TextInOrder
    FinalIsEarned
    NoBodyLeaks
    RequestKeepsMessages
PROPERTIES
    LeaderSeesStream
