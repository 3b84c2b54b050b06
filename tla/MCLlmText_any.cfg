SPECIFICATION Spec
CONSTANTS
    Names = {"think", "reasoning"}
    Split = {"think"}
    MaxLength = 5
INVARIANTS
    IdempotentUnlessJoined
    LastOutputIsRead
    FencedAnswerIsParsed
    BraceHidesAnswer
CHECK_DEADLOCK FALSE
