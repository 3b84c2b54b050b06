SPECIFICATION Spec
CONSTANTS
    Threads = {t1, t2}
    Callers = {c1, c2}
    Answers = {a1, a2}
    NoAnswer = NoAnswer
    NoThread = NoThread
    Exclusive = {t2}
SYMMETRY Symmetry
INVARIANTS
    TypeOK
    OverrideNeverLeaks
    DecisionMatchesBasis
    DoneHoldsDecision
PROPERTIES
    ThreadsImplementRound
CHECK_DEADLOCK FALSE
