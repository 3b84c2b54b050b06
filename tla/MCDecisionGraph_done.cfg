SPECIFICATION Spec
CONSTANTS
    Answers = {a1, a2}
    NoAnswer = NoAnswer
    MaxInputs = 2
    StepLimit = 9
    AnalyzerReplies <- AnyAnalyzer
    CriticReplies <- AnyCritic
INVARIANTS
    DoneMeansEnded
CHECK_DEADLOCK FALSE
