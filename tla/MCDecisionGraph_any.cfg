SPECIFICATION FairSpec
CONSTANTS
    Answers = {a1, a2}
    NoAnswer = NoAnswer
    MaxInputs = 2
    StepLimit = 9
    AnalyzerReplies <- AnyAnalyzer
    CriticReplies <- AnyCritic
INVARIANTS
    TypeOK
    OnlyAuditedDraftsFinal
    WeightsAnswerThisQuestion
    FactsOfThisDilemma
    DoneIsDecidedOrEarlier
    QuestionIsOfThisDilemma
    OneCountedRewrite
PROPERTIES
    AnswerNeverMovesGraph
    ImplementsRound
    LegEnds
CHECK_DEADLOCK FALSE
