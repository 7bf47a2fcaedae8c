SPECIFICATION CalmSpec
CONSTANTS
    Sessions <- MCSessions
    MaxCalls = 2
    MaxReads = 3
    None = None
INVARIANTS
    StopReachesTheStream
    AnswersBelong
    AnswersHaveQuestions
PROPERTIES
    StreamingEnds
CHECK_DEADLOCK FALSE
