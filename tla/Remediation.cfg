SPECIFICATION HandlerSpec
CONSTANTS
    MaxActions = 3
    None = None
CHECK_DEADLOCK FALSE
INVARIANTS
    AnswersAreReliable
