\* Two turns, chats or streams, interleaved; up to two rounds of the graph each.
SPECIFICATION FairSpec
CONSTANTS
    t1 = t1
    t2 = t2
    None = None
    Turns <- MCTwoTurns
    MaxIterations = 2
INVARIANTS
    AnswersDecideWhatIsShown
    UncertainIsReviewed
    RepliesAreOwn
PROPERTIES
    ApprovalsKeepLifecycle
    GraphsAreShort
    ChatReturns
