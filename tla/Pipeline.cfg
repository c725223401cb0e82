SPECIFICATION FairSpec
CONSTANTS
    Retries = 1
    MaxRuns = 1
    MaxPosts = 1
    Batches <- MCBatches
    Verdicts = {"approved"}
INVARIANTS
    NamedRequestsExist
    OutcomesAreTrue
PROPERTIES
    LateAnswersChangeNothing
    RunsEnd
CHECK_DEADLOCK FALSE
