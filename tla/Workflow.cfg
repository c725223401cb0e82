\* The four state machines, started by a DAG or with the full input.
SPECIFICATION FairSpec
CONSTANTS
    Flows = {"bdp", "cost", "drift", "hdsp"}
    StartInputs <- MCInputs
\* An execution ends.
CHECK_DEADLOCK FALSE
INVARIANTS
    RemediationsBounded
    ReanalysisKnowsFailure
    InputsSurvive
PROPERTIES
    ApprovedBeforeExecution
    ExecutionEnds
