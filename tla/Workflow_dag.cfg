\* Started by a DAG, no execution can analyse what it found.
SPECIFICATION Spec
CONSTANTS
    Flows = {"bdp", "cost", "drift", "hdsp"}
    StartInputs <- MCDagInput
\* An execution ends.
CHECK_DEADLOCK FALSE
INVARIANT AnomaliesAreAnalysed
