------------------------- MODULE MCRemediationWorkflow -------------------------
(* Values of RemediationWorkflow's constants for TLC. *)
EXTENDS RemediationWorkflow

\* What the Airflow DAGs start an execution with: none of the fields that are read.
MCDagInput == {{}}

\* What the state machines expect.
MCFullInput == {{"previous_attempts", "replan_count"}}

MCInputs == MCDagInput \cup MCFullInput

=============================================================================
