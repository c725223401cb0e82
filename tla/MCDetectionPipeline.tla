------------------------- MODULE MCDetectionPipeline -------------------------
(* A run of the DAG with one retry per task, and one POST /detect.         *)
EXTENDS DetectionPipeline

\* Nothing; an urgent anomaly; a critical one behind a more confident one.
MCBatches == {<<>>, <<"high">>, <<"medium", "critical">>}

=============================================================================
