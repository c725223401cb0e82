-------------------------- MODULE RemediationWorkflow --------------------------
(***************************************************************************)
(* One execution of the detection, analysis, approval, remediation and     *)
(* replanning workflow (step_functions/*.asl.json).  The four state        *)
(* machines, one per agent, differ in a few states: the variable flow says *)
(* which one runs.  The state names are theirs, except that the first two, *)
(* named differently in each, are Detect and CheckDetected, and that the   *)
(* Succeed state ApprovalRejected of bdp is ApprovalRejectedEnd.           *)
(*                                                                         *)
(* The JSON document that is handed from state to state decides whether a  *)
(* state can run: a Parameters or Choice path to a field that is absent    *)
(* fails the execution.  keys is the set of its top-level fields; a task   *)
(* with ResultPath "$.f" adds f, a task without ResultPath replaces the    *)
(* whole document by its reply, in which none of these fields is.          *)
(***************************************************************************)
EXTENDS Naturals, Sequences

CONSTANTS Flows,        \* the state machines to consider
          StartInputs   \* the documents an execution may be started with

AllFlows == {"bdp", "cost", "drift", "hdsp"}

Fields == {"detection", "previous_attempts", "analysis", "approval", "remediation",
           "reflection", "replan_count", "error"}

ASSUME WorkflowAssumption ==
    /\ Flows \subseteq AllFlows
    /\ StartInputs \subseteq SUBSET {"previous_attempts", "replan_count"}

VARIABLES flow,               \* the state machine
          state,              \* its current state
          keys,               \* the top-level fields of the document
          detection,          \* $.detection
          previous_attempts,  \* $.previous_attempts, the analyses by number
          analysis,           \* $.analysis, numbered in the order they were made
          approval,           \* $.approval, with the analysis the approver was shown
          reflection,         \* $.reflection
          replan_count,       \* $.replan_count
          executed            \* the analyses whose actions have been run

document == <<detection, previous_attempts, analysis, approval, reflection,
              replan_count>>
vars == <<flow, state, keys, document, executed>>

MaxReplans == 3

Tasks == {"Detect", "LogMediumLow", "AnalyzeRootCause", "RequestApproval",
          "ExecuteApprovedRemediation", "ReflectOnResult",
          "PublishBaselineUpdateEvent", "MaxReplansReached", "EscalateToHuman",
          "WorkflowSuccess", "ApprovalRejected", "ApprovalTimeout", "HandleError",
          "HandleRemediationError"}
Choices == {"CheckDetected", "ClassifySeverity", "EvaluateConfidence",
            "CheckApprovalResult", "CheckReflectionResult", "UpdateBaselineCheck",
            "CheckReplanAttempts"}
Ends == {"NoAnomaliesFound", "WorkflowLoggedOnly", "Success", "WorkflowEscalated",
         "ApprovalRejectedEnd", "WorkflowFailed", "ExecutionFailed"}
States == Tasks \cup Choices \cup Ends \cup {"IncrementReplanCount"}

TypeOK ==
    /\ flow \in AllFlows
    /\ state \in States
    /\ keys \subseteq Fields
    /\ detection \in [found : BOOLEAN, urgent : BOOLEAN]
    /\ previous_attempts \in Seq(Nat)
    /\ analysis \in [id : Nat, confident : BOOLEAN]
    /\ approval \in [approved : BOOLEAN, of : Nat]
    /\ reflection \in [success : BOOLEAN, requires_replan : BOOLEAN,
                       update_baseline : BOOLEAN]
    /\ replan_count \in Nat
    /\ executed \in Seq(Nat)

Init ==
    /\ flow \in Flows
    /\ state = "Detect"
    /\ keys \in StartInputs
    /\ detection = [found |-> FALSE, urgent |-> FALSE]
    /\ previous_attempts = <<>>
    /\ analysis = [id |-> 0, confident |-> FALSE]
    /\ approval = [approved |-> FALSE, of |-> 0]
    /\ reflection = [success |-> FALSE, requires_replan |-> FALSE,
                     update_baseline |-> FALSE]
    /\ replan_count = 0
    /\ executed = <<>>

-----------------------------------------------------------------------------
(* Which fields a state's Parameters and Choice paths read.                *)

Only(flows, states) == IF flow \in flows THEN states ELSE {}

HasInput(s) ==
    /\ s \in {"CheckDetected", "ClassifySeverity", "LogMediumLow", "AnalyzeRootCause",
              "PublishBaselineUpdateEvent"}
            \cup Only({"cost", "drift", "hdsp"}, {"RequestApproval", "IncrementReplanCount"})
            \cup Only({"drift", "hdsp"}, {"ExecuteApprovedRemediation", "EscalateToHuman"})
            \cup Only({"hdsp"}, {"WorkflowSuccess", "ApprovalRejected"})
       => "detection" \in keys
    /\ s = "AnalyzeRootCause" => "previous_attempts" \in keys
    /\ s \in {"EvaluateConfidence", "RequestApproval", "ExecuteApprovedRemediation",
              "ReflectOnResult", "IncrementReplanCount", "EscalateToHuman"}
       => "analysis" \in keys
    /\ s \in {"CheckApprovalResult", "ExecuteApprovedRemediation"} => "approval" \in keys
    /\ s = "ReflectOnResult" => "remediation" \in keys
    /\ s \in {"CheckReflectionResult", "UpdateBaselineCheck", "WorkflowSuccess"}
       => "reflection" \in keys
    /\ s \in {"CheckReplanAttempts", "IncrementReplanCount"} => "replan_count" \in keys
    /\ s \in {"HandleError", "HandleRemediationError"} => "error" \in keys

\* The execution is in state s and s finds its input.
Runs(s) == state = s /\ HasInput(s)

Goto(s) == state' = s

\* ResultPath "$.field", and no ResultPath.
Keep(field) == keys' = keys \cup {field}
Replace == keys' = {}

-----------------------------------------------------------------------------
(* Detection                                                               *)

Detect ==
    /\ Runs("Detect")
    /\ detection' \in [found : BOOLEAN, urgent : BOOLEAN]
    /\ Keep("detection")
    /\ Goto("CheckDetected")
    /\ UNCHANGED <<flow, previous_attempts, analysis, approval, reflection,
                   replan_count, executed>>

\* A Choice reads the document and leaves it.
Choose(s, next) ==
    /\ Runs(s)
    /\ Goto(next)
    /\ UNCHANGED <<flow, keys, document, executed>>

CheckDetected ==
    Choose("CheckDetected",
           IF ~detection.found THEN "NoAnomaliesFound"
           ELSE IF flow = "bdp" THEN "AnalyzeRootCause" ELSE "ClassifySeverity")

\* Critical or high goes on to analysis; the rest is only logged.
ClassifySeverity ==
    Choose("ClassifySeverity",
           IF detection.urgent THEN "AnalyzeRootCause" ELSE "LogMediumLow")

-----------------------------------------------------------------------------
(* Analysis and approval                                                   *)

AnalyzeRootCause ==
    /\ Runs("AnalyzeRootCause")
    /\ \E c \in BOOLEAN : analysis' = [id |-> analysis.id + 1, confident |-> c]
    /\ Keep("analysis")
    /\ Goto("EvaluateConfidence")
    /\ UNCHANGED <<flow, detection, previous_attempts, approval, reflection,
                   replan_count, executed>>

\* $.analysis.analysis.confidence >= 0.5
AfterAnalysis(confident) ==
    IF confident THEN "RequestApproval" ELSE "EscalateToHuman"

EvaluateConfidence ==
    Choose("EvaluateConfidence", AfterAnalysis(analysis.confident))

\* The approver returns the task token with a verdict on the analysis shown.
ApproverAnswers(verdict) ==
    /\ Runs("RequestApproval")
    /\ approval' = [approved |-> verdict, of |-> analysis.id]
    /\ Keep("approval")
    /\ Goto("CheckApprovalResult")
    /\ UNCHANGED <<flow, detection, previous_attempts, analysis, reflection,
                   replan_count, executed>>

\* Mutant: the task has no TimeoutSeconds.
NoTimeout(s) == FALSE

\* TimeoutSeconds of state s, of which only RequestApproval has one.
TimeRunsOut(s) == s = "RequestApproval"

ApprovalTimesOut ==
    /\ Runs("RequestApproval")
    /\ TimeRunsOut(state)
    /\ Keep("error")
    /\ Goto("ApprovalTimeout")
    /\ UNCHANGED <<flow, document, executed>>

\* Mutant: any answer of the approver is taken for a yes.
AnyAnswerApproves ==
    Choose("CheckApprovalResult", "ExecuteApprovedRemediation")

\* bdp ends with a rejection, the others publish it first.
CheckApprovalResult ==
    Choose("CheckApprovalResult",
           IF approval.approved THEN "ExecuteApprovedRemediation"
           ELSE IF flow = "bdp" THEN "ApprovalRejectedEnd" ELSE "ApprovalRejected")

-----------------------------------------------------------------------------
(* Remediation and reflection                                              *)

ExecuteApprovedRemediation ==
    /\ Runs("ExecuteApprovedRemediation")
    /\ executed' = Append(executed, analysis.id)
    /\ Keep("remediation")
    /\ Goto("ReflectOnResult")
    /\ UNCHANGED <<flow, document>>

\* The Lambda fails or times out, before its actions ran or after.  Only bdp has no
\* Catch here.
RemediationFails ==
    /\ Runs("ExecuteApprovedRemediation")
    /\ executed' \in {executed, Append(executed, analysis.id)}
    /\ IF flow = "bdp"
       THEN Goto("ExecutionFailed") /\ UNCHANGED keys
       ELSE Goto("HandleRemediationError") /\ Keep("error")
    /\ UNCHANGED <<flow, document>>

ReflectOnResult ==
    /\ Runs("ReflectOnResult")
    /\ reflection' \in [success : BOOLEAN, requires_replan : BOOLEAN,
                        update_baseline : BOOLEAN]
    /\ Keep("reflection")
    /\ Goto("CheckReflectionResult")
    /\ UNCHANGED <<flow, detection, previous_attempts, analysis, approval,
                   replan_count, executed>>

CheckReflectionResult ==
    Choose("CheckReflectionResult",
           IF ~reflection.success /\ reflection.requires_replan
           THEN "CheckReplanAttempts"
           ELSE IF flow = "drift" THEN "UpdateBaselineCheck" ELSE "WorkflowSuccess")

UpdateBaselineCheck ==
    Choose("UpdateBaselineCheck",
           IF reflection.update_baseline THEN "PublishBaselineUpdateEvent"
                                         ELSE "WorkflowSuccess")

-----------------------------------------------------------------------------
(* Replanning                                                              *)

\* Mutant: <= instead of <.
OneReplanMore(count) == count <= MaxReplans

MayReplan(count) == count < MaxReplans

CheckReplanAttempts ==
    Choose("CheckReplanAttempts",
           IF MayReplan(replan_count) THEN "IncrementReplanCount"
                                      ELSE "MaxReplansReached")

\* Mutant: what was tried so far is handed on without the analysis that just failed.
SameAttempts == previous_attempts

\* States.Array($.analysis)
Attempts == <<analysis.id>>

\* Mutant: no state machine hands its detection on.
ReplanDropsDetection ==
    /\ Runs("IncrementReplanCount")
    /\ replan_count' = replan_count + 1
    /\ previous_attempts' = Attempts
    /\ keys' = {"replan_count", "previous_attempts"}
    /\ Goto("AnalyzeRootCause")
    /\ UNCHANGED <<flow, detection, analysis, approval, reflection, executed>>

\* A Pass with ResultPath "$": the document is what Parameters builds, no more.
IncrementReplanCount ==
    /\ Runs("IncrementReplanCount")
    /\ replan_count' = replan_count + 1
    /\ previous_attempts' = Attempts
    /\ keys' = {"replan_count", "previous_attempts"}
                   \cup Only({"cost", "drift", "hdsp"}, {"detection"})
    /\ Goto("AnalyzeRootCause")
    /\ UNCHANGED <<flow, detection, analysis, approval, reflection, executed>>

-----------------------------------------------------------------------------
(* Notifications and ends                                                  *)

\* The tasks that publish an event and have neither ResultPath nor Catch.
Publish(s, next) ==
    /\ Runs(s)
    /\ Replace
    /\ Goto(next)
    /\ UNCHANGED <<flow, document, executed>>

LogMediumLow == Publish("LogMediumLow", "WorkflowLoggedOnly")
PublishBaselineUpdateEvent == Publish("PublishBaselineUpdateEvent", "WorkflowSuccess")
MaxReplansReached == Publish("MaxReplansReached", "EscalateToHuman")
EscalateToHuman == Publish("EscalateToHuman", "WorkflowEscalated")
WorkflowSuccess == Publish("WorkflowSuccess", "Success")
ApprovalTimeout == Publish("ApprovalTimeout", "WorkflowEscalated")
HandleError == Publish("HandleError", "WorkflowFailed")
HandleRemediationError == Publish("HandleRemediationError", "CheckReplanAttempts")
ApprovalRejected == Publish("ApprovalRejected", "ApprovalRejectedEnd")

-----------------------------------------------------------------------------
(* Failures                                                                *)

\* A task fails for good, its retries included.  Only detection and analysis catch
\* every error; RequestApproval catches nothing but its timeout.
TaskFails ==
    /\ state \in Tasks \ {"ExecuteApprovedRemediation"}
    /\ HasInput(state)
    /\ IF state \in {"Detect", "AnalyzeRootCause"}
       THEN Goto("HandleError") /\ Keep("error")
       ELSE Goto("ExecutionFailed") /\ UNCHANGED keys
    /\ UNCHANGED <<flow, document, executed>>

\* A path of the state finds no field: States.Runtime, which no Catch catches.
MissingInput ==
    /\ ~HasInput(state)
    /\ Goto("ExecutionFailed")
    /\ UNCHANGED <<flow, keys, document, executed>>

\* The steps the Step Functions service takes by itself.
ServiceStep ==
    \/ Detect \/ CheckDetected \/ ClassifySeverity
    \/ AnalyzeRootCause \/ EvaluateConfidence
    \/ ApprovalTimesOut \/ CheckApprovalResult
    \/ ExecuteApprovedRemediation \/ RemediationFails
    \/ ReflectOnResult \/ CheckReflectionResult \/ UpdateBaselineCheck
    \/ CheckReplanAttempts \/ IncrementReplanCount
    \/ LogMediumLow \/ PublishBaselineUpdateEvent \/ MaxReplansReached
    \/ EscalateToHuman \/ WorkflowSuccess \/ ApprovalTimeout \/ ApprovalRejected
    \/ HandleError \/ HandleRemediationError
    \/ MissingInput

Next ==
    \/ ServiceStep
    \/ \E verdict \in BOOLEAN : ApproverAnswers(verdict)
    \/ TaskFails

Spec == Init /\ [][Next]_vars

\* The service runs every state it enters to its end; an approver need not answer.
FairSpec == Spec /\ WF_vars(ServiceStep)

-----------------------------------------------------------------------------
(* Properties                                                              *)

\* "All remediation actions require approval before execution": what is run is the
\* current analysis, a confident one, approved as the approver was shown it, and an
\* approval given for an earlier plan is never used again.
ApprovedBeforeExecution ==
    [][executed' # executed =>
          /\ analysis.confident
          /\ approval = [approved |-> TRUE, of |-> analysis.id]
          /\ \A i \in 1..Len(executed) : executed[i] < analysis.id]_vars

\* Whatever reflections ask for, a workflow remediates at most once and three times
\* more, also when a remediation fails half-way.
RemediationsBounded == Len(executed) <= MaxReplans + 1

\* A new analysis is told of the very attempt that has just been run in vain.
ReanalysisKnowsFailure ==
    state = "AnalyzeRootCause" /\ executed # <<>> =>
        previous_attempts = <<executed[Len(executed)]>>

\* Whatever replies, failures and replans made of the document, a state finds every
\* field it reads, but in three places: right behind a task without ResultPath, at the
\* reanalysis of bdp, whose replan drops the detection, and, until a replan has counted,
\* where the start input is short of a field.
InputsSurvive ==
    ~HasInput(state) =>
        \/ keys = {} /\ state \in {"CheckReplanAttempts", "EscalateToHuman", "WorkflowSuccess"}
        \/ replan_count > 0 /\ flow = "bdp" /\ state = "AnalyzeRootCause"
        \/ /\ replan_count = 0
           /\ \/ state = "AnalyzeRootCause" /\ "previous_attempts" \notin keys
              \/ state = "CheckReplanAttempts" /\ "replan_count" \notin keys

\* How far the states of a cycle, and the ways out of it, are from its first one.
Place(s) ==
    IF s \in Ends THEN 13
    ELSE [Detect |-> 0, CheckDetected |-> 1, ClassifySeverity |-> 2, LogMediumLow |-> 3,
          AnalyzeRootCause |-> 3, EvaluateConfidence |-> 4, HandleError |-> 4,
          RequestApproval |-> 5, CheckApprovalResult |-> 6, ApprovalTimeout |-> 6,
          ExecuteApprovedRemediation |-> 7, ApprovalRejected |-> 7, ReflectOnResult |-> 8,
          HandleRemediationError |-> 8, CheckReflectionResult |-> 9,
          CheckReplanAttempts |-> 10, UpdateBaselineCheck |-> 10,
          IncrementReplanCount |-> 11, MaxReplansReached |-> 11,
          PublishBaselineUpdateEvent |-> 11, EscalateToHuman |-> 12,
          WorkflowSuccess |-> 12][s]

\* A cycle that a replan begins leaves out the three states of the detection.
Progress == 9 * replan_count + Place(state)

\* No choice, failure or replan takes an execution back to where it has been: each step
\* brings it on, to its end after forty at most, in each of the four state machines.
ExecutionsAdvance ==
    [][/\ Progress' > Progress
       /\ Progress' <= 9 * MaxReplans + 13]_vars

\* Every execution ends, whether or not anybody answers.
ExecutionEnds == <>(state \in Ends)

\* README "CheckAnomalies --> AnalyzeRootCause: Issues Found": the first analysis
\* finds its input.
AnomaliesAreAnalysed ==
    state = "AnalyzeRootCause" /\ analysis.id = 0 => HasInput(state)

=============================================================================
