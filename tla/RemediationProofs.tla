--------------------------- MODULE RemediationProofs ---------------------------
(***************************************************************************)
(* Proofs about remediation: the workflow (RemediationWorkflow), for any   *)
(* of the four state machines and any of the start inputs, and the Lambda  *)
(* that carries out a list of actions (RemediationHandler), for lists of   *)
(* any length.                                                             *)
(***************************************************************************)
EXTENDS RemediationWorkflow, RemediationHandler, TLAPS

-----------------------------------------------------------------------------
(* The inductive invariant: what holds of the analysis, the approval and   *)
(* the remediations at each state of a cycle.                              *)

\* The states of a cycle before its remediation has run.
Planning == {"Detect", "CheckDetected", "ClassifySeverity", "AnalyzeRootCause",
             "EvaluateConfidence", "RequestApproval", "CheckApprovalResult",
             "ExecuteApprovedRemediation"}

\* The states at which the current analysis is new.
Analysed == {"EvaluateConfidence", "RequestApproval", "CheckApprovalResult",
             "ExecuteApprovedRemediation"}

\* The states that follow the remediation of the current analysis.
Remediated == {"ReflectOnResult", "CheckReflectionResult", "IncrementReplanCount"}

Counted ==
    /\ replan_count <= MaxReplans
    /\ Len(executed) <= replan_count + 1
    /\ state \in Planning => Len(executed) <= replan_count
    /\ state = "IncrementReplanCount" => MayReplan(replan_count)

Numbered ==
    /\ \A i \in 1..Len(executed) : executed[i] <= analysis.id
    /\ state \in Analysed => \A i \in 1..Len(executed) : executed[i] < analysis.id

Confirmed ==
    /\ state \in {"RequestApproval", "CheckApprovalResult",
                  "ExecuteApprovedRemediation"} => analysis.confident
    /\ state = "CheckApprovalResult" => approval.of = analysis.id
    /\ state = "ExecuteApprovedRemediation" =>
           approval = [approved |-> TRUE, of |-> analysis.id]

\* A remediation that failed reaches CheckReplanAttempts with an empty document.
LastRun ==
    /\ \/ state \in Remediated
       \/ state = "CheckReplanAttempts" /\ "replan_count" \in keys
       => executed # <<>> /\ executed[Len(executed)] = analysis.id
    /\ state \in {"Detect", "CheckDetected", "ClassifySeverity"} => executed = <<>>
    /\ ReanalysisKnowsFailure

IInv == TypeOK /\ Counted /\ Numbered /\ Confirmed /\ LastRun

-----------------------------------------------------------------------------

LEMMA InitIInv == Init => IInv
BY WorkflowAssumption DEF WorkflowAssumption, Init, IInv, TypeOK, Counted, Numbered,
   Confirmed, LastRun, ReanalysisKnowsFailure, AllFlows, States, Tasks, Fields,
   MaxReplans, Planning, Analysed, Remediated

LEMMA AppendFacts ==
    ASSUME NEW s \in Seq(Nat), NEW n \in Nat
    PROVE  /\ Append(s, n) \in Seq(Nat)
           /\ Append(s, n) # <<>>
           /\ Len(Append(s, n)) = Len(s) + 1
           /\ Append(s, n)[Len(s) + 1] = n
           /\ \A i \in 1..Len(s) : Append(s, n)[i] = s[i]
OBVIOUS

\* Running the current analysis keeps the numbers of what was run in bounds.
LEMMA RunFacts ==
    ASSUME TypeOK, Numbered, executed' \in {executed, Append(executed, analysis.id)}
    PROVE  /\ executed' \in Seq(Nat)
           /\ Len(executed') <= Len(executed) + 1
           /\ \A i \in 1..Len(executed') : executed'[i] <= analysis.id
<1>1. analysis.id \in Nat /\ executed \in Seq(Nat)
    BY DEF TypeOK
<1>2. CASE executed' = executed
    BY <1>1, <1>2 DEF Numbered
<1>3. CASE executed' = Append(executed, analysis.id)
    <2>1. \A i \in 1..Len(executed') : i \in 1..Len(executed) \/ i = Len(executed) + 1
        BY <1>1, <1>3, AppendFacts
    <2> QED
        BY <1>1, <1>3, <2>1, AppendFacts DEF Numbered
<1> QED
    BY <1>2, <1>3

LEMMA StepIInv == IInv /\ [Next]_vars => IInv'
<1> SUFFICES ASSUME IInv, [Next]_vars PROVE IInv'
    OBVIOUS
<1> USE DEF IInv, TypeOK, Counted, Numbered, Confirmed, LastRun, ReanalysisKnowsFailure,
            Planning, Analysed, Remediated, Runs, Goto, document, Fields, States, Tasks,
            Choices, Ends, MaxReplans, MayReplan
<1>1. CASE Detect
    BY <1>1 DEF Detect, Keep
<1>2. CASE CheckDetected
    BY <1>2 DEF CheckDetected, Choose
<1>3. CASE ClassifySeverity
    BY <1>3 DEF ClassifySeverity, Choose
<1>4. CASE AnalyzeRootCause
    <2>1. /\ state = "AnalyzeRootCause" /\ state' = "EvaluateConfidence"
          /\ analysis' \in [id : Nat, confident : BOOLEAN]
          /\ analysis'.id = analysis.id + 1
          /\ keys' = keys \cup {"analysis"}
          /\ UNCHANGED <<flow, detection, previous_attempts, approval, reflection,
                         replan_count, executed>>
        BY <1>4 DEF AnalyzeRootCause, Keep
    <2>2. \A i \in 1..Len(executed) : executed[i] \in Nat /\ executed[i] < analysis'.id
        BY <2>1
    <2> HIDE DEF TypeOK, Counted, Numbered, Confirmed, LastRun
    <2>3. TypeOK' /\ Counted'
        BY <2>1 DEF TypeOK, Counted
    <2>4. Numbered'
        BY <2>1, <2>2 DEF Numbered
    <2>5. Confirmed' /\ LastRun'
        BY <2>1 DEF Confirmed, LastRun
    <2> QED
        BY <2>3, <2>4, <2>5
<1>5. CASE EvaluateConfidence
    BY <1>5 DEF EvaluateConfidence, Choose, AfterAnalysis
<1>6. CASE ApprovalTimesOut
    BY <1>6 DEF ApprovalTimesOut, Keep
<1>7. CASE CheckApprovalResult
    <2>1. /\ state = "CheckApprovalResult"
          /\ state' \in {"ExecuteApprovedRemediation", "ApprovalRejectedEnd",
                         "ApprovalRejected"}
          /\ state' = "ExecuteApprovedRemediation" => approval.approved
          /\ UNCHANGED <<flow, keys, document, executed>>
        BY <1>7 DEF CheckApprovalResult, Choose
    <2>2. approval = [approved |-> approval.approved, of |-> approval.of]
        OBVIOUS
    <2> HIDE DEF TypeOK, Counted, Numbered, LastRun
    <2>3. Confirmed'
        BY <2>1, <2>2 DEF TypeOK
    <2>4. TypeOK' /\ Counted' /\ Numbered' /\ LastRun'
        BY <2>1 DEF TypeOK, Counted, Numbered, LastRun
    <2> QED
        BY <2>3, <2>4
<1>8. CASE ExecuteApprovedRemediation
    <2>1. /\ executed' = Append(executed, analysis.id)
          /\ keys' = keys \cup {"remediation"}
          /\ state = "ExecuteApprovedRemediation" /\ state' = "ReflectOnResult"
          /\ UNCHANGED <<flow, document>>
        BY <1>8 DEF ExecuteApprovedRemediation, Keep
    <2>2. /\ executed' \in Seq(Nat) /\ executed' # <<>>
          /\ Len(executed') = Len(executed) + 1
          /\ executed'[Len(executed')] = analysis.id
        BY <2>1, AppendFacts
    <2>3. \A i \in 1..Len(executed') : executed'[i] <= analysis.id
        BY <2>1, RunFacts
    <2> HIDE DEF TypeOK, Counted, Numbered, Confirmed, LastRun
    <2>4. TypeOK'
        BY <2>1, <2>2 DEF TypeOK
    <2>5. Counted'
        BY <2>1, <2>2 DEF Counted, TypeOK
    <2>6. Numbered'
        BY <2>1, <2>3 DEF Numbered
    <2>7. Confirmed' /\ LastRun'
        BY <2>1, <2>2 DEF Confirmed, LastRun
    <2> QED
        BY <2>4, <2>5, <2>6, <2>7
<1>9. CASE RemediationFails
    <2>1. /\ executed' \in {executed, Append(executed, analysis.id)}
          /\ keys' \subseteq keys \cup {"error"}
          /\ state = "ExecuteApprovedRemediation"
          /\ state' \in {"ExecutionFailed", "HandleRemediationError"}
          /\ UNCHANGED <<flow, document>>
        BY <1>9 DEF RemediationFails, Keep
    <2>2. /\ executed' \in Seq(Nat)
          /\ Len(executed') <= Len(executed) + 1
          /\ \A i \in 1..Len(executed') : executed'[i] <= analysis.id
        BY <2>1, RunFacts
    <2>3. Len(executed) \in Nat /\ Len(executed') \in Nat
        BY <2>2
    <2> HIDE DEF TypeOK, Counted, Numbered, Confirmed, LastRun
    <2>4. TypeOK'
        BY <2>1, <2>2 DEF TypeOK
    <2>5. Counted'
        BY <2>1, <2>2, <2>3 DEF Counted, TypeOK
    <2>6. Numbered' /\ Confirmed' /\ LastRun'
        BY <2>1, <2>2 DEF Numbered, Confirmed, LastRun
    <2> QED
        BY <2>4, <2>5, <2>6
<1>10. CASE ReflectOnResult
    BY <1>10 DEF ReflectOnResult, Keep
<1>11. CASE CheckReflectionResult
    BY <1>11 DEF CheckReflectionResult, Choose
<1>12. CASE UpdateBaselineCheck
    BY <1>12 DEF UpdateBaselineCheck, Choose
<1>13. CASE CheckReplanAttempts
    BY <1>13 DEF CheckReplanAttempts, Choose, HasInput, Only
<1>14. CASE IncrementReplanCount
    <2> USE <1>14 DEF IncrementReplanCount, Attempts
    <2>1. executed # <<>> /\ executed[Len(executed)] = analysis.id
        OBVIOUS
    <2>2. <<analysis.id>> \in Seq(Nat)
        OBVIOUS
    <2>3. TypeOK'
        BY <2>2 DEF Only
    <2>4. Counted'
        OBVIOUS
    <2>5. Numbered' /\ Confirmed'
        OBVIOUS
    <2>6. LastRun'
        BY <2>1
    <2> QED
        BY <2>3, <2>4, <2>5, <2>6
<1>15. CASE LogMediumLow
    BY <1>15 DEF LogMediumLow, Publish, Replace
<1>16. CASE PublishBaselineUpdateEvent
    BY <1>16 DEF PublishBaselineUpdateEvent, Publish, Replace
<1>17. CASE MaxReplansReached
    BY <1>17 DEF MaxReplansReached, Publish, Replace
<1>18. CASE EscalateToHuman
    BY <1>18 DEF EscalateToHuman, Publish, Replace
<1>19. CASE WorkflowSuccess
    BY <1>19 DEF WorkflowSuccess, Publish, Replace
<1>20. CASE ApprovalTimeout
    BY <1>20 DEF ApprovalTimeout, Publish, Replace
<1>21. CASE ApprovalRejected
    BY <1>21 DEF ApprovalRejected, Publish, Replace
<1>22. CASE HandleError
    BY <1>22 DEF HandleError, Publish, Replace
<1>23. CASE HandleRemediationError
    BY <1>23 DEF HandleRemediationError, Publish, Replace
<1>24. CASE MissingInput
    BY <1>24 DEF MissingInput
<1>25. CASE \E verdict \in BOOLEAN : ApproverAnswers(verdict)
    BY <1>25 DEF ApproverAnswers, Keep
<1>26. CASE TaskFails
    <2>1. state' \in {"HandleError", "ExecutionFailed"}
        BY <1>26 DEF TaskFails
    <2>2. keys' \subseteq keys \cup {"error"} /\ UNCHANGED <<flow, document, executed>>
        BY <1>26 DEF TaskFails, Keep
    <2> QED
        BY <2>1, <2>2
<1>27. CASE UNCHANGED vars
    BY <1>27 DEF vars
<1> QED
    BY <1>1, <1>2, <1>3, <1>4, <1>5, <1>6, <1>7, <1>8, <1>9, <1>10, <1>11, <1>12,
       <1>13, <1>14, <1>15, <1>16, <1>17, <1>18, <1>19, <1>20, <1>21, <1>22, <1>23,
       <1>24, <1>25, <1>26, <1>27 DEF Next, ServiceStep

\* The invariant that every theorem below rests on.
LEMMA Invariance == Spec => []IInv
<1>1. Init => IInv
    BY InitIInv
<1>2. IInv /\ [Next]_vars => IInv'
    BY StepIInv
<1> QED
    BY <1>1, <1>2, PTL DEF Spec

-----------------------------------------------------------------------------

\* The document of every execution is well typed: no task reply ends up under a name
\* that no state reads.
THEOREM WorkflowTypes == Spec => []TypeOK
<1>1. IInv => TypeOK
    BY DEF IInv
<1> QED
    BY <1>1, Invariance, PTL

\* CheckReplanAttempts bounds the remediations of an execution, whatever reflections
\* and failures ask for.
THEOREM RemediationsAreBounded == Spec => []RemediationsBounded
<1>1. IInv => RemediationsBounded
    BY DEF IInv, Counted, TypeOK, RemediationsBounded, MaxReplans
<1> QED
    BY <1>1, Invariance, PTL

\* A replanned AnalyzeRootCause is handed the attempt that has just been run.
THEOREM ReanalysesKnowTheFailure == Spec => []ReanalysisKnowsFailure
<1>1. IInv => ReanalysisKnowsFailure
    BY DEF IInv, LastRun
<1> QED
    BY <1>1, Invariance, PTL

\* Only ExecuteApprovedRemediation runs actions, and it is reached only with the
\* approval of the current analysis.
THEOREM OnlyApprovedIsExecuted == Spec => ApprovedBeforeExecution
<1> DEFINE Approved == /\ analysis.confident
                       /\ approval = [approved |-> TRUE, of |-> analysis.id]
                       /\ \A i \in 1..Len(executed) : executed[i] < analysis.id
<1>1. IInv /\ [Next]_vars => [executed' # executed => Approved]_vars
    <2> SUFFICES ASSUME IInv, Next, executed' # executed
                 PROVE  Approved
        BY DEF vars
    <2>1. Runs("ExecuteApprovedRemediation")
        BY DEF Next, ServiceStep, Detect, CheckDetected, ClassifySeverity,
               AnalyzeRootCause, EvaluateConfidence, ApprovalTimesOut,
               CheckApprovalResult, ExecuteApprovedRemediation, RemediationFails,
               ReflectOnResult, CheckReflectionResult, UpdateBaselineCheck,
               CheckReplanAttempts, IncrementReplanCount, LogMediumLow,
               PublishBaselineUpdateEvent, MaxReplansReached, EscalateToHuman,
               WorkflowSuccess, ApprovalTimeout, ApprovalRejected, HandleError,
               HandleRemediationError, MissingInput, ApproverAnswers, TaskFails,
               Choose, Publish
    <2> QED
        BY <2>1 DEF Runs, IInv, Confirmed, Numbered, Analysed
<1> QED
    BY <1>1, Invariance, PTL DEF Spec, ApprovedBeforeExecution

\* Place, state by state.
LEMMA Places ==
    /\ Place("Detect") = 0 /\ Place("CheckDetected") = 1
    /\ Place("ClassifySeverity") = 2 /\ Place("LogMediumLow") = 3
    /\ Place("AnalyzeRootCause") = 3 /\ Place("EvaluateConfidence") = 4
    /\ Place("HandleError") = 4 /\ Place("RequestApproval") = 5
    /\ Place("CheckApprovalResult") = 6 /\ Place("ApprovalTimeout") = 6
    /\ Place("ExecuteApprovedRemediation") = 7 /\ Place("ApprovalRejected") = 7
    /\ Place("ReflectOnResult") = 8 /\ Place("HandleRemediationError") = 8
    /\ Place("CheckReflectionResult") = 9 /\ Place("CheckReplanAttempts") = 10
    /\ Place("UpdateBaselineCheck") = 10 /\ Place("IncrementReplanCount") = 11
    /\ Place("MaxReplansReached") = 11 /\ Place("PublishBaselineUpdateEvent") = 11
    /\ Place("EscalateToHuman") = 12 /\ Place("WorkflowSuccess") = 12
    /\ \A s \in Ends : Place(s) = 13
BY DEF Place, Ends

\* No place is beyond an end's.
LEMMA PlaceBound ==
    ASSUME NEW s \in States
    PROVE  Place(s) \in 0..13 /\ (s \notin Ends => Place(s) < 13)
BY Places DEF States, Tasks, Choices, Ends

\* Where a step leads: further within a cycle, or to the analysis of the next one.
LEMMA StepGoesOn ==
    ASSUME TypeOK, Next
    PROVE  \/ Place(state') > Place(state) /\ replan_count' = replan_count
           \/ /\ state = "IncrementReplanCount" /\ state' = "AnalyzeRootCause"
              /\ replan_count' = replan_count + 1
<1> USE Places DEF Runs, Goto, Choose, document
<1>1. CASE Detect \/ CheckDetected \/ ClassifySeverity
    BY <1>1 DEF Detect, CheckDetected, ClassifySeverity, Ends
<1>2. CASE AnalyzeRootCause \/ EvaluateConfidence \/ ApprovalTimesOut \/ CheckApprovalResult
    BY <1>2 DEF AnalyzeRootCause, EvaluateConfidence, AfterAnalysis, ApprovalTimesOut,
       CheckApprovalResult, Ends
<1>3. CASE ExecuteApprovedRemediation \/ RemediationFails \/ ReflectOnResult
    BY <1>3 DEF ExecuteApprovedRemediation, RemediationFails, ReflectOnResult, Ends
<1>4. CASE CheckReflectionResult \/ UpdateBaselineCheck \/ CheckReplanAttempts
    BY <1>4 DEF CheckReflectionResult, UpdateBaselineCheck, CheckReplanAttempts
<1>5. CASE IncrementReplanCount
    BY <1>5 DEF IncrementReplanCount
<1>6. CASE \/ LogMediumLow \/ PublishBaselineUpdateEvent \/ MaxReplansReached
           \/ EscalateToHuman \/ WorkflowSuccess \/ ApprovalTimeout \/ ApprovalRejected
           \/ HandleError \/ HandleRemediationError
    BY <1>6 DEF Publish, LogMediumLow, PublishBaselineUpdateEvent, MaxReplansReached,
       EscalateToHuman, WorkflowSuccess, ApprovalTimeout, ApprovalRejected, HandleError,
       HandleRemediationError, Ends
<1>7. CASE MissingInput
    <2>1. state \notin Ends /\ state' = "ExecutionFailed" /\ replan_count' = replan_count
        BY <1>7 DEF MissingInput, HasInput, Only, Ends
    <2> QED
        BY <2>1, PlaceBound DEF TypeOK, Ends
<1>8. CASE \E verdict \in BOOLEAN : ApproverAnswers(verdict)
    BY <1>8 DEF ApproverAnswers
<1>9. CASE TaskFails
    <2>1. CASE state \in {"Detect", "AnalyzeRootCause"}
        BY <1>9, <2>1 DEF TaskFails
    <2>2. CASE state \notin {"Detect", "AnalyzeRootCause"}
        <3>1. state \notin Ends /\ state' = "ExecutionFailed" /\ replan_count' = replan_count
            BY <1>9, <2>2 DEF TaskFails, Tasks, Ends
        <3> QED
            BY <3>1, PlaceBound DEF TypeOK, Ends
    <2> QED
        BY <2>1, <2>2
<1> QED
    BY <1>1, <1>2, <1>3, <1>4, <1>5, <1>6, <1>7, <1>8, <1>9 DEF Next, ServiceStep

\* CheckReplanAttempts counts what it lets through, and nothing else leads back: an
\* execution of any of the state machines takes forty steps at most.
THEOREM ExecutionsEnd == Spec => ExecutionsAdvance
<1> DEFINE On == Progress' > Progress /\ Progress' <= 9 * MaxReplans + 13
<1>1. IInv /\ IInv' /\ [Next]_vars => [On]_vars
    <2> SUFFICES ASSUME IInv, IInv', Next PROVE On
        OBVIOUS
    <2>1. /\ Place(state) \in 0..13 /\ Place(state') \in 0..13
          /\ replan_count \in Nat /\ replan_count' \in Nat /\ replan_count' <= 3
        BY PlaceBound DEF IInv, TypeOK, Counted, MaxReplans
    <2>2. CASE Place(state') > Place(state) /\ replan_count' = replan_count
        BY <2>1, <2>2 DEF Progress, MaxReplans
    <2>3. CASE /\ state = "IncrementReplanCount" /\ state' = "AnalyzeRootCause"
               /\ replan_count' = replan_count + 1
        <3>1. Place(state) = 11 /\ Place(state') = 3
            BY <2>3, Places
        <3> QED
            BY <2>1, <2>3, <3>1 DEF Progress, MaxReplans
    <2> QED
        BY <2>2, <2>3, StepGoesOn DEF IInv
<1> QED
    BY <1>1, Invariance, PTL DEF Spec, ExecutionsAdvance

-----------------------------------------------------------------------------
(* The fields of the document that are there at each state.                *)

\* The states before the first analysis, and those behind an analysis.
Detecting == {"CheckDetected", "ClassifySeverity", "LogMediumLow"}
BehindAnalysis == Analysed \cup Remediated
                     \cup {"UpdateBaselineCheck", "PublishBaselineUpdateEvent",
                           "ApprovalTimeout", "ApprovalRejected"}

\* The states that also follow a task without ResultPath.
BehindReply == {"CheckReplanAttempts", "EscalateToHuman", "WorkflowSuccess"}

Kept ==
    /\ state \in Detecting \cup {"Detect"} => replan_count = 0
    /\ state \in Detecting \/ (state = "AnalyzeRootCause" /\ replan_count = 0)
         => "detection" \in keys
    /\ state = "AnalyzeRootCause" /\ replan_count > 0
         => "previous_attempts" \in keys /\ (flow # "bdp" => "detection" \in keys)
    /\ state \in BehindAnalysis => {"detection", "analysis"} \subseteq keys
    /\ state \in BehindReply => keys = {} \/ {"detection", "analysis"} \subseteq keys
    /\ state \in {"CheckApprovalResult", "ExecuteApprovedRemediation"}
         => "approval" \in keys
    /\ state = "ReflectOnResult" => "remediation" \in keys
    /\ state \in {"CheckReflectionResult", "UpdateBaselineCheck"} => "reflection" \in keys
    /\ state = "WorkflowSuccess" => keys = {} \/ "reflection" \in keys
    /\ state = "IncrementReplanCount" => "replan_count" \in keys
    /\ state \in {"HandleError", "HandleRemediationError"} => "error" \in keys
    /\ replan_count > 0 => keys = {} \/ "replan_count" \in keys

LEMMA InitKept == Init => Kept
BY DEF Init, Kept, Detecting, BehindAnalysis, BehindReply, Analysed, Remediated

LEMMA StepKept == TypeOK /\ Kept /\ [Next]_vars => Kept'
<1> SUFFICES ASSUME TypeOK, Kept, [Next]_vars PROVE Kept'
    OBVIOUS
<1>0. replan_count \in Nat
    BY DEF TypeOK
<1> USE <1>0 DEF Kept, Detecting, BehindAnalysis, BehindReply, Analysed, Remediated, Runs,
            Goto, document
<1>1. CASE Detect
    BY <1>1 DEF Detect, Keep
<1>2. CASE CheckDetected \/ ClassifySeverity
    BY <1>2 DEF CheckDetected, ClassifySeverity, Choose, HasInput
<1>3. CASE AnalyzeRootCause
    BY <1>3 DEF AnalyzeRootCause, Keep, HasInput
<1>4. CASE EvaluateConfidence \/ CheckApprovalResult
    BY <1>4 DEF EvaluateConfidence, CheckApprovalResult, Choose, AfterAnalysis
<1>5. CASE ApprovalTimesOut
    BY <1>5 DEF ApprovalTimesOut, Keep
<1>6. CASE ExecuteApprovedRemediation
    BY <1>6 DEF ExecuteApprovedRemediation, Keep
<1>7. CASE RemediationFails
    BY <1>7 DEF RemediationFails, Keep
<1>8. CASE ReflectOnResult
    BY <1>8 DEF ReflectOnResult, Keep
<1>9. CASE CheckReflectionResult \/ UpdateBaselineCheck
    BY <1>9 DEF CheckReflectionResult, UpdateBaselineCheck, Choose
<1>10. CASE CheckReplanAttempts
    BY <1>10 DEF CheckReplanAttempts, Choose, HasInput
<1>11. CASE IncrementReplanCount
    <2>1. flow \in AllFlows
        BY DEF TypeOK
    <2> QED
        BY <1>11, <2>1 DEF IncrementReplanCount, Only, AllFlows
<1>12. CASE \/ LogMediumLow \/ PublishBaselineUpdateEvent \/ MaxReplansReached
            \/ EscalateToHuman \/ WorkflowSuccess \/ ApprovalTimeout \/ ApprovalRejected
            \/ HandleError \/ HandleRemediationError
    BY <1>12 DEF Publish, Replace, LogMediumLow, PublishBaselineUpdateEvent,
       MaxReplansReached, EscalateToHuman, WorkflowSuccess, ApprovalTimeout,
       ApprovalRejected, HandleError, HandleRemediationError
<1>13. CASE MissingInput
    <2>1. state' = "ExecutionFailed" /\ UNCHANGED <<flow, keys, replan_count>>
        BY <1>13 DEF MissingInput
    <2> QED
        BY <2>1
<1>14. CASE \E verdict \in BOOLEAN : ApproverAnswers(verdict)
    BY <1>14 DEF ApproverAnswers, Keep
<1>15. CASE TaskFails
    <2>1. \/ state' = "HandleError" /\ keys' = keys \cup {"error"}
          \/ state' = "ExecutionFailed" /\ keys' = keys
        BY <1>15 DEF TaskFails, Keep
    <2>2. state' = "HandleError" => state \in {"Detect", "AnalyzeRootCause"}
        BY <1>15 DEF TaskFails
    <2>3. UNCHANGED <<flow, replan_count>>
        BY <1>15 DEF TaskFails
    <2> QED
        BY <2>1, <2>2, <2>3
<1>16. CASE UNCHANGED vars
    BY <1>16 DEF vars
<1> QED
    BY <1>1, <1>2, <1>3, <1>4, <1>5, <1>6, <1>7, <1>8, <1>9, <1>10, <1>11, <1>12, <1>13,
       <1>14, <1>15, <1>16 DEF Next, ServiceStep

\* Every ResultPath keeps what later states read, and every replan hands it on, but for
\* the detection of bdp: the three places InputsSurvive names are the only ones where an
\* execution can fail for a missing field, whatever it is started with.
THEOREM InputsAreFound == Spec => []InputsSurvive
<1>1. TypeOK /\ Kept => InputsSurvive
    <2> SUFFICES ASSUME TypeOK, Kept, ~HasInput(state) PROVE InputsSurvive
        BY DEF InputsSurvive
    <2>1. replan_count \in Nat /\ flow \in AllFlows
        BY DEF TypeOK
    <2>2. CASE state \in BehindReply
        BY <2>1, <2>2 DEF InputsSurvive, HasInput, Only, Kept, BehindReply
    <2>3. CASE state = "AnalyzeRootCause"
        BY <2>1, <2>3 DEF InputsSurvive, HasInput, Only, Kept
    <2>4. CASE state \notin BehindReply \cup {"AnalyzeRootCause"}
        BY <2>1, <2>4 DEF HasInput, Only, Kept, Detecting, BehindAnalysis, BehindReply,
           Analysed, Remediated
    <2> QED
        BY <2>2, <2>3, <2>4
<1>2. Init => Kept
    BY InitKept
<1>3. IInv /\ Kept /\ [Next]_vars => Kept'
    BY StepKept DEF IInv
<1>4. IInv => TypeOK
    BY DEF IInv
<1> QED
    BY <1>1, <1>2, <1>3, <1>4, Invariance, PTL DEF Spec

-----------------------------------------------------------------------------
(* The Lambda.  What holds of the results and effects so far while it runs *)
(* is what its answer is made of.                                          *)

Lists ==
    /\ remediations \in Seq(Actions \cup {Invalid})
    /\ results \in Seq(Statuses)
    /\ Len(results) <= Len(remediations)
    /\ done \subseteq 1..Len(results)

\* Result i belongs to action i.
Tracked ==
    \A i \in 1..Len(results) :
        /\ remediations[i] # Invalid
        /\ results[i] = "success" /\ remediations[i].kind \in {"eventbridge_event", "investigate"}
             => i \in done
        /\ results[i] = "pending_approval" => i \notin done

ApprovedOnly == \A i \in done : NeedsApproval(i) => auto_approved

StoredWhole == stored # None => Len(results) = Len(remediations)

\* Nothing is done for an event that process does not take.
Untaken == event # "complete" => done = {}

HandlerInv == Lists /\ Tracked /\ ApprovedOnly /\ StoredWhole /\ Untaken
                /\ AnswersAreReliable

LEMMA InitHandlerInv == HandlerInit => HandlerInv
<1> SUFFICES ASSUME HandlerInit PROVE HandlerInv
    OBVIOUS
<1>1. PICK n \in 0..MaxActions : remediations \in [1..n -> Actions \cup {Invalid}]
    BY DEF HandlerInit
<1>2. n \in Nat
    BY RemediationAssumption DEF RemediationAssumption
<1>3. remediations \in Seq(Actions \cup {Invalid})
    BY <1>1, <1>2
<1> QED
    BY <1>3 DEF HandlerInit, HandlerInv, Lists, Tracked, ApprovedOnly, StoredWhole,
       Untaken, AnswersAreReliable

\* One more result: it is the last one, of the action whose turn it is.
LEMMA OneResultMore ==
    ASSUME Lists, Tracked, ApprovedOnly, NEW action, NEW status \in Statuses,
           Turn(action), action # Invalid,
           UNCHANGED <<remediations, auto_approved, stored, answer>>,
           results' = Append(results, status),
           done' \in {done, done \cup {Index}},
           action.requires_approval => auto_approved \/ done' = done,
           status = "success" /\ action.kind \in {"eventbridge_event", "investigate"}
             => Index \in done',
           status = "pending_approval" => done' = done
    PROVE  Lists' /\ Tracked' /\ ApprovedOnly' /\ Index <= Len(remediations)
<1>1. /\ Index = Len(results) + 1 /\ Index \in Nat /\ Len(results) \in Nat
      /\ Index <= Len(remediations) /\ action = remediations[Index]
    BY DEF Turn, Index, Lists
<1>2. /\ results' \in Seq(Statuses)
      /\ Len(results') = Index
      /\ results'[Index] = status
      /\ \A i \in 1..Len(results) : results'[i] = results[i]
    BY <1>1 DEF Lists
<1>3. Lists'
    BY <1>1, <1>2 DEF Lists
<1>4. Index \notin done
    BY <1>1 DEF Lists
<1>5. Tracked'
    <2> SUFFICES ASSUME NEW i \in 1..Index
                 PROVE  /\ remediations[i] # Invalid
                        /\ results'[i] = "success"
                             /\ remediations[i].kind \in {"eventbridge_event", "investigate"}
                           => i \in done'
                        /\ results'[i] = "pending_approval" => i \notin done'
        BY <1>2 DEF Tracked
    <2>1. CASE i = Index
        BY <2>1, <1>1, <1>2, <1>4
    <2>2. CASE i # Index
        <3>1. i \in 1..Len(results) /\ results'[i] = results[i]
            BY <2>2, <1>1, <1>2
        <3>2. i \in done' <=> i \in done
            BY <2>2
        <3> QED
            BY <3>1, <3>2 DEF Tracked
    <2> QED
        BY <2>1, <2>2
<1>6. ApprovedOnly'
    BY <1>1 DEF ApprovedOnly, NeedsApproval
<1> QED
    BY <1>1, <1>3, <1>5, <1>6

\* What reached AWS, of the actions whose answer is looked at, decides the status.
LEMMA LookedAt ==
    ASSUME NEW action, NEW outcome \in MayBe(action), Succeeds(action, outcome),
           action.kind \in {"eventbridge_event", "investigate"}
    PROVE  outcome = "done"
BY DEF MayBe, Succeeds

LEMMA StepHandlerInv == HandlerInv /\ [HandlerNext]_handler_vars => HandlerInv'
<1> SUFFICES ASSUME HandlerInv, [HandlerNext]_handler_vars PROVE HandlerInv'
    OBVIOUS
<1>0. CASE UNCHANGED handler_vars
    BY <1>0 DEF handler_vars, request, HandlerInv, Lists, Tracked, ApprovedOnly, StoredWhole,
       Untaken, AnswersAreReliable, NeedsApproval
<1>1. CASE HandlerNext
    <2>1. ASSUME NEW action \in Actions, PassOver(action)
          PROVE  HandlerInv'
        <3>1. Lists' /\ Tracked' /\ ApprovedOnly' /\ Index <= Len(remediations)
            <4>1. "pending_approval" \in Statuses /\ done' \in {done, done \cup {Index}}
                BY <2>1 DEF PassOver, Statuses
            <4> QED
                BY <2>1, <4>1, OneResultMore DEF PassOver, HandlerInv, request
        <3>2. StoredWhole' /\ Untaken' /\ AnswersAreReliable'
            BY <2>1, <3>1 DEF PassOver, Turn, Index, HandlerInv, StoredWhole, Lists,
               Untaken, AnswersAreReliable, request
        <3> QED
            BY <3>1, <3>2 DEF HandlerInv
    <2>2. ASSUME NEW action \in Actions, NEW outcome \in Outcomes,
                 Execute(action, outcome)
          PROVE  HandlerInv'
        <3> DEFINE status == IF Succeeds(action, outcome) THEN "success" ELSE "failed"
        <3>1. /\ Turn(action) /\ action # Invalid
              /\ action.requires_approval => auto_approved
              /\ outcome \in MayBe(action)
              /\ results' = Append(results, status)
              /\ done' = IF outcome \in {"done", "lost"} THEN done \cup {Index} ELSE done
              /\ UNCHANGED <<remediations, auto_approved, stored, answer>>
            BY <2>2 DEF Execute, request
        <3>2. status \in Statuses /\ status # "pending_approval"
            BY DEF Statuses
        <3>3. status = "success" /\ action.kind \in {"eventbridge_event", "investigate"}
                => Index \in done'
            BY <3>1, LookedAt
        <3> HIDE DEF status
        <3>4. Lists' /\ Tracked' /\ ApprovedOnly' /\ Index <= Len(remediations)
            BY <3>1, <3>2, <3>3, OneResultMore DEF HandlerInv
        <3>5. StoredWhole' /\ Untaken' /\ AnswersAreReliable'
            BY <2>2, <3>1, <3>4 DEF Execute, Turn, Index, HandlerInv, StoredWhole, Lists,
               Untaken, AnswersAreReliable, request
        <3> QED
            BY <3>4, <3>5 DEF HandlerInv
    <2>3. CASE RefuseInvalid
        <3>1. Index \in DOMAIN remediations /\ remediations[Index] = Invalid
            BY <2>3 DEF RefuseInvalid, Turn, Index, HandlerInv, Lists
        <3>2. \A i \in done : i < Index /\ remediations[i] # Invalid
            BY DEF HandlerInv, Lists, Tracked, Index
        <3>3. AnswersAreReliable'
            BY <2>3, <3>1, <3>2 DEF RefuseInvalid, Answer, AnswersAreReliable, HandlerInv,
               ApprovedOnly, NeedsApproval, request
        <3> QED
            BY <2>3, <3>3 DEF RefuseInvalid, HandlerInv, Lists, Tracked, ApprovedOnly,
               StoredWhole, Untaken, NeedsApproval, request
    <2>4. CASE NoAction \/ OutOfTime
        <3>1. \A i \in done : remediations[i] # Invalid
            BY DEF HandlerInv, Lists, Tracked
        <3>2. AnswersAreReliable'
            BY <2>4, <3>1 DEF NoAction, OutOfTime, Answer, AnswersAreReliable, HandlerInv,
               ApprovedOnly, NeedsApproval, request
        <3>3. UNCHANGED <<remediations, auto_approved, results, done, stored>>
            BY <2>4 DEF NoAction, OutOfTime, request
        <3> QED
            BY <2>4, <3>2, <3>3 DEF NoAction, OutOfTime, request, HandlerInv, Lists, Tracked,
               ApprovedOnly, StoredWhole, Untaken, NeedsApproval
    <2>5. CASE Store
        BY <2>5 DEF Store, HandlerInv, Lists, Tracked, ApprovedOnly, StoredWhole,
           Untaken, AnswersAreReliable, NeedsApproval, request
    <2>6. CASE Reply
        <3>1. Len(results) = Len(remediations) /\ DOMAIN remediations = 1..Len(results)
            BY <2>6 DEF Reply, HandlerInv, StoredWhole, Lists
        <3>2. \A i \in done : remediations[i] # Invalid
            BY DEF HandlerInv, Lists, Tracked
        <3>3. AnswersAreReliable'
            BY <2>6, <3>1, <3>2 DEF Reply, Answer, AnswersAreReliable, HandlerInv,
               Tracked, ApprovedOnly, NeedsApproval, request
        <3> QED
            BY <2>6, <3>3 DEF Reply, HandlerInv, Lists, Tracked, ApprovedOnly,
               StoredWhole, Untaken, NeedsApproval, request
    <2>7. CASE RefuseUnanalysed \/ FailMalformed
        <3>1. /\ answer = None /\ event # "complete"
              /\ answer' \in [code : {400, 500}, status : {"error"}, results : {<<>>}]
              /\ answer'.code = 400 => event = "unanalysed"
              /\ UNCHANGED <<event, remediations, auto_approved, results, done, stored>>
            BY <2>7 DEF RefuseUnanalysed, FailMalformed, Answer, request
        <3>2. done = {}
            BY <3>1 DEF HandlerInv, Untaken
        <3>3. AnswersAreReliable'
            BY <3>1, <3>2 DEF AnswersAreReliable
        <3> QED
            BY <3>1, <3>2, <3>3 DEF HandlerInv, Lists, Tracked, ApprovedOnly, StoredWhole,
               Untaken, NeedsApproval
    <2> QED
        BY <1>1, <2>1, <2>2, <2>3, <2>4, <2>5, <2>6, <2>7 DEF HandlerNext
<1> QED
    BY <1>0, <1>1

-----------------------------------------------------------------------------

\* handle looks at the event before process does anything, and the two answer for the
\* whole list or not at all: its caller can tell from the answer what took place, whatever
\* the event, the list, AWS and the clock do.
THEOREM AnswersTellWhatHappened == HandlerSpec => []AnswersAreReliable
<1>1. HandlerInit => HandlerInv
    BY InitHandlerInv
<1>2. HandlerInv /\ [HandlerNext]_handler_vars => HandlerInv'
    BY StepHandlerInv
<1>3. HandlerInv => AnswersAreReliable
    BY DEF HandlerInv
<1> QED
    BY <1>1, <1>2, <1>3, PTL DEF HandlerSpec

=============================================================================
