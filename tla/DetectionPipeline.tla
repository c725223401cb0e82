--------------------------- MODULE DetectionPipeline ---------------------------
(***************************************************************************)
(* The cost detection from end to end: the Airflow DAG                     *)
(* (dags/bdp_cost_detection_dag.py) invokes the Lambda BDPCostHandler      *)
(* (agents/bdp_cost/handler.py), which opens a HITL request and publishes  *)
(* an alert, and the DAG starts the remediation workflow if the answer     *)
(* reports urgent anomalies.  People invoke the same handler by POST       *)
(* /detect.  Requests live as HITLLifecycle says.                          *)
(*                                                                         *)
(* One run of the DAG is active at a time (max_active_runs=1) and each of  *)
(* its tasks is tried 1 + Retries times, so a run may invoke the handler   *)
(* several times: a caller whose call timed out cannot stop what it        *)
(* started.  An invocation is named by its run and attempt; run 0 stands   *)
(* for POST /detect.                                                       *)
(***************************************************************************)
EXTENDS Naturals, Sequences

CONSTANTS Retries,      \* default_args["retries"]
          MaxRuns,      \* bound of the runs of the DAG
          MaxPosts,     \* bound of the calls of POST /detect
          Batches,      \* what a detection may find: the severities of its
                        \* anomalies, the most confident anomaly first
          Verdicts      \* the ways requests get settled in

Severities == {"critical", "high", "medium", "low"}

ASSUME PipelineAssumption ==
    /\ Retries \in Nat
    /\ MaxRuns \in Nat
    /\ MaxPosts \in Nat
    /\ Batches \subseteq Seq(Severities)
    /\ Verdicts \subseteq {"approved", "rejected", "cancelled", "expired"}

Runs        == 1 .. MaxRuns
Attempts    == 1 .. Retries + 1
Invocations == (Runs \X Attempts) \cup ({0} \X (1 .. MaxPosts))
Nobody      == <<0, 0>>      \* no invocation, no request

VARIABLES run,          \* the number of the last run that began
          task,         \* the task the run is at, "idle" between two runs
          attempt,      \* the attempt of that task
          waitsFor,     \* the invocation whose answer the detect task awaits
          taken,        \* per run, the invocation whose answer it took (XCom)
          executions,   \* per run, the executions of the workflow it started
          outcome,      \* per run, how it ended
          pc,           \* where an invocation of the handler stands
          found,        \* the anomalies it found
          requestId,    \* the hitl_request_id it holds
          request,      \* per invocation, the state of the request it opened
          alerts,       \* the alerts on the event bus
          answer        \* what the handler answered

dagVars == <<run, task, attempt, waitsFor, taken, executions, outcome>>
invVars == <<pc, found, requestId, request, alerts, answer>>
vars    == <<dagVars, invVars>>

\* The HITL service: one request per invocation at most, named like it.
HITL == INSTANCE HITLLifecycle WITH Requests <- Invocations, status <- request

\* The elements of a sequence.
Elements(s) == {s[k] : k \in DOMAIN s}

Urgent == {"critical", "high"}

NoAnswer == [status |-> 0, request |-> Nobody]
Alerts   == [by : Invocations, level : Severities, request : Invocations \cup {Nobody}]

TypeOK ==
    /\ run \in 0 .. MaxRuns
    /\ task \in {"idle", "detect", "check", "start"}
    /\ attempt \in Attempts
    /\ waitsFor \in Invocations \cup {Nobody}
    /\ taken \in [Runs -> Invocations \cup {Nobody}]
    /\ executions \in [Runs -> Nat]
    /\ outcome \in [Runs -> {"none", "started", "skipped", "failed"}]
    /\ pc \in [Invocations -> {"none", "detect", "hitl", "publish", "reply", "ended"}]
    /\ found \in [Invocations -> Seq(Severities)]
    /\ requestId \in [Invocations -> Invocations \cup {Nobody}]
    /\ request \in [Invocations -> HITL!RowStates]
    /\ alerts \subseteq Alerts
    /\ answer \in [Invocations -> [status : {0, 200, 500},
                                   request : Invocations \cup {Nobody}]]

Init ==
    /\ run = 0
    /\ task = "idle"
    /\ attempt = 1
    /\ waitsFor = Nobody
    /\ taken = [n \in Runs |-> Nobody]
    /\ executions = [n \in Runs |-> 0]
    /\ outcome = [n \in Runs |-> "none"]
    /\ pc = [i \in Invocations |-> "none"]
    /\ found = [i \in Invocations |-> <<>>]
    /\ requestId = [i \in Invocations |-> Nobody]
    /\ HITL!Init
    /\ alerts = {}
    /\ answer = [i \in Invocations |-> NoAnswer]

-----------------------------------------------------------------------------
(* The handler: BDPCostHandler.handle and process.                         *)

Goto(i, step) == pc' = [pc EXCEPT ![i] = step]

\* The detect task takes the answer of the invocation it waits for, whatever its
\* status code: for the operator an answered call is a success.
TakeAnswer(i) ==
    IF waitsFor = i
    THEN /\ taken' = [taken EXCEPT ![run] = i]
         /\ waitsFor' = Nobody
         /\ task' = "check"
         /\ UNCHANGED <<run, attempt, executions, outcome>>
    ELSE UNCHANGED dagVars

\* Cost data fetched, anomalies found and filtered; `alerting` is publish_alerts, and
\* BDP_HITL_ON_CRITICAL is on, as it is by default.
Detect(i, batch, alerting) ==
    /\ pc[i] = "detect"
    /\ i[1] # 0 => alerting
    /\ found' = [found EXCEPT ![i] = batch]
    /\ Goto(i, IF batch = <<>> \/ ~alerting THEN "reply"
               ELSE IF "critical" \in Elements(batch) THEN "hitl" ELSE "publish")
    /\ UNCHANGED <<dagVars, requestId, request, alerts, answer>>

\* Mutant: the identifier is made before the INSERT and kept when it fails.
RequestIdOfFailure(i) == i

\* _create_hitl_request returns None when anything in it raised.
IdOfFailure(i) == Nobody

\* hitl_store.create committed and answered.
OpenRequest(i) ==
    /\ pc[i] = "hitl"
    /\ HITL!Open(i)
    /\ requestId' = [requestId EXCEPT ![i] = i]
    /\ Goto(i, "publish")
    /\ UNCHANGED <<dagVars, found, alerts, answer>>

\* hitl_store.create raised: before its commit, or after it.
OpenRaises(i) ==
    /\ pc[i] = "hitl"
    /\ HITL!Open(i) \/ UNCHANGED request
    /\ requestId' = [requestId EXCEPT ![i] = IdOfFailure(i)]
    /\ Goto(i, "publish")
    /\ UNCHANGED <<dagVars, found, alerts, answer>>

\* publish_batch_alert: the level is that of the most confident anomaly.  Its result is
\* ignored; an event that was refused or whose reply was lost looks the same.
Alert(i) == [by |-> i, level |-> found[i][1], request |-> requestId[i]]

Publish(i) ==
    /\ pc[i] = "publish"
    /\ alerts' \in {alerts, alerts \cup {Alert(i)}}
    /\ Goto(i, "reply")
    /\ UNCHANGED <<dagVars, found, requestId, request, answer>>

\* The result, answered with 200.
Reply(i) ==
    /\ pc[i] = "reply"
    /\ answer' = [answer EXCEPT ![i] = [status |-> 200, request |-> requestId[i]]]
    /\ Goto(i, "ended")
    /\ TakeAnswer(i)
    /\ UNCHANGED <<found, requestId, request, alerts>>

\* The cost data cannot be had, or building the result raises: answered with 500.
Raises(i) ==
    /\ pc[i] \in {"detect", "reply"}
    /\ answer' = [answer EXCEPT ![i] = [status |-> 500, request |-> Nobody]]
    /\ Goto(i, "ended")
    /\ TakeAnswer(i)
    /\ UNCHANGED <<found, requestId, request, alerts>>

\* POST /detect.
Post(i) ==
    /\ i[1] = 0
    /\ pc[i] = "none"
    /\ Goto(i, "detect")
    /\ UNCHANGED <<dagVars, found, requestId, request, alerts, answer>>

-----------------------------------------------------------------------------
(* The DAG.                                                                *)

EndRun(how) ==
    /\ outcome' = [outcome EXCEPT ![run] = how]
    /\ task' = "idle"

MayRetry == attempt <= Retries

\* Mutant: who gave up still takes the answer when it comes.
FailureStillWaiting ==
    /\ UNCHANGED waitsFor
    /\ IF MayRetry
       THEN /\ attempt' = attempt + 1
            /\ UNCHANGED <<task, outcome>>
       ELSE /\ EndRun("failed")
            /\ UNCHANGED attempt
    /\ UNCHANGED <<run, taken>>

\* An attempt has failed: the next one of the same task, or the end of the run.
FailAttempt ==
    /\ waitsFor' = Nobody
    /\ IF MayRetry
       THEN /\ attempt' = attempt + 1
            /\ UNCHANGED <<task, outcome>>
       ELSE /\ EndRun("failed")
            /\ UNCHANGED attempt
    /\ UNCHANGED <<run, taken>>

BeginRun ==
    /\ task = "idle"
    /\ run < MaxRuns
    /\ run' = run + 1
    /\ task' = "detect"
    /\ attempt' = 1
    /\ UNCHANGED <<waitsFor, taken, executions, outcome, invVars>>

\* detect_cost_anomalies: LambdaInvokeFunctionOperator.
Invoke ==
    /\ task = "detect"
    /\ waitsFor = Nobody
    /\ waitsFor' = <<run, attempt>>
    /\ Goto(<<run, attempt>>, "detect")
    /\ UNCHANGED <<run, task, attempt, taken, executions, outcome,
                   found, requestId, request, alerts, answer>>

\* The call could not be made.
InvokeFails ==
    /\ task = "detect"
    /\ waitsFor = Nobody
    /\ FailAttempt
    /\ UNCHANGED <<executions, invVars>>

\* Mutant: the operator has no read timeout.
WaitForever == FALSE

\* The operator's read timeout, or the death of its worker: the invocation goes on.
CallTimesOut ==
    /\ task = "detect"
    /\ waitsFor # Nobody
    /\ FailAttempt
    /\ UNCHANGED <<executions, invVars>>

\* The function runs out of time or memory: a FunctionError for who waits for it.
Dies(i) ==
    /\ pc[i] \notin {"none", "ended"}
    /\ Goto(i, "ended")
    /\ IF waitsFor = i THEN FailAttempt /\ UNCHANGED executions
                       ELSE UNCHANGED dagVars
    /\ UNCHANGED <<found, requestId, request, alerts, answer>>

\* Mutant: an error answer carries the anomalies found before the error.
ReportedAnyway(i) == Elements(found[i]) \cap Urgent # {}

\* check_cost_anomalies_found: an error answer has no "data", which counts as nothing
\* found.
UrgentAnswer(i) == answer[i].status = 200 /\ Elements(found[i]) \cap Urgent # {}

Check ==
    /\ task = "check"
    /\ IF UrgentAnswer(taken[run])
       THEN task' = "start" /\ UNCHANGED outcome
       ELSE EndRun("skipped")
    /\ attempt' = 1
    /\ UNCHANGED <<run, waitsFor, taken, executions, invVars>>

StartOne == executions' = [executions EXCEPT ![run] = @ + 1]

\* start_cost_workflow: StartExecution without a name.
StartExecution ==
    /\ task = "start"
    /\ StartOne
    /\ EndRun("started")
    /\ UNCHANGED <<run, attempt, waitsFor, taken, invVars>>

\* StartExecution fails, or its answer is lost.
StartFails ==
    /\ task = "start"
    /\ StartOne \/ UNCHANGED executions
    /\ FailAttempt
    /\ UNCHANGED invVars

-----------------------------------------------------------------------------
(* People answer requests, and requests expire.                            *)

Settle ==
    /\ \E i \in Invocations, s \in Verdicts : HITL!Settle(i, s)
    /\ UNCHANGED <<dagVars, pc, found, requestId, alerts, answer>>

DagStep == Invoke \/ InvokeFails \/ Check \/ StartExecution \/ StartFails

Next ==
    \/ BeginRun \/ CallTimesOut \/ DagStep
    \/ \E i \in Invocations :
           \/ Post(i) \/ OpenRequest(i) \/ OpenRaises(i) \/ Publish(i)
           \/ Reply(i) \/ Raises(i) \/ Dies(i)
           \/ \E batch \in Batches, alerting \in BOOLEAN : Detect(i, batch, alerting)
    \/ Settle

Spec == Init /\ [][Next]_vars

\* Airflow goes on with the active run, and a call times out.  Nothing is assumed of
\* the handler, of who answers requests, or of the schedule.
FairSpec == Spec /\ WF_vars(DagStep) /\ WF_vars(CallTimesOut)

-----------------------------------------------------------------------------
(* Properties                                                              *)

\* An alert or an answer that names a request names one that this very invocation has
\* opened, for a critical anomaly it found: not one whose creation failed, nor one of
\* an earlier attempt or of a call at the same time (handler.py:150-160, 267-276).
NamedRequestsExist ==
    LET Opened(i) == request[i] # "absent" /\ "critical" \in Elements(found[i])
    IN  /\ \A a \in alerts : a.request # Nobody => a.request = a.by /\ Opened(a.by)
        /\ \A i \in Invocations :
               answer[i].request # Nobody => answer[i].request = i /\ Opened(i)

\* What a run says of itself is true in spite of retries and lost answers: executions
\* are started only for urgent anomalies which an invocation of the same run reported,
\* one per attempt at most; a run that ended well started one; a skipped run started
\* none, and took an answer that was an error or reported nothing urgent
\* (bdp_cost_detection_dag.py:20-44, 78-88).
OutcomesAreTrue ==
    \A n \in Runs :
        /\ executions[n] > 0 => /\ taken[n] \in {n} \X Attempts
                                /\ answer[taken[n]].status = 200
                                /\ Elements(found[taken[n]]) \cap Urgent # {}
        /\ executions[n] <= Retries + 1
        /\ outcome[n] = "started" => executions[n] > 0
        /\ outcome[n] = "skipped" =>
               /\ executions[n] = 0
               /\ taken[n] \in {n} \X Attempts
               /\ \/ answer[taken[n]].status # 200
                  \/ Elements(found[taken[n]]) \cap Urgent = {}

\* The invocations that were given up go on, and answer when they may: a run takes an
\* answer once, of the invocation of its current attempt, and a run that has ended
\* stays as it is, whatever answers later and whichever run has begun since
\* (bdp_cost_detection_dag.py:19-26, 59-68).
LateAnswersChangeNothing ==
    [][\A n \in Runs :
          /\ taken'[n] # taken[n] =>
                 /\ n = run /\ task = "detect" /\ taken[n] = Nobody
                 /\ taken'[n] = <<n, attempt>>
          /\ outcome[n] # "none" =>
                 /\ outcome'[n] = outcome[n]
                 /\ executions'[n] = executions[n]]_vars

\* How far the run is: attempts made and awaited, the check, attempts to start.
Position ==
    IF task = "idle" THEN 3 * Retries + 4
    ELSE IF task = "start" THEN 2 * Retries + 2 + attempt
    ELSE IF task = "check" THEN 2 * Retries + 2
    ELSE 2 * (attempt - 1) + (IF waitsFor = Nobody THEN 0 ELSE 1)

\* Every step of the DAG brings its run on, and nothing the invocations do sets it
\* back: 3 * Retries + 4 steps after its beginning, at most, it has ended
\* (bdp_cost_detection_dag.py:19-26).
RunsAdvance ==
    [][run' = run => /\ dagVars' = dagVars \/ Position' > Position
                     /\ Position' <= 3 * Retries + 4]_vars

\* A run does not block the schedule for ever: whatever becomes of its invocations and
\* its calls, the run ends (default_args, bdp_cost_detection_dag.py:19-26).
RunsEnd == \A n \in Runs : (run = n /\ task # "idle") ~> (outcome[n] # "none")

=============================================================================
