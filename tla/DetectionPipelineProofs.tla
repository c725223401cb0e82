------------------------ MODULE DetectionPipelineProofs ------------------------
(***************************************************************************)
(* The safety of DetectionPipeline for any number of runs, retries, posted *)
(* calls and anomalies.  The inductive invariant is TypeOK with three      *)
(* parts: where the DAG stands and which invocations exist (Schedule),     *)
(* what each run has to show for itself (RunsAreFounded), and who holds    *)
(* which request (RequestsAreOwn).  What a step may do to a run rests on   *)
(* it, and on which answer the run waits for (Current).                    *)
(***************************************************************************)
EXTENDS DetectionPipeline, TLAPS

\* Invocations are used in order, so that Invoke never reuses one.
Schedule ==
    /\ task # "idle" => run \in Runs /\ outcome[run] = "none"
    /\ waitsFor # Nobody => task = "detect" /\ waitsFor \in {run} \X Attempts
    /\ \A n \in Runs, k \in Attempts :
           pc[<<n, k>>] # "none" =>
               /\ n <= run
               /\ n = run /\ task = "detect" => k <= attempt
               /\ n = run /\ task = "detect" /\ waitsFor = Nobody => k < attempt

UrgentlyAnswered(i) == answer[i].status = 200 /\ Elements(found[i]) \cap Urgent # {}

RunsAreFounded ==
    /\ \A n \in Runs : taken[n] # Nobody =>
           taken[n] \in {n} \X Attempts /\ pc[taken[n]] = "ended"
    /\ task \in {"check", "start"} => taken[run] # Nobody
    /\ task \in {"detect", "check"} => executions[run] = 0
    /\ task = "start" => executions[run] < attempt /\ UrgentlyAnswered(taken[run])
    /\ \A n \in Runs : n > run => executions[n] = 0 /\ outcome[n] = "none"
    /\ \A n \in Runs : executions[n] > 0 =>
           taken[n] # Nobody /\ UrgentlyAnswered(taken[n])
    /\ \A n \in Runs :
           /\ executions[n] <= Retries + 1
           /\ outcome[n] = "started" => executions[n] > 0
           /\ outcome[n] = "skipped" =>
                  executions[n] = 0 /\ taken[n] # Nobody /\ ~UrgentlyAnswered(taken[n])

Opened(i) == request[i] # "absent" /\ "critical" \in Elements(found[i])

RequestsAreOwn ==
    /\ \A i \in Invocations :
           /\ pc[i] \in {"none", "detect"} => requestId[i] = Nobody
           /\ pc[i] # "ended" => answer[i] = NoAnswer
           /\ pc[i] \in {"hitl", "publish"} => found[i] # <<>>
           /\ pc[i] = "hitl" => "critical" \in Elements(found[i])
           /\ requestId[i] # Nobody => requestId[i] = i /\ Opened(i)
           /\ answer[i].request \in {Nobody, requestId[i]}
    /\ \A a \in alerts :
           /\ pc[a.by] \notin {"none", "detect"}
           /\ a.request # Nobody => a.request = a.by /\ Opened(a.by)

\* The run waits for its current attempt, and has taken no answer before.
Current ==
    /\ waitsFor # Nobody => waitsFor = <<run, attempt>>
    /\ task = "detect" => taken[run] = Nobody
    /\ \A n \in Runs : n > run => taken[n] = Nobody

IInv == TypeOK /\ Schedule /\ RunsAreFounded /\ RequestsAreOwn

-----------------------------------------------------------------------------
(* The invariant follows from the parts.                                   *)

LEMMA InvocationFacts ==
    /\ Nobody \notin Invocations
    /\ \A n \in Runs, k \in Attempts : <<n, k>> \in Invocations /\ <<n, k>> # Nobody
    /\ \A n \in Runs : {n} \X Attempts \subseteq Invocations
BY PipelineAssumption DEF Nobody, Invocations, Runs, Attempts

LEMMA StrongEnough == IInv => NamedRequestsExist /\ OutcomesAreTrue
<1> SUFFICES ASSUME IInv PROVE NamedRequestsExist /\ OutcomesAreTrue
  OBVIOUS
<1>1. NamedRequestsExist
  <2>1. \A i \in Invocations :
            answer[i].request # Nobody => answer[i].request = i /\ Opened(i)
    BY DEF IInv, RequestsAreOwn
  <2> QED
    BY <2>1 DEF IInv, RequestsAreOwn, NamedRequestsExist, Opened
<1>2. OutcomesAreTrue
  BY DEF IInv, RunsAreFounded, OutcomesAreTrue, UrgentlyAnswered
<1> QED
  BY <1>1, <1>2

-----------------------------------------------------------------------------
(* Type correctness.                                                       *)

LEMMA TypesOfFailure ==
    ASSUME TypeOK, FailAttempt
    PROVE  /\ run' \in 0 .. MaxRuns
           /\ task' \in {"idle", "detect", "check", "start"}
           /\ attempt' \in Attempts
           /\ waitsFor' \in Invocations \cup {Nobody}
           /\ taken' \in [Runs -> Invocations \cup {Nobody}]
           /\ outcome' \in [Runs -> {"none", "started", "skipped", "failed"}]
<1>1. attempt <= Retries => attempt + 1 \in Attempts
  BY PipelineAssumption DEF TypeOK, Attempts
<1>2. run' \in 0 .. MaxRuns /\ waitsFor' \in Invocations \cup {Nobody}
  BY DEF TypeOK, FailAttempt
<1>3. taken' \in [Runs -> Invocations \cup {Nobody}]
  BY DEF TypeOK, FailAttempt
<1>4. /\ task' \in {"idle", "detect", "check", "start"}
      /\ attempt' \in Attempts
  BY <1>1 DEF TypeOK, FailAttempt, EndRun, MayRetry
<1>5. outcome' \in [Runs -> {"none", "started", "skipped", "failed"}]
  <2>1. outcome' = outcome \/ outcome' = [outcome EXCEPT ![run] = "failed"]
    BY DEF FailAttempt, EndRun
  <2>2. outcome \in [Runs -> {"none", "started", "skipped", "failed"}]
    BY DEF TypeOK
  <2> QED
    BY <2>1, <2>2
<1> QED
  BY <1>2, <1>3, <1>4, <1>5

LEMMA TypesOfTaking ==
    ASSUME TypeOK, NEW i \in Invocations, TakeAnswer(i)
    PROVE  /\ run' \in 0 .. MaxRuns
           /\ task' \in {"idle", "detect", "check", "start"}
           /\ attempt' \in Attempts
           /\ waitsFor' \in Invocations \cup {Nobody}
           /\ taken' \in [Runs -> Invocations \cup {Nobody}]
           /\ outcome' \in [Runs -> {"none", "started", "skipped", "failed"}]
           /\ executions' \in [Runs -> Nat]
<1>1. taken \in [Runs -> Invocations \cup {Nobody}]
  BY DEF TypeOK
<1>2. CASE waitsFor = i
  <2>1. taken' = [taken EXCEPT ![run] = i]
    BY <1>2 DEF TakeAnswer
  <2>2. taken' \in [Runs -> Invocations \cup {Nobody}]
    BY <1>1, <2>1
  <2> QED
    BY <1>2, <2>2 DEF TypeOK, TakeAnswer
<1>3. CASE waitsFor # i
  BY <1>3 DEF TypeOK, TakeAnswer, dagVars
<1> QED
  BY <1>2, <1>3

LEMMA InitTypes == Init => TypeOK
BY PipelineAssumption
   DEF Init, TypeOK, Attempts, NoAnswer, HITL!Init, HITL!RowStates

LEMMA StepTypes ==
    ASSUME TypeOK, Schedule, RequestsAreOwn, [Next]_vars
    PROVE  TypeOK'
<1> USE PipelineAssumption DEF TypeOK
<1>1. CASE BeginRun
  BY <1>1 DEF BeginRun, invVars, Attempts
<1>2. CASE Invoke
  <2>1. <<run, attempt>> \in Invocations
    BY <1>2, InvocationFacts DEF Invoke, Schedule
  <2> QED
    BY <1>2, <2>1 DEF Invoke, Goto
<1>3. CASE InvokeFails \/ CallTimesOut
  BY <1>3, TypesOfFailure DEF InvokeFails, CallTimesOut, invVars
<1>4. CASE Check
  BY <1>4 DEF Check, EndRun, invVars, Attempts
<1>5. CASE StartExecution
  <2>1. executions' = [executions EXCEPT ![run] = @ + 1]
    BY <1>5 DEF StartExecution, StartOne
  <2>5. executions[run] + 1 \in Nat
    BY <1>5 DEF StartExecution, Schedule
  <2>2. executions' \in [Runs -> Nat]
    BY <2>1, <2>5
  <2>3. outcome' = [outcome EXCEPT ![run] = "started"]
    BY <1>5 DEF StartExecution, EndRun
  <2>4. outcome' \in [Runs -> {"none", "started", "skipped", "failed"}]
    BY <2>3
  <2> QED
    BY <1>5, <2>2, <2>4 DEF StartExecution, EndRun, invVars
<1>6. CASE StartFails
  <2>1. executions' = executions \/ executions' = [executions EXCEPT ![run] = @ + 1]
    BY <1>6 DEF StartFails, StartOne
  <2>3. executions[run] + 1 \in Nat
    BY <1>6 DEF StartFails, Schedule
  <2>2. executions' \in [Runs -> Nat]
    BY <2>1, <2>3
  <2> QED
    BY <1>6, <2>2, TypesOfFailure DEF StartFails, invVars
<1>7. ASSUME NEW i \in Invocations, Post(i)
      PROVE  TypeOK'
  BY <1>7 DEF Post, Goto, dagVars
<1>8. ASSUME NEW i \in Invocations, OpenRequest(i) \/ OpenRaises(i)
      PROVE  TypeOK'
  <2>1. request' = request \/ request' = [request EXCEPT ![i] = "pending"]
    BY <1>8 DEF OpenRequest, OpenRaises, HITL!Open
  <2>7. "pending" \in HITL!RowStates
    BY DEF HITL!RowStates
  <2>2. request' \in [Invocations -> HITL!RowStates]
    <3>1. request \in [Invocations -> HITL!RowStates]
      OBVIOUS
    <3>2. CASE request' = request
      BY <3>1, <3>2
    <3>3. CASE request' = [request EXCEPT ![i] = "pending"]
      BY <3>1, <3>3, <2>7
    <3> QED
      BY <2>1, <3>2, <3>3
  <2>3. \E x \in {i, Nobody} : requestId' = [requestId EXCEPT ![i] = x]
    BY <1>8 DEF OpenRequest, OpenRaises, IdOfFailure
  <2>4. requestId' \in [Invocations -> Invocations \cup {Nobody}]
    BY <2>3
  <2>5. pc' = [pc EXCEPT ![i] = "publish"]
    BY <1>8 DEF OpenRequest, OpenRaises, Goto
  <2>6. pc' \in [Invocations -> {"none", "detect", "hitl", "publish", "reply", "ended"}]
    BY <2>5
  <2> QED
    BY <1>8, <2>2, <2>4, <2>6 DEF OpenRequest, OpenRaises, dagVars
<1>9. ASSUME NEW i \in Invocations, Publish(i)
      PROVE  TypeOK'
  <2>1. found[i] \in Seq(Severities) /\ found[i] # <<>>
    BY <1>9 DEF Publish, RequestsAreOwn
  <2>3. found[i][1] \in Severities
    BY <2>1
  <2>2. Alert(i) \in Alerts
    BY <2>3 DEF Alert, Alerts
  <2> QED
    BY <1>9, <2>2 DEF Publish, Goto, dagVars, Alerts
<1>10. ASSUME NEW i \in Invocations, Reply(i) \/ Raises(i)
       PROVE  TypeOK'
  <2>1. answer' \in [Invocations -> [status : {0, 200, 500},
                                     request : Invocations \cup {Nobody}]]
    <3>1. \E x \in [status : {0, 200, 500}, request : Invocations \cup {Nobody}] :
              answer' = [answer EXCEPT ![i] = x]
      BY <1>10 DEF Reply, Raises
    <3> QED
      BY <3>1
  <2>2. pc' = [pc EXCEPT ![i] = "ended"]
    BY <1>10 DEF Reply, Raises, Goto
  <2>3. pc' \in [Invocations -> {"none", "detect", "hitl", "publish", "reply", "ended"}]
    BY <2>2
  <2>4. TakeAnswer(i) /\ UNCHANGED <<found, requestId, request, alerts>>
    BY <1>10 DEF Reply, Raises
  <2> QED
    BY <2>1, <2>3, <2>4, TypesOfTaking
<1>11. ASSUME NEW i \in Invocations, Dies(i)
       PROVE  TypeOK'
  BY <1>11, TypesOfFailure DEF Dies, Goto, dagVars
<1>12. ASSUME NEW i \in Invocations, NEW batch \in Batches, NEW alerting \in BOOLEAN,
              Detect(i, batch, alerting)
       PROVE  TypeOK'
  BY <1>12 DEF Detect, Goto, dagVars
<1>13. CASE Settle
  <2>1. request' \in [Invocations -> HITL!RowStates]
    BY <1>13 DEF Settle, HITL!Settle, HITL!RowStates, HITL!Settlements
  <2> QED
    BY <1>13, <2>1 DEF Settle, dagVars
<1>14. CASE UNCHANGED vars
  BY <1>14 DEF vars, dagVars, invVars
<1> QED
  BY <1>1, <1>2, <1>3, <1>4, <1>5, <1>6, <1>7, <1>8, <1>9, <1>10, <1>11, <1>12, <1>13,
     <1>14 DEF Next, DagStep

-----------------------------------------------------------------------------
(* Invocations are used once and in order.                                 *)

\* What a failed attempt leaves: the next attempt of the task, or no task.
LEMMA AfterFailure ==
    ASSUME TypeOK, FailAttempt
    PROVE  /\ waitsFor' = Nobody
           /\ run' = run
           /\ taken' = taken
           /\ \/ task' = task /\ attempt' = attempt + 1 /\ outcome' = outcome
                 /\ attempt' \in Attempts
              \/ task' = "idle" /\ attempt' = attempt
                 /\ outcome' = [outcome EXCEPT ![run] = "failed"]
BY PipelineAssumption DEF TypeOK, FailAttempt, EndRun, MayRetry, Attempts

LEMMA InitSchedule == Init => Schedule
BY InvocationFacts DEF Init, Schedule

LEMMA StepSchedule ==
    ASSUME TypeOK, Schedule, RunsAreFounded, [Next]_vars
    PROVE  Schedule'
<1> USE PipelineAssumption
<1>0. /\ attempt \in Nat /\ run \in Nat
      /\ \A k \in Attempts : k \in Nat
      /\ \A n \in Runs : n \in Nat
  BY DEF TypeOK, Attempts, Runs
<1>1. CASE BeginRun
  <2>1. /\ run' = run + 1 /\ task' = "detect" /\ waitsFor' = waitsFor /\ pc' = pc
        /\ outcome' = outcome /\ task = "idle" /\ run < MaxRuns
    BY <1>1 DEF BeginRun, invVars
  <2>2. run' \in Runs
    BY <1>0, <2>1 DEF Runs
  <2>3. outcome'[run'] = "none"
    BY <1>0, <2>1, <2>2 DEF RunsAreFounded
  <2>4. waitsFor' = Nobody
    BY <2>1 DEF Schedule
  <2>5. ASSUME NEW n \in Runs, NEW k \in Attempts, pc'[<<n, k>>] # "none"
        PROVE  n <= run' /\ n # run'
    <3>1. n <= run
      BY <2>1, <2>5 DEF Schedule
    <3> QED
      BY <1>0, <2>1, <3>1
  <2> QED
    BY <2>2, <2>3, <2>4, <2>5 DEF Schedule
<1>2. CASE Invoke
  <2>1. pc' = [pc EXCEPT ![<<run, attempt>>] = "detect"]
    BY <1>2 DEF Invoke, Goto
  <2>2. run \in Runs /\ attempt \in Attempts
    BY <1>2 DEF Invoke, Schedule, TypeOK
  <2>3. ASSUME NEW n \in Runs, NEW k \in Attempts, <<n, k>> # <<run, attempt>>
        PROVE  pc'[<<n, k>>] = pc[<<n, k>>]
    BY <2>1, <2>3, <2>2, InvocationFacts DEF TypeOK
  <2>4. /\ task = "detect" /\ waitsFor = Nobody /\ waitsFor' = <<run, attempt>>
        /\ run' = run /\ task' = task /\ attempt' = attempt /\ outcome' = outcome
    BY <1>2 DEF Invoke
  <2>5. ASSUME NEW n \in Runs, NEW k \in Attempts, pc'[<<n, k>>] # "none"
        PROVE  n <= run /\ (n = run => k <= attempt)
    <3>1. CASE <<n, k>> = <<run, attempt>>
      BY <1>0, <3>1
    <3>2. CASE <<n, k>> # <<run, attempt>>
      BY <1>0, <2>3, <2>4, <2>5, <3>2 DEF Schedule
    <3> QED
      BY <3>1, <3>2
  <2>6. waitsFor' # Nobody /\ waitsFor' \in {run'} \X Attempts
    BY <2>2, <2>4, InvocationFacts
  <2> QED
    BY <2>4, <2>5, <2>6 DEF Schedule
<1>3. CASE InvokeFails \/ CallTimesOut
  <2>1. pc' = pc /\ task = "detect"
    BY <1>3 DEF InvokeFails, CallTimesOut, invVars
  <2> QED
    BY <1>0, <1>3, <2>1, AfterFailure DEF InvokeFails, CallTimesOut, Schedule
<1>4. CASE Check
  BY <1>0, <1>4 DEF Check, EndRun, Schedule, invVars
<1>5. CASE StartExecution
  BY <1>0, <1>5 DEF StartExecution, EndRun, Schedule, invVars
<1>6. CASE StartFails
  <2>1. pc' = pc /\ task = "start"
    BY <1>6 DEF StartFails, invVars
  <2> QED
    BY <1>0, <1>6, <2>1, AfterFailure DEF StartFails, Schedule
<1>7. ASSUME NEW i \in Invocations, Post(i)
      PROVE  Schedule'
  <2>1. \A n \in Runs, k \in Attempts : <<n, k>> # i
    BY <1>7 DEF Post, Runs
  <2>2. \A n \in Runs, k \in Attempts : pc'[<<n, k>>] = pc[<<n, k>>]
    <3>1. pc' = [pc EXCEPT ![i] = "detect"] /\ DOMAIN pc = Invocations
      BY <1>7 DEF Post, Goto, TypeOK
    <3> QED
      BY <2>1, <3>1, InvocationFacts
  <2> QED
    BY <1>7, <2>2 DEF Post, Schedule, dagVars
<1>8. ASSUME NEW i \in Invocations, NEW step, pc[i] # "none",
             pc' = [pc EXCEPT ![i] = step], UNCHANGED dagVars
      PROVE  Schedule'
  BY <1>8, InvocationFacts DEF Schedule, dagVars, TypeOK
<1>9. ASSUME NEW i \in Invocations, Reply(i) \/ Raises(i)
      PROVE  Schedule'
  <2>1. pc' = [pc EXCEPT ![i] = "ended"] /\ pc[i] # "none"
    BY <1>9 DEF Reply, Raises, Goto
  <2>2. CASE waitsFor = i
    <3>1. /\ run' = run /\ outcome' = outcome /\ task' = "check" /\ waitsFor' = Nobody
          /\ task = "detect"
      BY <1>9, <2>2, InvocationFacts DEF Reply, Raises, TakeAnswer, Schedule
    <3> QED
      BY <2>1, <3>1, InvocationFacts DEF Schedule, TypeOK
  <2>3. CASE waitsFor # i
    BY <1>8, <1>9, <2>1, <2>3 DEF Reply, Raises, TakeAnswer
  <2> QED
    BY <2>2, <2>3
<1>10. ASSUME NEW i \in Invocations, Dies(i)
       PROVE  Schedule'
  <2>1. pc' = [pc EXCEPT ![i] = "ended"] /\ pc[i] # "none"
    BY <1>10 DEF Dies, Goto
  <2>2. CASE waitsFor = i
    <3>1. FailAttempt /\ task = "detect"
      BY <1>10, <2>2, InvocationFacts DEF Dies, Schedule
    <3>2. DOMAIN pc = Invocations
      BY DEF TypeOK
    <3>3. \A n \in Runs, k \in Attempts : pc'[<<n, k>>] # "none" => pc[<<n, k>>] # "none"
      BY <2>1, <3>2, InvocationFacts
    <3> QED
      BY <1>0, <3>1, <3>3, AfterFailure DEF Schedule
  <2>3. CASE waitsFor # i
    BY <1>8, <1>10, <2>1, <2>3 DEF Dies
  <2> QED
    BY <2>2, <2>3
<1>11. ASSUME NEW i \in Invocations,
              OpenRequest(i) \/ OpenRaises(i) \/ Publish(i)
                \/ \E batch \in Batches, alerting \in BOOLEAN : Detect(i, batch, alerting)
       PROVE  Schedule'
  BY <1>8, <1>11 DEF OpenRequest, OpenRaises, Publish, Detect, Goto
<1>12. CASE Settle \/ UNCHANGED vars
  BY <1>12 DEF Settle, vars, dagVars, invVars, Schedule
<1> QED
  BY <1>1, <1>2, <1>3, <1>4, <1>5, <1>6, <1>7, <1>9, <1>10, <1>11, <1>12
  DEF Next, DagStep

-----------------------------------------------------------------------------
(* What a run shows for itself.                                            *)

\* Every step but Invoke acts on an invocation that has not ended, and Invoke on one
\* that has not begun: what an answered invocation found and answered stays.
LEMMA EndedIsFinal ==
    ASSUME TypeOK, Schedule, [Next]_vars,
           NEW j \in Invocations, pc[j] = "ended"
    PROVE  /\ pc'[j] = "ended"
           /\ found'[j] = found[j]
           /\ answer'[j] = answer[j]
<1>0. /\ DOMAIN pc = Invocations /\ DOMAIN found = Invocations
      /\ DOMAIN answer = Invocations
  BY DEF TypeOK
<1>1. CASE Invoke
  <2>1. pc' = [pc EXCEPT ![<<run, attempt>>] = "detect"] /\ UNCHANGED <<found, answer>>
    BY <1>1 DEF Invoke, Goto
  <2>2. run \in Runs /\ attempt \in Attempts /\ task = "detect" /\ waitsFor = Nobody
    BY <1>1 DEF Invoke, Schedule, TypeOK
  <2>3. attempt \in Nat
    BY DEF TypeOK, Attempts
  <2>4. ~(attempt < attempt)
    BY <2>3
  <2>5. pc[<<run, attempt>>] = "none"
    BY <2>2, <2>4 DEF Schedule
  <2> QED
    BY <1>0, <2>1, <2>5
<1>2. CASE BeginRun \/ InvokeFails \/ CallTimesOut \/ Check \/ StartExecution \/ StartFails
  BY <1>2 DEF BeginRun, InvokeFails, CallTimesOut, Check, StartExecution, StartFails,
              invVars
<1>3. ASSUME NEW i \in Invocations,
             \/ Post(i) \/ OpenRequest(i) \/ OpenRaises(i) \/ Publish(i)
             \/ Reply(i) \/ Raises(i) \/ Dies(i)
             \/ \E batch \in Batches, alerting \in BOOLEAN : Detect(i, batch, alerting)
      PROVE  /\ pc'[j] = "ended" /\ found'[j] = found[j] /\ answer'[j] = answer[j]
  <2>1. pc[i] # "ended"
    BY <1>3 DEF Post, OpenRequest, OpenRaises, Publish, Reply, Raises, Dies, Detect
  <2>2. \E x : pc' = [pc EXCEPT ![i] = x]
    BY <1>3 DEF Post, OpenRequest, OpenRaises, Publish, Reply, Raises, Dies, Detect, Goto
  <2>3. found' = found \/ \E x : found' = [found EXCEPT ![i] = x]
    BY <1>3 DEF Post, OpenRequest, OpenRaises, Publish, Reply, Raises, Dies, Detect
  <2>4. answer' = answer \/ \E x : answer' = [answer EXCEPT ![i] = x]
    BY <1>3 DEF Post, OpenRequest, OpenRaises, Publish, Reply, Raises, Dies, Detect
  <2> QED
    BY <1>0, <2>1, <2>2, <2>3, <2>4
<1>4. CASE Settle \/ UNCHANGED vars
  BY <1>4 DEF Settle, vars, invVars
<1> QED
  BY <1>1, <1>2, <1>3, <1>4 DEF Next, DagStep

LEMMA InitRuns == Init => RunsAreFounded
BY PipelineAssumption DEF Init, RunsAreFounded, Runs

LEMMA StepRuns ==
    ASSUME TypeOK, Schedule, RunsAreFounded, [Next]_vars
    PROVE  RunsAreFounded'
<1> USE PipelineAssumption, InvocationFacts
<1>0. /\ run \in Nat /\ attempt \in Attempts /\ attempt \in Nat /\ Retries \in Nat
      /\ \A n \in Runs : n \in Nat /\ executions[n] \in Nat
      /\ DOMAIN taken = Runs /\ DOMAIN executions = Runs /\ DOMAIN outcome = Runs
      /\ attempt <= Retries + 1
  BY DEF TypeOK, Attempts, Runs
<1>1. \A j \in Invocations : pc[j] = "ended" =>
          pc'[j] = "ended" /\ found'[j] = found[j] /\ answer'[j] = answer[j]
  BY EndedIsFinal
<1>2. \A n \in Runs : taken[n] # Nobody =>
          /\ taken[n] \in {n} \X Attempts /\ taken[n] \in Invocations
          /\ pc[taken[n]] = "ended"
  BY DEF RunsAreFounded
<1>3. ASSUME taken' = taken,
             task' \in {"check", "start"} => taken[run'] # Nobody,
             task' \in {"detect", "check"} => executions'[run'] = 0,
             task' = "start" => executions'[run'] < attempt'
                                  /\ UrgentlyAnswered(taken[run]) /\ run' = run,
             \A n \in Runs : n > run' => executions'[n] = 0 /\ outcome'[n] = "none",
             \A n \in Runs : executions'[n] > 0 =>
                 taken[n] # Nobody /\ UrgentlyAnswered(taken[n]),
             \A n \in Runs :
                 /\ executions'[n] <= Retries + 1
                 /\ outcome'[n] = "started" => executions'[n] > 0
                 /\ outcome'[n] = "skipped" =>
                      /\ executions'[n] = 0 /\ taken[n] # Nobody
                      /\ ~UrgentlyAnswered(taken[n]),
             task' = "start" => run \in Runs
      PROVE  RunsAreFounded'
  <2>1. ASSUME NEW n \in Runs, taken[n] # Nobody
        PROVE  /\ pc'[taken'[n]] = "ended"
               /\ UrgentlyAnswered(taken[n])' <=> UrgentlyAnswered(taken[n])
    <3>1. /\ pc'[taken'[n]] = "ended"
          /\ found'[taken'[n]] = found[taken[n]]
          /\ answer'[taken'[n]] = answer[taken[n]]
      BY <1>1, <1>2, <1>3, <2>1
    <3> QED
      BY <3>1 DEF UrgentlyAnswered, Elements
  <2>2. run' = run /\ run \in Runs /\ taken[run] # Nobody
          => (UrgentlyAnswered(taken[run])' <=> UrgentlyAnswered(taken[run]))
    BY <2>1
  <2> QED
    BY <1>2, <1>3, <2>1, <2>2 DEF RunsAreFounded
<1>4. CASE UNCHANGED dagVars
  BY <1>3, <1>4 DEF dagVars, RunsAreFounded, Schedule
<1>5. CASE BeginRun
  <2>1. /\ taken' = taken /\ executions' = executions /\ outcome' = outcome
        /\ run' = run + 1 /\ task' = "detect"
    BY <1>5 DEF BeginRun
  <2>2. run' \in Runs /\ run' > run
    BY <1>0, <1>5 DEF BeginRun, Runs
  <2>3. \A n \in Runs : n > run' => n > run
    BY <1>0, <2>1
  <2> QED
    BY <1>3, <2>1, <2>2, <2>3 DEF RunsAreFounded
<1>6. CASE Invoke
  BY <1>3, <1>6 DEF Invoke, RunsAreFounded
<1>7. ASSUME FailAttempt, task = "detect", executions' = executions
      PROVE  RunsAreFounded'
  <2>1. /\ taken' = taken /\ run' = run
        /\ \/ task' = "detect" /\ outcome' = outcome
           \/ task' = "idle" /\ outcome' = [outcome EXCEPT ![run] = "failed"]
    BY <1>7, AfterFailure
  <2>2. \A n \in Runs : outcome'[n] \in {outcome[n], "failed"}
                          /\ (n > run => outcome'[n] = outcome[n])
    BY <1>0, <2>1
  <2> QED
    BY <1>3, <1>7, <2>1, <2>2 DEF RunsAreFounded
<1>8. CASE Check
  <2>1. /\ taken' = taken /\ run' = run /\ executions' = executions
        /\ attempt' = 1 /\ run \in Runs /\ executions[run] = 0 /\ taken[run] # Nobody
    BY <1>8 DEF Check, RunsAreFounded, Schedule
  <2>2. CASE UrgentAnswer(taken[run])
    BY <1>3, <1>8, <2>1, <2>2
    DEF Check, RunsAreFounded, UrgentAnswer, UrgentlyAnswered
  <2>3. CASE ~UrgentAnswer(taken[run])
    <3>1. /\ task' = "idle" /\ outcome' = [outcome EXCEPT ![run] = "skipped"]
      BY <1>8, <2>3 DEF Check, EndRun
    <3>2. \A n \in Runs : n # run => outcome'[n] = outcome[n]
      BY <1>0, <3>1
    <3>3. ~UrgentlyAnswered(taken[run])
      BY <2>3 DEF UrgentAnswer, UrgentlyAnswered
    <3>4. outcome'[run] = "skipped" /\ ~(run > run)
      BY <1>0, <2>1, <3>1
    <3> QED
      BY <1>3, <2>1, <3>1, <3>2, <3>3, <3>4 DEF RunsAreFounded
  <2> QED
    BY <2>2, <2>3
<1>9. ASSUME task = "start", run' = run, taken' = taken, task' \in {"start", "idle"},
             executions' \in {executions, [executions EXCEPT ![run] = @ + 1]},
             task' = "start" => attempt' = attempt + 1 /\ outcome' = outcome,
             task' = "idle" =>
                 \/ outcome' = [outcome EXCEPT ![run] = "failed"]
                 \/ /\ outcome' = [outcome EXCEPT ![run] = "started"]
                    /\ executions' = [executions EXCEPT ![run] = @ + 1]
      PROVE  RunsAreFounded'
  <2>1. /\ run \in Runs /\ outcome[run] = "none" /\ taken[run] # Nobody
        /\ UrgentlyAnswered(taken[run]) /\ executions[run] < attempt
    BY <1>9 DEF Schedule, RunsAreFounded
  <2>2. /\ executions'[run] <= attempt /\ executions'[run] \in Nat
        /\ executions'[run] >= executions[run]
        /\ \A n \in Runs : n # run => executions'[n] = executions[n]
    BY <1>0, <1>9, <2>1
  <2>3. \A n \in Runs : n # run => outcome'[n] = outcome[n]
    BY <1>0, <1>9, <2>1
  <2>4. \/ outcome'[run] \in {"none", "failed"}
        \/ outcome'[run] = "started" /\ executions'[run] > 0
    <3>1. CASE task' = "start"
      <4>1. outcome' = outcome
        BY <1>9, <3>1
      <4>2. outcome'[run] = "none"
        BY <2>1, <4>1
      <4> QED
        BY <4>2
    <3>2. CASE task' = "idle"
      <4>1. CASE outcome' = [outcome EXCEPT ![run] = "failed"]
        <5>1. outcome'[run] = "failed"
          BY <1>0, <2>1, <4>1
        <5> QED
          BY <5>1
      <4>2. CASE /\ outcome' = [outcome EXCEPT ![run] = "started"]
                 /\ executions' = [executions EXCEPT ![run] = @ + 1]
        BY <1>0, <2>1, <4>2
      <4> QED
        BY <1>9, <3>2, <4>1, <4>2
    <3> QED
      BY <1>9, <3>1, <3>2
  <2>5. task' = "start" => executions'[run] < attempt'
    BY <1>0, <1>9, <2>2
  <2>6. executions'[run] <= Retries + 1 /\ ~(run > run)
    BY <1>0, <2>2
  <2> QED
    BY <1>3, <1>9, <2>1, <2>2, <2>3, <2>4, <2>5, <2>6 DEF RunsAreFounded
<1>10. CASE StartExecution
  BY <1>9, <1>10 DEF StartExecution, StartOne, EndRun
<1>11. CASE StartFails
  <2>1. /\ task = "start" /\ FailAttempt
        /\ executions' \in {executions, [executions EXCEPT ![run] = @ + 1]}
    BY <1>11 DEF StartFails, StartOne
  <2> QED
    BY <1>9, <2>1, AfterFailure
<1>12. ASSUME NEW i \in Invocations, Reply(i) \/ Raises(i), waitsFor = i
       PROVE  RunsAreFounded'
  <2>1. /\ taken' = [taken EXCEPT ![run] = i] /\ task' = "check" /\ run' = run
        /\ executions' = executions /\ outcome' = outcome
    BY <1>12 DEF Reply, Raises, TakeAnswer
  <2>2. /\ pc' = [pc EXCEPT ![i] = "ended"] /\ task = "detect"
        /\ i \in {run} \X Attempts /\ run \in Runs /\ outcome[run] = "none"
    BY <1>12 DEF Reply, Raises, Goto, Schedule
  <2>3. pc'[i] = "ended" /\ taken'[run] = i /\ i # Nobody /\ executions[run] = 0
    BY <1>0, <2>1, <2>2 DEF TypeOK, RunsAreFounded
  <2>4. ASSUME NEW n \in Runs, n # run
        PROVE  /\ taken'[n] = taken[n]
               /\ taken[n] # Nobody =>
                      /\ pc'[taken'[n]] = "ended"
                      /\ UrgentlyAnswered(taken[n])' <=> UrgentlyAnswered(taken[n])
    <3>1. taken'[n] = taken[n]
      BY <1>0, <2>1, <2>4
    <3>2. taken[n] # Nobody => /\ pc'[taken'[n]] = "ended"
                               /\ found'[taken'[n]] = found[taken[n]]
                               /\ answer'[taken'[n]] = answer[taken[n]]
      BY <1>1, <1>2, <3>1
    <3> QED
      BY <3>1, <3>2 DEF UrgentlyAnswered, Elements
  <2> QED
    BY <1>0, <1>2, <2>1, <2>2, <2>3, <2>4 DEF RunsAreFounded
<1>13. CASE InvokeFails \/ CallTimesOut
  BY <1>7, <1>13 DEF InvokeFails, CallTimesOut
<1>14. ASSUME NEW i \in Invocations, Dies(i), waitsFor = i
       PROVE  RunsAreFounded'
  BY <1>7, <1>14 DEF Dies, Schedule
<1>15. ASSUME NEW i \in Invocations,
              \/ Post(i) \/ OpenRequest(i) \/ OpenRaises(i) \/ Publish(i)
              \/ \E batch \in Batches, alerting \in BOOLEAN : Detect(i, batch, alerting)
              \/ (Reply(i) \/ Raises(i) \/ Dies(i)) /\ waitsFor # i
       PROVE  RunsAreFounded'
  BY <1>4, <1>15 DEF Post, OpenRequest, OpenRaises, Publish, Detect, Reply, Raises, Dies,
                     TakeAnswer
<1>16. CASE Settle \/ UNCHANGED vars
  BY <1>4, <1>16 DEF Settle, vars
<1> QED
  BY <1>5, <1>6, <1>8, <1>10, <1>11, <1>12, <1>13, <1>14, <1>15, <1>16 DEF Next, DagStep

-----------------------------------------------------------------------------
(* Who holds which request.                                                *)

LEMMA InitRequests == Init => RequestsAreOwn
BY DEF Init, RequestsAreOwn, NoAnswer

LEMMA StepRequests ==
    ASSUME TypeOK, Schedule, RequestsAreOwn, [Next]_vars
    PROVE  RequestsAreOwn'
<1> USE PipelineAssumption, InvocationFacts
<1>0. /\ DOMAIN pc = Invocations /\ DOMAIN found = Invocations
      /\ DOMAIN requestId = Invocations /\ DOMAIN request = Invocations
      /\ DOMAIN answer = Invocations
      /\ \A a \in alerts : a.by \in Invocations
  BY DEF TypeOK, Alerts
<1>1. CASE UNCHANGED invVars
  BY <1>1 DEF invVars, RequestsAreOwn, Opened, Elements
<1>2. ASSUME NEW i \in Invocations, NEW step, pc' = [pc EXCEPT ![i] = step],
             UNCHANGED <<found, requestId, request, alerts, answer>>,
             \/ step = "detect" /\ pc[i] = "none"
             \/ step = "ended"
      PROVE  RequestsAreOwn'
  <2>1. \A j \in Invocations \ {i} : pc'[j] = pc[j]
    BY <1>0, <1>2
  <2>2. pc'[i] = step
    BY <1>0, <1>2
  <2>3. \A a \in alerts : pc'[a.by] \notin {"none", "detect"}
    BY <1>0, <1>2, <2>1, <2>2 DEF RequestsAreOwn
  <2> QED
    BY <1>0, <1>2, <2>1, <2>2, <2>3 DEF RequestsAreOwn, Opened, Elements
<1>3. CASE Invoke
  <2>1. /\ task = "detect" /\ waitsFor = Nobody /\ run \in Runs /\ attempt \in Attempts
    BY <1>3 DEF Invoke, Schedule, TypeOK
  <2>2. ~(attempt < attempt)
    BY DEF TypeOK, Attempts
  <2>3. pc[<<run, attempt>>] = "none"
    BY <2>1, <2>2 DEF Schedule
  <2> QED
    BY <1>2, <1>3, <2>1, <2>3 DEF Invoke, Goto
<1>4. ASSUME NEW i \in Invocations, NEW batch \in Batches, NEW alerting \in BOOLEAN,
             Detect(i, batch, alerting)
      PROVE  RequestsAreOwn'
  <2>1. /\ pc[i] = "detect" /\ requestId[i] = Nobody /\ answer[i] = NoAnswer
        /\ \A a \in alerts : a.by # i
    BY <1>4 DEF Detect, RequestsAreOwn
  <2>2. /\ pc'[i] \in {"reply", "hitl", "publish"}
        /\ pc'[i] = "hitl" => "critical" \in Elements(batch)
        /\ pc'[i] \in {"hitl", "publish"} => batch # <<>>
        /\ found'[i] = batch
    BY <1>0, <1>4 DEF Detect, Goto
  <2>3. \A j \in Invocations \ {i} : pc'[j] = pc[j] /\ found'[j] = found[j]
    BY <1>0, <1>4 DEF Detect, Goto
  <2>4. UNCHANGED <<requestId, request, alerts, answer>>
    BY <1>4 DEF Detect
  <2> QED
    BY <1>0, <2>1, <2>2, <2>3, <2>4 DEF RequestsAreOwn, Opened, Elements
<1>5. ASSUME NEW i \in Invocations, OpenRequest(i) \/ OpenRaises(i)
      PROVE  RequestsAreOwn'
  <2>1. /\ pc[i] = "hitl" /\ "critical" \in Elements(found[i]) /\ answer[i] = NoAnswer
        /\ found[i] # <<>>
    BY <1>5 DEF OpenRequest, OpenRaises, RequestsAreOwn
  <2>2. /\ pc'[i] = "publish"
        /\ \A j \in Invocations \ {i} :
               /\ pc'[j] = pc[j] /\ requestId'[j] = requestId[j]
        /\ UNCHANGED <<found, alerts, answer>>
    BY <1>0, <1>5 DEF OpenRequest, OpenRaises, Goto
  <2>3. \A j \in Invocations : request[j] # "absent" => request'[j] # "absent"
    BY <1>0, <1>5 DEF OpenRequest, OpenRaises, HITL!Open
  <2>4. requestId'[i] # Nobody => requestId'[i] = i /\ request'[i] # "absent"
    BY <1>0, <1>5 DEF OpenRequest, OpenRaises, HITL!Open, IdOfFailure
  <2>5. answer[i].request = Nobody
    BY <2>1 DEF NoAnswer
  <2> QED
    BY <1>0, <2>1, <2>2, <2>3, <2>4, <2>5 DEF RequestsAreOwn, Opened, Elements
<1>6. ASSUME NEW i \in Invocations, Publish(i)
      PROVE  RequestsAreOwn'
  <2>1. /\ pc[i] = "publish" /\ pc' = [pc EXCEPT ![i] = "reply"]
        /\ alerts' \in {alerts, alerts \cup {Alert(i)}}
        /\ UNCHANGED <<found, requestId, request, answer>>
    BY <1>6 DEF Publish, Goto
  <2>2. Alert(i).by = i /\ Alert(i).request = requestId[i]
    BY DEF Alert
  <2>3. \A j \in Invocations \ {i} : pc'[j] = pc[j]
    BY <1>0, <2>1
  <2>4. pc'[i] = "reply"
    BY <1>0, <2>1
  <2>5. \A a \in alerts' : /\ pc'[a.by] \notin {"none", "detect"}
                           /\ a.request # Nobody => a.request = a.by /\ Opened(a.by)
    BY <1>0, <2>1, <2>2, <2>3, <2>4 DEF RequestsAreOwn
  <2>6. \A a \in alerts' : a.request # Nobody =>
            a.request = a.by /\ request'[a.by] # "absent"
              /\ "critical" \in {found'[a.by][k] : k \in DOMAIN found'[a.by]}
    BY <2>1, <2>5 DEF Opened, Elements
  <2> QED
    BY <1>0, <2>1, <2>3, <2>4, <2>5, <2>6 DEF RequestsAreOwn, Opened, Elements
<1>7. ASSUME NEW i \in Invocations, Reply(i) \/ Raises(i)
      PROVE  RequestsAreOwn'
  <2>1. /\ pc' = [pc EXCEPT ![i] = "ended"]
        /\ UNCHANGED <<found, requestId, request, alerts>>
    BY <1>7 DEF Reply, Raises, Goto
  <2>2. answer'[i].request \in {Nobody, requestId[i]}
    BY <1>0, <1>7 DEF Reply, Raises
  <2>3. \A j \in Invocations \ {i} : pc'[j] = pc[j] /\ answer'[j] = answer[j]
    BY <1>0, <1>7, <2>1 DEF Reply, Raises
  <2>4. pc'[i] = "ended"
    BY <1>0, <2>1
  <2>5. \A a \in alerts : pc'[a.by] \notin {"none", "detect"}
    BY <1>0, <2>3, <2>4 DEF RequestsAreOwn
  <2> QED
    BY <1>0, <2>1, <2>2, <2>3, <2>4, <2>5 DEF RequestsAreOwn, Opened, Elements
<1>8. CASE Settle
  <2>1. UNCHANGED <<pc, found, requestId, alerts, answer>>
    BY <1>8 DEF Settle
  <2>2. \A j \in Invocations : request[j] # "absent" => request'[j] # "absent"
    BY <1>0, <1>8 DEF Settle, HITL!Settle
  <2> QED
    BY <1>0, <2>1, <2>2 DEF RequestsAreOwn, Opened, Elements
<1>9. ASSUME NEW i \in Invocations, Post(i) \/ Dies(i)
      PROVE  RequestsAreOwn'
  BY <1>2, <1>9 DEF Post, Dies, Goto
<1>10. CASE BeginRun \/ InvokeFails \/ CallTimesOut \/ Check \/ StartExecution \/ StartFails
  BY <1>1, <1>10 DEF BeginRun, InvokeFails, CallTimesOut, Check, StartExecution, StartFails
<1>11. CASE UNCHANGED vars
  BY <1>1, <1>11 DEF vars
<1> QED
  BY <1>3, <1>4, <1>5, <1>6, <1>7, <1>8, <1>9, <1>10, <1>11 DEF Next, DagStep

-----------------------------------------------------------------------------
(* The theorems.                                                           *)

LEMMA InitInvariant == Init => IInv
BY InitTypes, InitSchedule, InitRuns, InitRequests DEF IInv

LEMMA StepInvariant == IInv /\ [Next]_vars => IInv'
BY StepTypes, StepSchedule, StepRuns, StepRequests DEF IInv

LEMMA Inductive == Spec => []IInv
BY InitInvariant, StepInvariant, PTL DEF Spec

\* The DAG, the invocations, the requests, the alerts and the answers are well typed
\* for any bounds, retries and batches.
THEOREM PipelineTypes == Spec => []TypeOK
<1>1. IInv => TypeOK
  BY DEF IInv
<1> QED
  BY <1>1, Inductive, PTL

\* However many attempts, late invocations and posted calls there are, a request named
\* in an alert or an answer was opened by the invocation that names it.
THEOREM NamedRequests == Spec => []NamedRequestsExist
BY StrongEnough, Inductive, PTL

\* However many runs and retries there are, a run starts executions only for urgent
\* anomalies reported to itself, one per attempt at most, and ends as its outcome says.
THEOREM TrueOutcomes == Spec => []OutcomesAreTrue
BY StrongEnough, Inductive, PTL

-----------------------------------------------------------------------------
(* What a step does to a run.                                              *)

\* The cases of a step, as far as the DAG sees them.
LEMMA DagSteps ==
    ASSUME [Next]_vars
    PROVE  \/ UNCHANGED dagVars
           \/ BeginRun \/ Invoke \/ Check \/ StartExecution \/ StartFails
           \/ InvokeFails \/ CallTimesOut
           \/ waitsFor # Nobody /\ FailAttempt /\ UNCHANGED executions
           \/ \E i \in Invocations : waitsFor = i /\ TakeAnswer(i)
<1>1. ASSUME NEW i \in Invocations, Reply(i) \/ Raises(i)
      PROVE  \/ UNCHANGED dagVars
             \/ waitsFor = i /\ TakeAnswer(i)
  BY <1>1 DEF Reply, Raises, TakeAnswer
<1>2. ASSUME NEW i \in Invocations, Dies(i)
      PROVE  \/ UNCHANGED dagVars
             \/ waitsFor # Nobody /\ FailAttempt /\ UNCHANGED executions
  BY <1>2, InvocationFacts DEF Dies
<1>3. ASSUME NEW i \in Invocations,
             \/ Post(i) \/ OpenRequest(i) \/ OpenRaises(i) \/ Publish(i)
             \/ \E batch \in Batches, alerting \in BOOLEAN : Detect(i, batch, alerting)
      PROVE  UNCHANGED dagVars
  BY <1>3 DEF Post, OpenRequest, OpenRaises, Publish, Detect
<1>4. CASE Settle \/ UNCHANGED vars
  BY <1>4 DEF Settle, vars
<1> QED
  BY <1>1, <1>2, <1>3, <1>4 DEF Next, DagStep

LEMMA InitCurrent == Init => Current
BY DEF Init, Current

LEMMA StepCurrent == IInv /\ Current /\ [Next]_vars => Current'
<1> SUFFICES ASSUME IInv, Current, [Next]_vars PROVE Current'
  OBVIOUS
<1>0. /\ waitsFor # Nobody => task = "detect" /\ run \in Runs
      /\ task = "idle" => waitsFor = Nobody
      /\ taken \in [Runs -> Invocations \cup {Nobody}] /\ run \in Nat
  BY DEF IInv, TypeOK, Schedule
<1>1. CASE UNCHANGED dagVars
  BY <1>1 DEF dagVars, Current
<1>2. CASE BeginRun
  <2>1. waitsFor' = Nobody /\ run' = run + 1 /\ taken' = taken
    BY <1>0, <1>2 DEF BeginRun
  <2>2. run < MaxRuns /\ run \in Nat /\ MaxRuns \in Nat
    BY <1>2, PipelineAssumption DEF BeginRun, PipelineAssumption, IInv, TypeOK
  <2>3. run' \in Runs /\ \A n \in Runs : n > run' => n > run
    BY <2>1, <2>2 DEF Runs
  <2> QED
    BY <2>1, <2>2, <2>3 DEF Current
<1>3. CASE Invoke
  BY <1>3 DEF Invoke, Current
<1>4. CASE Check \/ StartExecution
  <2>1. waitsFor' = Nobody /\ run' = run /\ taken' = taken /\ task' # "detect"
    BY <1>0, <1>4 DEF Check, StartExecution, EndRun
  <2> QED
    BY <2>1 DEF Current
<1>5. CASE FailAttempt
  BY <1>5 DEF FailAttempt, EndRun, Current
<1>6. ASSUME NEW i \in Invocations, waitsFor = i, TakeAnswer(i)
      PROVE  Current'
  <2>1. /\ taken' = [taken EXCEPT ![run] = i] /\ waitsFor' = Nobody /\ run' = run
        /\ task' = "check" /\ run \in Runs
    BY <1>0, <1>6, InvocationFacts DEF TakeAnswer
  <2>2. \A n \in Runs : n > run => taken'[n] = taken[n]
    BY <1>0, <2>1
  <2> QED
    BY <2>1, <2>2 DEF Current
<1> QED
  BY <1>1, <1>2, <1>3, <1>4, <1>5, <1>6, DagSteps DEF StartFails, InvokeFails, CallTimesOut

LEMMA CurrentRun == Spec => [](IInv /\ Current)
BY Inductive, InitCurrent, StepCurrent, PTL DEF Spec

\* A failed attempt disturbs its own run only, which has not ended.
LEMMA FailureIsOwn ==
    ASSUME IInv, FailAttempt, run \in Runs, outcome[run] = "none"
    PROVE  /\ taken' = taken /\ run' = run
           /\ \A n \in Runs : outcome[n] # "none" => outcome'[n] = outcome[n]
<1>1. outcome \in [Runs -> {"none", "started", "skipped", "failed"}]
  BY DEF IInv, TypeOK
<1>2. outcome' \in {outcome, [outcome EXCEPT ![run] = "failed"]}
  BY DEF FailAttempt, EndRun
<1> QED
  BY <1>1, <1>2 DEF FailAttempt

LEMMA StepKeepsEnded ==
    ASSUME IInv, Current, [Next]_vars, NEW n \in Runs
    PROVE  /\ taken'[n] # taken[n] =>
                  /\ n = run /\ task = "detect" /\ taken[n] = Nobody
                  /\ taken'[n] = <<n, attempt>>
           /\ outcome[n] # "none" =>
                  outcome'[n] = outcome[n] /\ executions'[n] = executions[n]
<1>0. /\ task # "idle" => run \in Runs /\ outcome[run] = "none"
      /\ waitsFor # Nobody => task = "detect"
      /\ DOMAIN taken = Runs /\ DOMAIN outcome = Runs /\ DOMAIN executions = Runs
  BY DEF IInv, TypeOK, Schedule
<1>1. CASE UNCHANGED dagVars
  BY <1>1 DEF dagVars
<1>2. CASE BeginRun \/ Invoke
  BY <1>2 DEF BeginRun, Invoke
<1>3. CASE Check
  BY <1>0, <1>3 DEF Check, EndRun
<1>4. CASE StartExecution
  BY <1>0, <1>4 DEF StartExecution, StartOne, EndRun
<1>5. CASE StartFails
  <2>1. /\ task = "start" /\ FailAttempt
        /\ executions' \in {executions, [executions EXCEPT ![run] = @ + 1]}
    BY <1>5 DEF StartFails, StartOne
  <2>2. outcome[n] # "none" => executions'[n] = executions[n]
    BY <1>0, <2>1
  <2> QED
    BY <1>0, <2>1, <2>2, FailureIsOwn
<1>6. CASE InvokeFails \/ CallTimesOut
  BY <1>0, <1>6, FailureIsOwn DEF InvokeFails, CallTimesOut
<1>7. CASE waitsFor # Nobody /\ FailAttempt /\ UNCHANGED executions
  BY <1>0, <1>7, FailureIsOwn
<1>8. ASSUME NEW i \in Invocations, waitsFor = i, TakeAnswer(i)
      PROVE  /\ taken'[n] # taken[n] =>
                    /\ n = run /\ task = "detect" /\ taken[n] = Nobody
                    /\ taken'[n] = <<n, attempt>>
             /\ outcome' = outcome /\ executions' = executions
  <2>1. /\ i # Nobody /\ i = <<run, attempt>> /\ task = "detect" /\ taken[run] = Nobody
        /\ taken' = [taken EXCEPT ![run] = i] /\ outcome' = outcome
        /\ executions' = executions
    BY <1>0, <1>8, InvocationFacts DEF TakeAnswer, Current
  <2> QED
    BY <1>0, <2>1
<1> QED
  BY <1>1, <1>2, <1>3, <1>4, <1>5, <1>6, <1>7, <1>8, DagSteps

\* An invocation that was given up can end, answer or die at any time: only who waits
\* for it notices.
THEOREM LateAnswers == Spec => LateAnswersChangeNothing
<1> DEFINE Kept == \A n \in Runs :
               /\ taken'[n] # taken[n] =>
                      /\ n = run /\ task = "detect" /\ taken[n] = Nobody
                      /\ taken'[n] = <<n, attempt>>
               /\ outcome[n] # "none" =>
                      /\ outcome'[n] = outcome[n]
                      /\ executions'[n] = executions[n]
<1>1. IInv /\ Current /\ [Next]_vars => [Kept]_vars
  BY StepKeepsEnded
<1> QED
  BY <1>1, CurrentRun, PTL DEF Spec, LateAnswersChangeNothing

LEMMA StepAdvances ==
    ASSUME IInv, [Next]_vars, run' = run
    PROVE  /\ dagVars' = dagVars \/ Position' > Position
           /\ Position' <= 3 * Retries + 4
<1>0. /\ Retries \in Nat /\ attempt \in 1 .. Retries + 1
      /\ task \in {"idle", "detect", "check", "start"} /\ run \in Nat
      /\ waitsFor # Nobody => task = "detect"
  BY PipelineAssumption DEF PipelineAssumption, IInv, TypeOK, Schedule, Attempts
<1>1. CASE UNCHANGED dagVars
  BY <1>0, <1>1 DEF dagVars, Position
<1>2. ~BeginRun
  BY <1>0 DEF BeginRun
<1>3. CASE Invoke
  <2>1. <<run, attempt>> # Nobody
    BY <1>0 DEF Nobody
  <2> QED
    BY <1>0, <1>3, <2>1 DEF Invoke, Position
<1>4. CASE Check \/ StartExecution
  BY <1>0, <1>4 DEF Check, StartExecution, EndRun, Position
<1>5. CASE FailAttempt /\ task \in {"detect", "start"}
  <2>1. CASE MayRetry
    BY <1>0, <1>5, <2>1 DEF FailAttempt, MayRetry, Position
  <2>2. CASE ~MayRetry
    BY <1>0, <1>5, <2>2 DEF FailAttempt, MayRetry, EndRun, Position
  <2> QED
    BY <2>1, <2>2
<1>6. ASSUME NEW i \in Invocations, waitsFor = i, TakeAnswer(i)
      PROVE  Position' > Position /\ Position' <= 3 * Retries + 4
  <2>1. waitsFor # Nobody /\ task' = "check" /\ attempt' = attempt
    BY <1>6, InvocationFacts DEF TakeAnswer
  <2> QED
    BY <1>0, <2>1 DEF Position
<1> QED
  BY <1>0, <1>1, <1>2, <1>3, <1>4, <1>5, <1>6, DagSteps
  DEF StartFails, InvokeFails, CallTimesOut

\* The retries of the tasks are counted: each step of the DAG leaves fewer of them.
THEOREM RunsTerminate == Spec => RunsAdvance
<1> DEFINE Advances == run' = run => /\ dagVars' = dagVars \/ Position' > Position
                                     /\ Position' <= 3 * Retries + 4
<1>1. IInv /\ [Next]_vars => [Advances]_vars
  BY StepAdvances
<1> QED
  BY <1>1, Inductive, PTL DEF Spec, RunsAdvance

=============================================================================
