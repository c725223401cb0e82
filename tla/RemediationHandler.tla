-------------------------- MODULE RemediationHandler --------------------------
(***************************************************************************)
(* The remediation Lambda (common/handlers/remediation_handler.py, with    *)
(* BaseHandler.handle around it): it runs the actions of a list one after  *)
(* another and answers what became of each.  The event may not be one it   *)
(* takes, an action may be refused or fail, its answer may be lost, a      *)
(* later one may not validate, and the Lambda may run out of time between  *)
(* any two.                                                                *)
(*                                                                         *)
(* Kinds stand for the action types: eventbridge_event; notify, which      *)
(* stands for escalate too; investigate; and lambda_restart, which stands  *)
(* for rds_parameter and auto_scaling too: these only log what they would  *)
(* do.                                                                     *)
(*                                                                         *)
(* The specification is named HandlerSpec, so that it can stand in one     *)
(* module with the workflow's Spec.                                        *)
(***************************************************************************)
EXTENDS Naturals, Sequences

CONSTANTS MaxActions,  \* the longest list of actions
          None         \* no answer, nothing stored

Kinds == {"eventbridge_event", "notify", "investigate", "lambda_restart"}

\* What a list may hold; lambda_restart may lack a parameter, and an Invalid
\* one does not validate as a RemediationAction.
Actions ==
  {a \in [kind : Kinds, requires_approval : BOOLEAN, complete : BOOLEAN] :
     a.complete \/ a.kind = "lambda_restart"}
Invalid == [kind |-> "invalid"]

\* What handle makes of the event: "complete", it has what process reads;
\* "unanalysed", analysis_result is missing or empty, as in what the workflow
\* sends, which has its actions in a field of its own; "malformed", detail,
\* analysis_result or anomaly_data is not an object, or remediations a number.
Events == {"complete", "unanalysed", "malformed"}

Outcomes == {"done", "refused", "raised", "lost", "logged"}
Statuses == {"success", "failed", "pending_approval"}

ASSUME RemediationAssumption == MaxActions \in Nat

VARIABLES event,          \* what kind of event it is
          remediations,   \* the actions of the event, wherever it has them
          auto_approved,  \* whether they were approved
          results,        \* the statuses so far, one per action
          done,           \* the actions whose effect took place
          stored,         \* the results in DynamoDB, <<>> when it did not take them
          answer          \* what the caller gets

request == <<event, remediations, auto_approved>>
handler_vars == <<request, results, done, stored, answer>>

HandlerInit ==
  /\ event \in Events
  /\ remediations \in UNION {[1..n -> Actions \cup {Invalid}] : n \in 0..MaxActions}
  /\ auto_approved \in BOOLEAN
  /\ results = <<>>
  /\ done = {}
  /\ stored = None
  /\ answer = None

-----------------------------------------------------------------------------
(* One action.                                                             *)

Index == Len(results) + 1

\* Mutant: the event is looked at when its actions have run.
TurnUnchecked(action) ==
  /\ answer = None
  /\ Index <= Len(remediations)
  /\ action = remediations[Index]

\* The action whose turn it is.
Turn(action) ==
  /\ answer = None
  /\ event = "complete"
  /\ Index <= Len(remediations)
  /\ action = remediations[Index]

\* What can come of an action: AWS does it, refuses it in its reply, raises,
\* or raises though it was done.  DynamoDB does not refuse, and
\* lambda_restart calls nothing.
MayBe(action) ==
  IF action.kind = "lambda_restart" THEN {"logged"}
  ELSE IF action.kind = "investigate" THEN {"done", "raised", "lost"}
  ELSE {"done", "refused", "raised", "lost"}

\* Mutant: what EventBridge refuses is not looked at.
SucceedsUnchecked(action, outcome) ==
  outcome \in {"done", "refused"} \/ (outcome = "logged" /\ action.complete)

\* _execute_action: an exception is a failure; a refusal is one only for
\* eventbridge_event.
Succeeds(action, outcome) ==
  \/ outcome = "done"
  \/ outcome = "refused" /\ action.kind = "notify"
  \/ outcome = "logged" /\ action.complete

Execute(action, outcome) ==
  /\ Turn(action)
  /\ action # Invalid
  /\ ~action.requires_approval \/ auto_approved
  /\ outcome \in MayBe(action)
  /\ results' = Append(results, IF Succeeds(action, outcome)
                                   THEN "success" ELSE "failed")
  /\ done' = IF outcome \in {"done", "lost"} THEN done \cup {Index} ELSE done
  /\ UNCHANGED <<request, stored, answer>>

\* An action that needs an approval is passed over; the list goes on.
PassOver(action) ==
  /\ Turn(action)
  /\ action # Invalid
  /\ action.requires_approval /\ ~auto_approved
  /\ results' = Append(results, "pending_approval")
  /\ UNCHANGED <<request, done, stored, answer>>

-----------------------------------------------------------------------------
(* The answer.                                                             *)

Answer(code, status, of) == answer' = [code |-> code, status |-> status, results |-> of]

\* _validate_input asks for analysis_result, with detail as an object.
RefuseUnanalysed ==
  /\ answer = None
  /\ event = "unanalysed"
  /\ Answer(400, "error", <<>>)
  /\ UNCHANGED <<request, results, done, stored>>

\* Any other exception than a ValueError: _validate_input, or process before its
\* loop, reads a field of what is not an object, or a number is looped over.  What
\* an action raises is caught.
FailMalformed ==
  /\ answer = None
  /\ event = "malformed"
  /\ Answer(500, "error", <<>>)
  /\ UNCHANGED <<request, results, done, stored>>

\* model_validate raises a ValueError: handle answers 400, without results.
RefuseInvalid ==
  /\ Turn(Invalid)
  /\ Answer(400, "error", <<>>)
  /\ UNCHANGED <<request, results, done, stored>>

Some(status) == \E i \in DOMAIN results : results[i] = status

OverallStatus ==
  IF \A i \in DOMAIN results : results[i] = "success" THEN "success"
  ELSE IF Some("success") THEN "partial_success"
  ELSE IF Some("pending_approval") THEN "pending_approval"
  ELSE "failed"

NoAction ==
  /\ answer = None
  /\ event = "complete"
  /\ remediations = <<>>
  /\ Answer(200, "no_action", <<>>)
  /\ UNCHANGED <<request, results, done, stored>>

\* _store_remediation_results: what DynamoDB does not take is only logged.
Store ==
  /\ answer = None /\ stored = None
  /\ remediations # <<>>
  /\ Len(results) = Len(remediations)
  /\ stored' \in {results, <<>>}
  /\ UNCHANGED <<request, results, done, answer>>

Reply ==
  /\ answer = None /\ stored # None
  /\ Answer(200, OverallStatus, results)
  /\ UNCHANGED <<request, results, done, stored>>

\* The Lambda runs out of time.
OutOfTime ==
  /\ answer = None
  /\ Answer(504, "error", <<>>)
  /\ UNCHANGED <<request, results, done, stored>>

HandlerNext ==
  \/ \E action \in Actions :
       PassOver(action) \/ \E outcome \in Outcomes : Execute(action, outcome)
  \/ RefuseUnanalysed \/ FailMalformed \/ RefuseInvalid \/ NoAction \/ Store \/ Reply \/ OutOfTime

HandlerSpec == HandlerInit /\ [][HandlerNext]_handler_vars

-----------------------------------------------------------------------------
NeedsApproval(i) == remediations[i].requires_approval

\* The caller can rely on what it is answered, though the list is carried out
\* one by one and may break off anywhere.  Results are answered for every action
\* of a list that is valid throughout: a success of an action whose reply is
\* looked at took place, and what was passed over did not.  A 400 says that
\* nothing took place, the event being without an analysis, or only actions that
\* precede an invalid one of the list; a 500, that nothing did.  Nothing that
\* needs an approval ever took place without one (remediation_handler.py:31-97,
\* base_handler.py:119-144).
AnswersAreReliable ==
  answer # None =>
    /\ \A i \in done : remediations[i] # Invalid /\ (NeedsApproval(i) => auto_approved)
    /\ answer.code = 200 /\ answer.status # "no_action" =>
         \A i \in DOMAIN remediations :
           /\ remediations[i] # Invalid
           /\ answer.results[i] = "success"
                /\ remediations[i].kind \in {"eventbridge_event", "investigate"}
              => i \in done
           /\ answer.results[i] = "pending_approval" => i \notin done
    /\ answer.code = 400 =>
         \/ event = "unanalysed" /\ done = {}
         \/ \E j \in DOMAIN remediations :
              remediations[j] = Invalid /\ \A i \in done : i < j
    /\ answer.code = 500 => done = {}

=============================================================================
