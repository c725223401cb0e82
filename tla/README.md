# A TLA+ model of cd1-agent

cd1-agent watches cloud platforms.  Agents detect anomalies in logs, metrics, costs,
configurations and Kubernetes alerts; a Step Functions workflow analyses them with a
language model, has a human approve the proposed actions, runs them, reflects on the
outcome and plans again; a chat agent does the same in a conversation.  This project
models the parts of it that decide: who may approve what, what is run, who is told.

Paths below are relative to the repository.  `src/src/` holds the Python code,
`src/step_functions/` the workflows, `src/dags/` the Airflow DAGs.

## 1. Inventory

| Component | State | Operations | Hard behaviour | Correct when |
|---|---|---|---|---|
| HITL request API and store (`common/hitl`) | table `hitl_requests` in SQLite or MySQL; one long-lived connection per process | `POST`, `GET`, `PUT`, `DELETE` of requests, list, pending count, the sweep of expired requests | several processes share the table; a check and its UPDATE are two transactions; autocommit is off, so read views and locks outlive calls | a request is settled once, answers are true, a late verdict is refused, lists show live requests, each call returns |
| Remediation workflow (`step_functions/*.asl.json`) | the JSON document handed from state to state | detect, analyse, request approval, remediate, reflect, replan, notify | failures and timeouts at every task, a document that each state extends or replaces | only the current, approved analysis is run; replans are bounded; every execution ends |
| Detection DAGs (`dags`) | runs, tasks and their attempts, kept by Airflow | invoke a detection, branch on its answer, start the workflow | a call that timed out leaves its invocation running; a start whose answer was lost is repeated; an error answer | a run starts the workflow for what was reported to it, says what it did, and ends |
| Cost detection handler (`agents/bdp_cost`) | none between calls | detect, open a HITL request, publish an alert, answer | each of these may fail before or after its effect; the call may be repeated | alerts and answers name requests that exist |
| Remediation handler (`common/handlers`) | none between calls | run a list of actions | some actions fail, are not valid, or need an approval; the answer is all a caller has | the answer says what took place; nothing that needs approval runs without it |
| Chat agent (`common/chat`) | history, `current_state` of a session | `chat`, `stream`, `handle_approval`, `clear_history` | a stream is suspended at each event while anything else runs | an answer decides what was shown; uncertain analyses are reviewed; replies are recorded for their turn |
| LangGraph ReAct agent (`common/agent`) | state of one graph run | think, act, observe, reflect, replan | bound on iterations | it ends with a result |
| HDSP alert monitoring (`agents/hdsp_monitoring`) | deduplication entries, counter of the rate limit, in memory | one call: fetch, check, filter, group, send | time passes in a call; cleanups, limits and failures drop alerts that are already marked | repeats are spaced, the rate is bounded, an alert is in one message |
| Drift baselines (`agents/bdp_drift`) | tables `drift_baselines`, `drift_baseline_history` in an SQLite file; one long-lived connection per process | create, update, delete, rollback | the row is read before the transaction that writes it; a failed call leaves its transaction open; versions over deletion and re-creation | the row is what the last entry of the history says; the history is a chain; what is answered is committed |
| Drift detection (`agents/bdp_drift`) | results of a run | list baselines, read each, fetch, compare, alert | baselines come and go during a run; nested dicts, lists, ignored and one-sided keys | results are exact; no lasting baseline is passed over |
| KakaoTalk notifier (`agents/bdp_common/kakao`) | a pair of tokens per process, and the token file they share | load, send, renew on a 401, save, set up | renewals that overlap, are lost, or are not saved; a rotated token revokes the one before it | a send delivers once; the honoured refresh token is on disk |
| Log, pattern, cost and HDSP anomaly scores | none that matters | score | arithmetic over series | - |
| Publishers, LLM, AWS and RDS clients | connections | calls to remote services | - | - |

**Interaction.**  A DAG invokes a detection Lambda and starts an execution of the workflow,
with a small document, if the answer reports something urgent.  The workflow invokes the
Lambdas and waits for an approver.  Agents that find something
critical open a HITL request over the store, and humans settle it over the REST API that
every agent's server mounts, each scoped to its own agent; the table is what the servers
share.  The drift server keeps its baselines in a file of its own, which scripts (the bulk
import of the guide in `docs/drift_agents`) open as well.  The chat agent and the
monitoring server keep their state in one process and share nothing but, through their
notifiers, the file with the KakaoTalk tokens.

## 2. Modules

| Module | Models | Extends / instances |
|---|---|---|
| `HITLLifecycle` | what the HITL service promises: a request is opened once, settled at most once | |
| `HITLRouter` | the endpoints and the store over a shared database | INSTANCE `HITLLifecycle` WITH its own rows |
| `DetectionPipeline` | the cost DAG, the handler it invokes, and the requests that handler opens | INSTANCE `HITLLifecycle` WITH one request per invocation |
| `RemediationWorkflow` | the four state machines | |
| `ChatAgent` | one session of the chat agent | INSTANCE `HITLLifecycle` WITH the session's approvals |
| `AlertMonitoring` | the HDSP monitoring call and its memory | |
| `BaselineStore` | the baseline of a resource, its history, and the locks of the file | |
| `DriftDetection` | a run of the drift detection and its comparison | |
| `KakaoTokens` | the notifiers of several processes and their token file | |
| `RemediationHandler` | one call of the remediation Lambda | |
| `MC...` | values of the constants, one module for each of the above | the module |
| `...Proofs` | the theorems of each module; `RemediationProofs` has those of the workflow and of the Lambda (whose `HandlerInit`, `HandlerNext` and `HandlerSpec` keep the two apart) | the module or modules, `TLAPS` |

### HITLRouter

A *worker* is a server process.  Its handlers never await between two store calls, so it
runs one call at a time (`pc[w]`, `call[w]`), but the statements of several workers
interleave.  `status` and `expires_at` are the committed columns.  What the code does not
say and the model must: with autocommit off, a SELECT on MySQL opens a read view that
lasts until the worker next commits (`inSnapshot`, `snapshot`), and an UPDATE that matches
no row returns without ending its transaction, so its locks stay (`rowLocks`; on SQLite
any of them is the lock on the file).

`PUT` is `RespondCheck` (existence, scope, status and deadline, read through the worker's
view), `UpdateMatches` or `UpdateMisses` (the UPDATE guarded by `status = 'pending'`), and
`ReadBack` (the row that is returned).  `DELETE` is the same from `CancelCheck`.  A list
is `ListExpire`, `ListRows`, `ListCount`; `ExpireStale` is the sweep.  Each blocked
statement may time out (`StatementTimesOut`); `Crash` ends a worker's transaction and its
call.  The lock rules are those of SQLite and InnoDB, as the code relies on them: they are
marked external in the map.

### RemediationWorkflow

One action per ASL state, named after it; `flow` chooses among the bdp, cost, drift and
hdsp machines, which differ in a few states.  `keys` is the set of fields the document
has: ResultPath adds one (`Keep`), a task without ResultPath replaces the document
(`Replace`), and a path to an absent field ends the execution (`MissingInput`).  The
replies of the Lambdas are nondeterministic, in the form the state machines read.  Retries
of a task are part of the task; what remains is that it fails in the end (`TaskFails`).

### ChatAgent

`running` is the turn that has the thread.  `chat` keeps it until it returns; `stream`
gives it up after each node's event, and `Resume` takes it back.  `current` is what
`current_state` holds, as far as an answer of the user depends on it.  The graph's nodes
are actions of their own, `NextNode` its edges.  The confidence, the wish to replan and the
wish for a review are the language model's: any of them.  `ApprovalStatus` is what the session holds
of each approval it has asked for: the chat keeps the promise of `HITLLifecycle` in memory,
without a deadline, where `HITLRouter` keeps it in a table.

### AlertMonitoring

`Fetch`, one `Check` per alert (`check_and_update`, with the cleanup that it may run, and
`_check_rate_limit`), `Filter` (severity, and the grouping into messages) and one `Send`
per message.  Time passes between any two of these (`Tick`).  An alert brings its start
with it; the cluster is free to fire and resolve alerts, so a fetch returns any set of
them.  `Restart` is a new process with an empty memory.  `told` and `recent` record what
has been sent and let through; the code does not have them.

### BaselineStore

A *worker* is a process that has the SQLite file open: the drift server, or a script.  It
runs one call at a time on one connection.  Every statement of the store names one
resource, so the module follows one; calls on other resources meet it only at the locks of
the file, which calls on this one take as well.

A call is a check (`CreateCheck`, `UpdateCheck`, `RollbackTarget` then `RollbackCheck`,
`DeleteCheck`), which reads the row in a transaction that ends at once; a `Write`, the two
statements on the row and on the history, the first of which takes the file's write lock;
and a `Commit`.  What the check has read travels in `call[w]` and may be stale at the
write.  `db` is committed; `draft` is what the open write transaction sees, and equals `db`
when there is none.

Nothing in the store rolls back, so a call that raises (`InsertRefused`, `WriteFails`,
`CommitFails`) leaves the connection in a transaction (`open`), with the lock it has
reached: none, shared, reserved, or pending after a commit that could not wait out the
readers.  The next call of that process reads and commits what was left.  `Restart` is
where SQLite rolls back.  The rules of the locks are SQLite's and marked external; they
were compared with the store's statements run on SQLite 3.40.  The history's column
`overtaken` and the counter `acked` are not in the code: they record that another process
committed between an entry's read and its write, and how many changes were answered 200.

The endpoints are taken as written, although the server cannot be imported at this commit
(section 5).

### DetectionPipeline

The composition of a DAG (`run`, `task`, `attempt`), the invocations of the cost handler
(`pc`, `found`, `requestId`, `answer`), the requests they open (`request`, which moves as
`HITLLifecycle` says) and the alerts on the bus.  An invocation is named by its run and
attempt, or by its number among the calls of `POST /detect`.  The DAG waits for one
invocation (`waitsFor`); `CallTimesOut` makes it try again while the invocation goes on,
and what an abandoned invocation still does is part of the model.  `OpenRaises`, `Publish`
and `StartFails` each have a disjunct in which the effect took place and the caller does
not know.  That an answered call is a success for Airflow, whatever its statusCode, is the
operator's behaviour (external).

### DriftDetection

`StartAll` and `StartIds` list what to detect, `ReadBaseline` reads one baseline again,
`FetchConfig` fetches, compares and records a result, `Publish` and `NothingFound` end the
run.  `Create` and `Delete` are the API's, at any moment.  The comparison is
`CompareConfigs` with `FieldsAt` for one level; the code recurses to any depth with the
same function at each level, the module to two.  A baseline is read with any
configuration, for `PUT` may have changed it.  The HITL request of a critical drift is
never made (section 5), so there is none.  `compared` and `stable` are not in the code:
they record what a result was computed from, and what has kept its baseline.

### KakaoTokens

`pc[p]` is where a process is in a send: posting, refreshing, writing the file (which is
empty between `OpenFile` and `WriteFile`), posting again.  Kakao's side is `issued`,
`expired` and `rotation`: it honours one refresh token, the last.  Lost answers, refusals,
failed writes and restarts are actions; a second writer of the file leaves either text or
`Garbage`.  `disturbed` is not in the code: it records that a renewal was lost, not saved,
or overlapped another one, after which nobody can promise anything about the file.

### RemediationHandler

One invocation.  `event` is what kind of event it gets: one without an analysis, which is
what the workflow sends (section 5), is answered 400 before anything runs
(`RefuseUnanalysed`), and one that makes the code trip over a field 500 (`FailMalformed`).
Of the others, `Execute`, `PassOver` or `RefuseInvalid` for the action whose turn it is,
then `Store` and `Reply`; `OutOfTime` at any moment.  An action of a kind whose code only
logs (`_restart_lambda` and two more) has no effect.  `done` is not in the code: it records
the actions whose effect took place, `"lost"` meaning that the call raised all the same.

## 3. What is checked

Each run is an entry of PROJECT.json with its configuration.  What a theorem says for all
constants without any help of the runs (types, the two measures of section 4, the refinement
over SQLite) is not repeated in them.

| Run | Shows |
|---|---|
| `hitl_mysql` | two processes over MySQL implement `HITLLifecycle`; a caller who is told 200 is told the final settlement, and is the only one; a verdict is committed only by a call that found the deadline not passed; lists show no dead request and agree with their count; read views are always past states; leftover locks are on settled rows only |
| `hitl_sqlite` | over SQLite, each call returns although leftover locks may never be released |
| `workflow` | only the current, confident, approved analysis is run, and no approval twice; at most four remediations; a new analysis is told of the attempt that failed; a state finds what it reads, but in three places; each execution ends |
| `chat` | an answer decides the request shown last, once; an uncertain analysis is answered without a review only at the limit of rounds; a reply is recorded for its own turn; approvals are asked for once and decided at most once (`HITLLifecycle`); a graph runs at most so many nodes; `chat` returns |
| `alert` | messages on an alert keep the repeat interval; at most twice the limit in any minute; a first notice is not delayed past its wait; the store forgets; a call sends each alert in one message |
| `baseline` | the row and the last entry of the history agree, whoever was overtaken and whatever failed; a baseline is created again only after its deletion; an entry continues the one before it unless its writer was overtaken; every change of the row adds to a history that only grows; what was answered is committed; a rollback installs what was recorded under the version it names; a version names one entry of a life of the baseline unless a change was overtaken |
| `pipeline` | a run of the DAG with its retries, a `POST /detect` beside it: alerts and answers name only requests that their own invocation opened; a run starts the workflow only for what an invocation of its own reported, at most once per attempt, and its outcome says what it did; the answer of an invocation nobody waits for any longer changes nothing; a run ends |
| `drift` | a result reports a drift exactly when there is one, every altered path, and the worst of their severities; no baseline that lasts is passed over |
| `kakao` | a send delivers once at most and says True only for a message that arrived; the refresh token that Kakao honours is on disk unless a renewal was disturbed |
| `remediation` | every answer says what took place, for every list of up to three actions, every kind of event and every way to break off: a 400 or 500 for the event means nothing did |
| `hitl_missing`, `workflow_dag` | what the repository's documentation says and the code does not do (section 5) |

**Bounds.**  HITL: two workers, two requests, one lifetime of one tick, a clock up to 2.
Every race here is between two statements on one row or one lock, so two workers are the
whole of it; two requests let a lock on one row stand beside the other, and let a list and
its count differ; the clock passes the deadline of a request that was created at once.
Workflow: none, the state machines are finite (`MaxReplans` is the code's 3).  Chat: two
turns and two rounds of the graph: `current_state` holds the state of one turn, so two turns
are enough to overwrite it while one of them is suspended, and the second round is where
rounds are counted; the theorems cover any number of turns.
Alerts: one critical and one medium alert of one group, time up to 6 (`Horizon`) with a
repeat interval of 2, so that an entry is stale, is removed and comes back, and a limit of
one in three units, which both alerts reach.  The order of the real intervals (half a
minute, a minute, ten, sixty) plays no role in the proofs, which hold for all.
Baselines: two processes, two configurations, and no call begins on a history of five
entries (`MaxEntries`; a call that has begun still writes, so six occur): a creation, a
deletion, a second life with an update, and a rollback fit, with a change left over by a
failed commit.
Pipeline: one run with one retry of each task (the code's number), and one `POST`: two
attempts are enough for a late invocation beside its successor, and nothing connects two
runs but the number of the run; the batches are none, an urgent one, and a critical
anomaly behind a more confident one.  The theorems hold for any number of runs, retries and
calls.  Drift: two resources, and six configurations that differ in each of the ways the
comparison tells apart (`MCDriftDetection` says how); the theorem is for all.  Kakao: two
processes and a setup tool, four access tokens: a first pair, a renewal of each process and
one more; the theorems are for any number.  Remediation: three actions, so that each way to
break off has an action before it, between, and after it.

**Fairness.**  HITL: a handler that has begun runs on (`WF` of `Continue`), timeouts of
blocked statements included, for nothing in it waits for a caller; callers, the clock and
crashes are not fair.  Workflow: the Step Functions service runs every state it enters,
and its timeout of the approval is its own step; an approver need never answer.  Chat: the
thread runs; the user need not ask for a stream's next event, so only `chat` is claimed to
return.  Pipeline: Airflow goes on with a run that is active (`WF` of `DagStep`) and its
calls time out (`WF` of `CallTimesOut`); nothing is assumed of the handler, which may hang.
AlertMonitoring claims no liveness: the code does not promise that an alert arrives.
Neither does BaselineStore: two idle processes with leftover locks can keep each
other from writing for good (a finding), and neither do the modules of drift, tokens
and remediation.

`CHECK_DEADLOCK FALSE` is set for the workflow, the pipeline and the remediation, where an
execution, the bounded runs, and an invocation end.

## 4. What is proved

Every theorem holds for all values of the constants, under the assumptions named in the
module (`HITLAssumption`, `WorkflowAssumption`, `ChatAssumption`, `AlertAssumption`,
`BaselineAssumption`, `PipelineAssumption`, `DriftAssumption`, `TokensAssumption`,
`RemediationAssumption`), which say no more than what the constants are.

* **HITLRouterProofs.**  Types; the refinement `ImplementsLifecycle`, step by step, with a
  failed or blocked statement as a stutter; from it, that a status only moves forward
  (`PrecedesStep`), hence that read views show the past; `TruthfulReply` by `ReadBackInv`:
  a call that is about to read its row back holds no read view, the row has its verdict,
  nobody has been told, and no other call is at the same row; `NoLateVerdict` by
  `UpdateInv`: the deadline a call has checked is the deadline of the row, which never
  changes.
* **RemediationProofs.**  The workflow's invariant says at which states the current
  analysis is new (`Numbered`), approved (`Confirmed`), or run (`LastRun`), and how many
  remediations the count of replans allows (`Counted`).  None of the properties is inductive
  without the position in the cycle.  `Kept` says which fields are in the document at which
  state; from it, `InputsSurvive`.  `ExecutionsAdvance` is the safety half of
  `ExecutionEnds`: `Progress` (nine for each replan, plus the place in the cycle) grows with
  every step (`StepGoesOn`) and is bounded by `Counted`.  For the Lambda, `HandlerInv` ties
  each result so far to its action and to what was done for it (`Tracked`), says that
  nothing was done that needed an approval the call did not have (`ApprovedOnly`), nor
  anything for an event that is not taken (`Untaken`), and that
  only a whole list is stored (`StoredWhole`): what an answer says is read off these, for
  lists of any length and calls that break off anywhere.
* **ChatAgentProofs.**  `IInv` ties each suspended turn's graph to `current_state`: what is
  pending was shown last (`RequestInv`), what a suspended stream will save is its own
  (`SavedInv`), and only one turn has the thread (`ThreadInv`).  `HistoryInv` adds that a
  turn that is still open has no reply yet (`ClosedInv`).  The refinement of `HITLLifecycle`
  rests on `IInv` too: a request is shown, answered and forgotten in that order, whichever
  of the suspended streams does it.  `GraphsAreShort` bounds the nodes a graph has run by its
  round (`NodesRun`).
* **AlertMonitoringProofs.**  `Settled(a, d)`: after a decision at time d on an alert, the
  store either remembers one at least as late or d is a repeat interval ago.  It holds of
  what was told (`ToldInv`) and of what a slow call still has to send (`OwedInv`), although
  a cleanup may have removed the entry meanwhile: an entry is removed two intervals after
  it was last *seen*, and it is notified only when seen (`SeenInv`).  The grouping shares
  out its alerts by two lemmas about sets.  `StoreForgets` follows from `CleanInv`, which
  relates the entries to the last cleanup.  `RateBounded` needs `RateInv`: what was let
  through since the last reset of the counter is at most the counter, what is left in the
  window from before it at most one limit; the two are disjoint, and a reset moves the
  whole of the first into the second.
* **BaselineStoreProofs.**  `Sound(d)`: row and history agree, creations alternate with
  deletions, and the history is a chain.  It is proved of `draft` as well as of `db`, since a
  later call of the same process commits what a failed one has left.  `Closed` (without a row,
  every creation has a later deletion) is what makes the alternation inductive; `LockInv`
  says that one connection at most has a draft of its own, and `CallInv` that a call about
  to write which nobody has overtaken still has the row it read.  `ChangesAreRecorded` and
  `AnsweredIsCommitted` follow from `DraftInv`: the draft extends the committed history,
  strictly if its row is another or a call is at its commit.  `RollbacksRestore` needs that
  what a rollback carries in its call was an entry of the committed history or of its own
  draft, and is one still when it writes (`Restoring`, with `Traceable` for each call);
  `VersionsNameEntries` counts versions within a life (`Counting`): an entry that was not
  overtaken has the version after its predecessor's.
* **DetectionPipelineProofs.**  `Schedule`: invocations are used in order, so none is
  reused by a later attempt.  `RunsAreFounded`: the executions of the current run are fewer
  than its attempts, and are there only after an urgent answer; an answer that was taken is
  final (`EndedIsFinal`), although other invocations of the run are still at work.
  `RequestsAreOwn`: the identifier an invocation holds is its own request's.
  `LateAnswersChangeNothing` needs `Current`: the invocation waited for is of the current
  run and attempt.  `RunsAdvance`, the safety half of `RunsEnd`: the `Position` of a run
  (its task, then its attempt) grows with every step of the DAG.
* **DriftDetectionProofs.**  `ComparisonIsExact`: the recursive comparison, which walks
  both documents by keys, against what a document says at each path (`Nodes`).  The fields
  of the two levels are related to the altered paths (`MonitoredAre`, `AlteredAre`) and to
  the paths that only one side has (`DiscoveredAre`, `OnlyInOne`).  `StableAreChecked`
  needs that what is still to detect and what has a result cover what has lasted.
* **KakaoTokensProofs.**  `SendInv`: a send that may still post has delivered nothing.
  `SaveInv`: while nothing was disturbed, one process at most has something to save, it is
  the newest, and without one the file has it.

**Model-checked only.**  The four liveness properties (`CallsReturn`, `ExecutionEnds`,
`ChatReturns`, `RunsEnd`): TLAPS does not reason about fairness and ENABLED.  Of the last
three the safety half is proved, a bounded measure that every step of the code takes
further (`ExecutionsAdvance`, `GraphsAreShort`, `RunsAdvance`); fairness is all that is
left to TLC there.  The invariants and action properties of the passing runs are theorems
without exception; `TypeOK`, `ExecutionsAdvance` and `RunsAdvance` are theorems only.

## 5. Where code and documentation differ

PROJECT.json lists each with its lines; those with a run are counterexamples of TLC.

* A worker on MySQL that has served one GET keeps its read view and answers 404 for
  requests that other processes create later (`hitl_missing`).
* An UPDATE that matches nothing keeps SQLite's write lock on an idle process.
* No deployment file selects a database for the HITL store, so the replicas each use their
  own mock.
* The DAGs do not send `previous_attempts` and `replan_count`, which the workflow reads
  (`workflow_dag`); the bdp machine loses the detection at a replan;
  the notification before the escalation replaces the document that the escalation reads.
  The Lambdas reply in an HTTP envelope that the state machines do not open.
* The request that a stream shows cannot be answered when the stream is over, nor at the
  event itself.  At the limit of rounds no review is asked for.
  Reflecting without "concerns" raises, and on a plan that is not JSON the default tool
  fails instead of running.
* The monitoring marks an alert as notified before the rate limit, the filter and the
  channels, so what they drop waits an hour; an unknown `min_severity` does the same to
  all; a medium alert in an urgent group goes to KakaoTalk; the window of five minutes is
  not used.  The fetcher skips every alert that Alertmanager gives a state, since its enum
  has none of Alertmanager's; in the model a fetch returns any alerts, or none.
* A rollback takes the first history entry with the version, also that of a deletion or of
  an earlier life of the baseline.  Of two processes that update, the
  second overwrites the first and may give the same version again.  A failed call of the
  store keeps its locks, and its change may be committed later.  Four endpoints of the drift
  server are shadowed by routes registered before them.
* The drift handler imports `src.common.hitl.models`, which does not exist, and calls
  `create_request`, which the HITL store does not have.
* The remediation handler answers 400 to what the workflow sends it after an approval, and
  400 without results for a list whose later action is not valid; notify and escalate
  answer success for an event that was refused.
* The batch alert has the severity of the most confident anomaly, not the highest.  The DAGs
  take an error answer for "nothing found", so they do not retry; the bdp DAG sends a
  detection type that its handler refuses, and the drift DAG reads fields that its handler
  does not send: neither ever starts a workflow.  The HDSP detector never sees a node that
  is not ready.
* Any error of a fetch, and any resource type without a fetcher, is reported as a critical
  drift of a resource that does not exist; lists are compared as sets of the same length.
* Two processes that renew the KakaoTalk tokens at once may leave the file without a valid
  refresh token: with `Overlaps` taken out of `disturbed`, TLC shows it in `KakaoTokens`.
  A process that found no tokens never looks again.

## 6. What is not modelled

* The mock providers of the HITL store and of the baselines: one process, one call at a
  time.  The baselines' MySQL provider is not implemented in the code.
* What a baseline's columns hold beside version and configuration (description, tags, who
  and when), the comparison of versions, and lists over all baselines: they change nothing
  that is followed here.
* What a Lambda computes, and its HTTP envelope: the workflow is given the replies it
  reads, since with the others nothing would run (a finding).
* What language models and tools answer, beyond the choices that steer the graph; LangGraph
  itself, whose limit of 25 nodes is why `MaxIterations` is at most 5.
* Message texts, reports, prompts, HTML; the statistics of the detectors; the thin clients
  of AWS, RDS, LLM and KakaoTalk.
* The namespace filter of the monitoring (which alerts there are), skewed clocks (an alert
  that starts in the future), and the store's operations that nothing calls.
* The LangGraph ReAct agent of `common/agent`: its nodes simulate their tools with fixed
  results, and its graph ends after three rounds at most.  The analysis handler: one call
  of a model, and two writes whose failures are swallowed.
* The detection handlers of BDP logs and HDSP metrics: each call computes scores of series
  of floating-point numbers and keeps nothing.
* Retries inside the AWS SDKs, which are part of a call that fails or succeeds.
* `layer/python` holds third-party packages for Lambda (354 000 of the repository's lines of
  Python; the system's own are 37 000 in `src/src`); `infra`, `k8s`, `scripts`, `reports`
  are not programs of the system.

## 7. Plan

In the order of what matters most:

1. Done: HITL, workflow, chat, alert monitoring, baselines, the detection pipeline, drift
   detection, KakaoTalk tokens and the remediation Lambda, each with its proofs.
2. The remediation handler in place of the nondeterministic reply of `RemediationWorkflow`:
   worth it once the two agree on what they exchange (section 5).
3. A bound on the steps of a HITL call, as the safety half of `CallsReturn`.
4. `DetectionPipeline` over `RemediationWorkflow`: what several executions for the same
   anomalies do to each other, through the requests they open.
