------------------------------- MODULE ChatAgent -------------------------------
(***************************************************************************)
(* One session of the chat agent (common/chat): the graph that plans, acts,*)
(* observes and reflects until it answers or asks for an approval, and the *)
(* operations of ChatAgent around it.  A turn is one call of chat or of    *)
(* stream; each makes at most one approval request, named after the turn.  *)
(*                                                                         *)
(* The session is one object on one thread.  chat runs its graph without   *)
(* giving up the thread.  stream is a generator: after each node it yields *)
(* an event, and until its consumer asks for the next one, anything else   *)
(* may be called, another turn included.  running is the turn that has the *)
(* thread.  What a language model answers is nondeterministic.             *)
(***************************************************************************)
EXTENDS Naturals, Sequences

CONSTANTS Turns,          \* the turns of the session, at most
          None,           \* no turn
          MaxIterations   \* CHAT_MAX_ITERATIONS

\* LangGraph ends a graph after 25 nodes by default: five rounds of four
\* nodes and an answer fit.
ASSUME ChatAssumption ==
    /\ None \notin Turns
    /\ MaxIterations \in 1 .. 5

VARIABLES call,       \* how a turn was started
          graph,      \* the state of its graph
          running,    \* the turn whose code runs now, or None
          history,    \* conversation_history, each message with its turn
          current,    \* current_state: whose response and whose request it has
          shown,      \* the request the user was shown last
          answers     \* what the user has decided on a request

vars == <<call, graph, running, history, current, shown, answers>>

Nodes == {"plan", "act", "observe", "reflect", "human_review", "respond"}
Statuses == {"APPROVED", "REJECTED", "MODIFIED"}

\* last is the node that has run last; request is pending_approval.
InitialState == [last |-> "start", iteration |-> 0, low |-> FALSE, replan |-> FALSE,
                 review |-> FALSE, request |-> FALSE, response |-> "none"]
NoState == [response |-> None, pending |-> None]

Init ==
    /\ call = [t \in Turns |-> "none"]
    /\ graph = [t \in Turns |-> InitialState]
    /\ running = None
    /\ history = <<>>
    /\ current = NoState
    /\ shown = None
    /\ answers = [t \in Turns |-> "none"]

GraphStates == [last : Nodes \cup {"start", "closed"}, iteration : 0 .. MaxIterations,
                low : BOOLEAN, replan : BOOLEAN, review : BOOLEAN, request : BOOLEAN,
                response : {"none", "answer", "approval"}]

TypeOK ==
    /\ call \in [Turns -> {"none", "chat", "stream"}]
    /\ graph \in [Turns -> GraphStates]
    /\ running \in Turns \cup {None}
    /\ history \in Seq([role : {"USER", "ASSISTANT"}, turn : Turns,
                        content : Turns \cup {"input", "error"}])
    /\ current \in [response : Turns \cup {None}, pending : Turns \cup {None}]
    /\ shown \in Turns \cup {None}
    /\ answers \in [Turns -> Statuses \cup {"none"}]

-----------------------------------------------------------------------------
(* Starting a turn.                                                        *)

Says(role, t, content) ==
    history' = Append(history, [role |-> role, turn |-> t, content |-> content])

\* The first part of chat and of stream, up to the graph.
Begin(t, c) ==
    /\ running = None
    /\ call[t] = "none"
    /\ call' = [call EXCEPT ![t] = c]
    /\ running' = t
    /\ Says("USER", t, "input")
    /\ UNCHANGED <<graph, current, shown, answers>>

Chat(t) == Begin(t, "chat")
Stream(t) == Begin(t, "stream")

-----------------------------------------------------------------------------
(* The graph.  A node of a stream gives the thread up: stream yields.      *)

\* Mutant: confidence in the plan is enough to answer.
RouteToAnswer(g) ==
    IF g.iteration >= MaxIterations THEN "respond"
    ELSE IF g.replan THEN "plan"
    ELSE IF g.review /\ ~g.low THEN "human_review"
    ELSE "respond"

\* _route_after_reflect
RouteAfterReflect(g) ==
    IF g.iteration >= MaxIterations THEN "respond"
    ELSE IF g.replan THEN "plan"
    ELSE IF g.review THEN "human_review"
    ELSE "respond"

\* The edges of the graph.
NextNode(g) ==
    IF g.last = "reflect" THEN RouteAfterReflect(g)
    ELSE [start |-> "plan", plan |-> "act", act |-> "observe", observe |-> "reflect",
          human_review |-> "respond", respond |-> "END", closed |-> "END"][g.last]

\* Node n of turn t runs and g is the state after it.
Run(t, n, g) ==
    /\ running = t
    /\ NextNode(graph[t]) = n
    /\ graph' = [graph EXCEPT ![t] = g]
    /\ running' = IF call[t] = "stream" THEN None ELSE t
    /\ UNCHANGED <<call, history, current, answers>>

\* Mutant: a plan does not count.
PlanWithoutCount(t) ==
    /\ Run(t, "plan", [graph[t] EXCEPT !.last = "plan", !.iteration = IF @ = 0 THEN 1 ELSE @])
    /\ UNCHANGED shown

\* The node's failures are caught and replaced by a default plan.
Plan(t) ==
    /\ Run(t, "plan", [graph[t] EXCEPT !.last = "plan", !.iteration = @ + 1])
    /\ UNCHANGED shown

Act(t) ==
    /\ Run(t, "act", [graph[t] EXCEPT !.last = "act"])
    /\ UNCHANGED shown

Observe(t) ==
    /\ Run(t, "observe", [graph[t] EXCEPT !.last = "observe"])
    /\ UNCHANGED shown

\* low: the confidence is below the threshold.  A model that cannot be reached
\* asks for a review.
Reflect(t, low, replan, review) ==
    /\ Run(t, "reflect",
           [graph[t] EXCEPT !.last = "reflect", !.low = low,
                            !.replan = replan /\ graph[t].iteration < MaxIterations,
                            !.review = review \/ low])
    /\ UNCHANGED shown

\* The stream's event carries the request.
HumanReview(t) ==
    /\ Run(t, "human_review", [graph[t] EXCEPT !.last = "human_review", !.request = TRUE])
    /\ shown' = IF call[t] = "stream" THEN t ELSE shown

\* The response to a request asks the user to decide it.
Respond(t) ==
    /\ Run(t, "respond",
           [graph[t] EXCEPT !.last = "respond",
                            !.response = IF graph[t].request THEN "approval" ELSE "answer"])
    /\ shown' = IF call[t] = "stream" /\ graph[t].request THEN t ELSE shown

-----------------------------------------------------------------------------
(* What chat and stream do with the graph's state.                         *)

\* current_state after the whole state of the graph, as chat saves it.
WholeState(t) == [response |-> t, pending |-> IF graph[t].request THEN t ELSE None]

\* Mutant: an update without a request keeps the old one.
UpdateThatKeeps(t) ==
    [response |-> IF graph[t].last = "respond" THEN t ELSE None,
     pending |-> IF graph[t].last = "human_review" THEN t ELSE current.pending]

\* current_state after the fields one node has updated, as stream saves it.
Update(t) ==
    [response |-> IF graph[t].last = "respond" THEN t ELSE None,
     pending |-> IF graph[t].last = "human_review" THEN t ELSE None]

Close(t) ==
    /\ running' = None
    /\ graph' = [graph EXCEPT ![t].last = "closed"]

\* chat's graph has ended: the response is recorded and returned.
AnswerChat(t) ==
    /\ running = t
    /\ call[t] = "chat"
    /\ graph[t].last = "respond"
    /\ Says("ASSISTANT", t, t)
    /\ current' = WholeState(t)
    /\ shown' = IF graph[t].request THEN t ELSE shown
    /\ Close(t)
    /\ UNCHANGED <<call, answers>>

\* Mutant: the last update is taken as saved already.
ResumeUnsaved(t) ==
    /\ running = None
    /\ call[t] = "stream"
    /\ graph[t].last \in Nodes
    /\ running' = t
    /\ current' = IF graph[t].last = "respond" /\ current.response # None
                    THEN current ELSE Update(t)
    /\ UNCHANGED <<call, graph, history, shown, answers>>

\* The consumer asks for the next event.  Only now the last update is saved.
Resume(t) ==
    /\ running = None
    /\ call[t] = "stream"
    /\ graph[t].last \in Nodes
    /\ running' = t
    /\ current' = Update(t)
    /\ UNCHANGED <<call, graph, history, shown, answers>>

\* stream's graph has ended: whatever response was saved is recorded.
AnswerStream(t) ==
    /\ running = t
    /\ call[t] = "stream"
    /\ graph[t].last = "respond"
    /\ IF current.response # None
         THEN Says("ASSISTANT", t, current.response)
         ELSE UNCHANGED history
    /\ Close(t)
    /\ UNCHANGED <<call, current, shown, answers>>

\* A plan that names no list of tools, or a reflection without concerns, raises.
\* chat replies with the error, stream yields it; neither saves anything.
Fail(t) ==
    /\ running = t
    /\ NextNode(graph[t]) \in {"act", "reflect"}
    /\ IF call[t] = "chat" THEN Says("ASSISTANT", t, "error") ELSE UNCHANGED history
    /\ Close(t)
    /\ UNCHANGED <<call, current, shown, answers>>

-----------------------------------------------------------------------------
(* The user's other calls.                                                 *)

\* Mutant: an answered request stays in current_state.
ApprovalThatStays(status) ==
    /\ running = None
    /\ current.pending # None
    /\ answers' = [answers EXCEPT ![current.pending] = status]
    /\ UNCHANGED <<call, graph, running, history, current, shown>>

\* handle_approval; without a pending request it only says so.
HandleApproval(status) ==
    /\ running = None
    /\ current.pending # None
    /\ answers' = [answers EXCEPT ![current.pending] = status]
    /\ current' = [current EXCEPT !.pending = None]
    /\ UNCHANGED <<call, graph, running, history, shown>>

ClearHistory ==
    /\ running = None
    /\ history' = <<>>
    /\ current' = NoState
    /\ UNCHANGED <<call, graph, running, shown, answers>>

-----------------------------------------------------------------------------
\* The code that has the thread.
Runs(t) ==
    \/ Plan(t) \/ Act(t) \/ Observe(t)
    \/ \E low, replan, review \in BOOLEAN : Reflect(t, low, replan, review)
    \/ HumanReview(t) \/ Respond(t)
    \/ AnswerChat(t) \/ AnswerStream(t) \/ Fail(t)

Next ==
    \/ \E t \in Turns : Chat(t) \/ Stream(t) \/ Resume(t) \/ Runs(t)
    \/ \E status \in Statuses : HandleApproval(status)
    \/ ClearHistory

Spec == Init /\ [][Next]_vars

\* The thread runs; the user need not call anything or ask for events.
FairSpec == Spec /\ \A t \in Turns : WF_vars(Runs(t))

-----------------------------------------------------------------------------
\* Whenever the user can answer, the request that the answer decides is the
\* one the user was shown last, in an event or in a reply, and is undecided:
\* current_state, overwritten after each event of every stream, never offers a
\* request the user has not seen, has decided or has been shown another after.
AnswersDecideWhatIsShown ==
    running = None /\ current.pending # None =>
        /\ current.pending = shown
        /\ answers[current.pending] = "none"

\* An analysis whose confidence is below the threshold, or for which a review
\* was asked, is answered without a request for approval only when the rounds
\* of the graph are used up.
UncertainIsReviewed ==
    \A t \in Turns :
        graph[t].response = "answer" /\ (graph[t].low \/ graph[t].review) =>
            graph[t].iteration >= MaxIterations

\* An assistant message of the history is the response, or the error, of the
\* turn it was appended for, whatever turns ran in between, and comes after
\* that turn's input unless the history was cleared meanwhile; no turn is
\* answered twice.
RepliesAreOwn ==
    \A i \in 1 .. Len(history) :
        history[i].role = "ASSISTANT" =>
            /\ history[i].content \in {history[i].turn, "error"}
            /\ \A j \in i + 1 .. Len(history) : history[j].turn # history[i].turn

\* What HITLLifecycle calls the status of a turn's approval request; a request that
\* the user modifies is approved.
ApprovalStatus(t) ==
    IF answers[t] = "none" THEN IF graph[t].request THEN "pending" ELSE "absent"
    ELSE IF answers[t] = "REJECTED" THEN "rejected" ELSE "approved"

Approvals == INSTANCE HITLLifecycle
             WITH Requests <- Turns, status <- [t \in Turns |-> ApprovalStatus(t)]

\* The chat keeps the promise of the approval service, with nothing but current_state
\* to keep its requests in: a turn opens its request once, a call settles one request
\* at most, only one that is open, and never one that has been settled before.
ApprovalsKeepLifecycle == Approvals!Spec

\* How many nodes of its graph a turn has run.
NodesRun(g) ==
    IF g.last = "start" THEN 0
    ELSE 4 * (g.iteration - 1)
           + [plan |-> 1, act |-> 2, observe |-> 3, reflect |-> 4, human_review |-> 5,
              respond |-> IF g.request THEN 6 ELSE 5][g.last]

\* Each node brings the graph nearer to its end, in whatever order reflections ask for
\* plans and reviews: a turn runs four nodes in each of its rounds, one for a request
\* and one for the response.  Five rounds, 22 nodes, keep within the 25 after which
\* LangGraph gives a graph up (agent.py:94-158).
GraphsAreShort ==
    [][\A t \in Turns : graph'[t] # graph[t] /\ graph'[t].last # "closed" =>
           /\ NodesRun(graph'[t]) = NodesRun(graph[t]) + 1
           /\ NodesRun(graph'[t]) <= 4 * MaxIterations + 2]_vars

\* chat returns: the rounds of replanning are bounded.
ChatReturns ==
    \A t \in Turns : call[t] = "chat" ~> graph[t].last = "closed"

=============================================================================
