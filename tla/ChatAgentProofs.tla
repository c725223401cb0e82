---------------------------- MODULE ChatAgentProofs ----------------------------
(***************************************************************************)
(* The safety properties of ChatAgent for any set of turns.  The inductive *)
(* invariant adds to them when a turn can have a request, and which turn   *)
(* current_state may have it from: the running stream may have saved a     *)
(* request that its next event will show again.                            *)
(***************************************************************************)
EXTENDS ChatAgent, TLAPS

\* What a turn has reflected and requested, by the node it ran last.
GraphInv ==
    \A t \in Turns :
        /\ graph[t].last = "human_review" => graph[t].request
        /\ graph[t].request => graph[t].last \in {"human_review", "respond", "closed"}
        /\ graph[t].low => graph[t].review
        /\ graph[t].last = "start" => graph[t].iteration = 0
        /\ graph[t].last \notin {"respond", "closed"} => graph[t].response = "none"

\* A request that is decided, or that current_state has.
RequestInv ==
    /\ \A t \in Turns :
           answers[t] # "none" =>
               /\ graph[t].request
               /\ \/ call[t] = "chat" /\ graph[t].last = "closed"
                  \/ call[t] = "stream" /\ graph[t].last \in {"respond", "closed"}
    /\ current.pending # None =>
           /\ answers[current.pending] = "none"
           /\ graph[current.pending].request
           /\ \/ /\ current.pending = shown
                 /\ \/ call[shown] = "chat" /\ graph[shown].last = "closed"
                    \/ call[shown] = "stream" /\ graph[shown].last \in {"respond", "closed"}
              \/ /\ current.pending = running
                 /\ call[running] = "stream"
                 /\ graph[running].last = "human_review"

\* A stream that runs has saved what its last node updated.
SavedInv ==
    running # None /\ call[running] = "stream" /\ graph[running].last \in Nodes =>
        current.pending = IF graph[running].last = "human_review" THEN running ELSE None

\* Only a stream is suspended in the middle of its graph.
ThreadInv ==
    \A t \in Turns :
        /\ call[t] = "chat" /\ graph[t].last # "closed" => running = t
        /\ call[t] = "none" => graph[t].last = "start" /\ running # t

IInv == TypeOK /\ GraphInv /\ RequestInv /\ SavedInv /\ ThreadInv /\ UncertainIsReviewed

LEMMA InitIInv == Init => IInv
<1> SUFFICES ASSUME Init PROVE IInv
  OBVIOUS
<1> USE DEF Init, InitialState, NoState
<1>1. InitialState \in GraphStates
  BY ChatAssumption DEF GraphStates
<1>2. TypeOK
  <2>1. graph \in [Turns -> GraphStates]
    BY <1>1
  <2> QED
    BY <2>1 DEF TypeOK
<1>3. GraphInv /\ RequestInv /\ SavedInv /\ ThreadInv /\ UncertainIsReviewed
  BY ChatAssumption DEF GraphInv, RequestInv, SavedInv, ThreadInv, UncertainIsReviewed
<1> QED
  BY <1>2, <1>3 DEF IInv

\* Recording a message keeps the type of the history.
LEMMA SaysType ==
    ASSUME TypeOK, NEW role \in {"USER", "ASSISTANT"}, NEW t \in Turns,
           NEW content \in Turns \cup {"input", "error"}, Says(role, t, content)
    PROVE  history' \in Seq([role : {"USER", "ASSISTANT"}, turn : Turns,
                             content : Turns \cup {"input", "error"}])
  BY DEF TypeOK, Says

\* A node changes only its own turn's state; what the invariant needs of the
\* state it leaves.
LEMMA NodeKeepsIInv ==
    ASSUME IInv, NEW t \in Turns, NEW n \in Nodes, NEW g \in GraphStates,
           Run(t, n, g),
           g.last = n,
           n = "human_review" => g.request,
           g.request => n \in {"human_review", "respond"},
           graph[t].request => g.request,
           g.low => g.review,
           n # "respond" => g.response = "none",
           g.response = "answer" /\ (g.low \/ g.review) => g.iteration >= MaxIterations,
           \/ shown' = shown /\ (n = "respond" /\ call[t] = "stream" => ~g.request)
           \/ shown' = t /\ call[t] = "stream" /\ n \in {"human_review", "respond"} /\ g.request
    PROVE  IInv'
<1>1. /\ call' = call /\ history' = history /\ current' = current /\ answers' = answers
      /\ graph'[t] = g
      /\ \A u \in Turns : u # t => graph'[u] = graph[u]
      /\ graph' \in [Turns -> GraphStates]
      /\ running = t /\ NextNode(graph[t]) = n
      /\ running' = IF call[t] = "stream" THEN None ELSE t
  BY DEF Run, IInv, TypeOK
<1>2. TypeOK'
  BY <1>1 DEF IInv, TypeOK
<1>3. GraphInv'
  BY <1>1 DEF IInv, GraphInv, Nodes
<1>4. graph[t].last \notin {"respond", "closed"}
  BY <1>1 DEF NextNode, Nodes
<1>5. RequestInv'
  <2>1. current.pending # None /\ call[t] = "stream" =>
            \/ graph[t].last = "human_review" /\ current.pending = t
            \/ graph[t].last = "start"
    BY <1>1, <1>4, ChatAssumption DEF IInv, SavedInv, TypeOK, GraphStates
  <2>2. graph[t].last = "start" => n = "plan"
    BY <1>1 DEF NextNode
  <2>3. \A u \in Turns : answers'[u] # "none" =>
               /\ graph'[u].request
               /\ \/ call'[u] = "chat" /\ graph'[u].last = "closed"
                  \/ call'[u] = "stream" /\ graph'[u].last \in {"respond", "closed"}
    BY <1>1, <1>4 DEF IInv, RequestInv
  <2>4. ASSUME current'.pending # None
        PROVE  /\ answers'[current'.pending] = "none"
               /\ graph'[current'.pending].request
               /\ \/ /\ current'.pending = shown'
                     /\ \/ call'[shown'] = "chat" /\ graph'[shown'].last = "closed"
                        \/ call'[shown'] = "stream"
                           /\ graph'[shown'].last \in {"respond", "closed"}
                  \/ /\ current'.pending = running'
                     /\ call'[running'] = "stream"
                     /\ graph'[running'].last = "human_review"
    <3>1. current.pending \in Turns
      BY <1>1, <2>4 DEF IInv, TypeOK
    <3>2. CASE call[t] = "stream" /\ graph[t].last = "human_review"
      <4>1. n = "respond" /\ current.pending = t /\ graph[t].request
        BY <1>1, <2>1, <2>4, <3>2 DEF NextNode, IInv, GraphInv
      <4> QED
        BY <1>1, <4>1, <3>2, <2>4 DEF IInv, RequestInv
    <3>3. CASE ~(call[t] = "stream" /\ graph[t].last = "human_review")
      <4>1. shown' = shown /\ current.pending = shown
        BY <1>1, <2>1, <2>2, <2>4, <3>3 DEF IInv, RequestInv
      <4>2. shown # t
        BY <1>1, <1>4, <2>4, <3>3, <4>1 DEF IInv, RequestInv
      <4>3. /\ answers[shown] = "none" /\ graph[shown].request
            /\ \/ call[shown] = "chat" /\ graph[shown].last = "closed"
               \/ call[shown] = "stream" /\ graph[shown].last \in {"respond", "closed"}
        BY <1>1, <4>1, <4>2, <2>4, <3>3 DEF IInv, RequestInv
      <4> QED
        BY <1>1, <4>1, <4>2, <4>3, <3>1
    <3> QED
      BY <3>2, <3>3
  <2> QED
    BY <2>3, <2>4 DEF RequestInv
<1>8. SavedInv'
  BY <1>1, ChatAssumption DEF SavedInv
<1>6. ThreadInv'
  BY <1>1, ChatAssumption DEF IInv, ThreadInv, TypeOK, Nodes
<1>7. UncertainIsReviewed'
  BY <1>1 DEF IInv, UncertainIsReviewed
<1> QED
  BY <1>2, <1>3, <1>5, <1>6, <1>7, <1>8 DEF IInv

\* Closing a turn changes nothing else of its state.
LEMMA CloseFacts ==
    ASSUME TypeOK, NEW t \in Turns, Close(t)
    PROVE  /\ graph' \in [Turns -> GraphStates]
           /\ running' = None
           /\ graph'[t] = [graph[t] EXCEPT !.last = "closed"]
           /\ graph'[t].last = "closed"
           /\ \A u \in Turns : /\ u # t => graph'[u] = graph[u]
                               /\ graph'[u].request = graph[u].request
                               /\ graph'[u].low = graph[u].low
                               /\ graph'[u].review = graph[u].review
                               /\ graph'[u].response = graph[u].response
                               /\ graph'[u].iteration = graph[u].iteration
<1>1. graph[t] \in GraphStates /\ graph' = [graph EXCEPT ![t].last = "closed"]
  BY DEF TypeOK, Close
<1>2. graph' = [graph EXCEPT ![t] = [graph[t] EXCEPT !.last = "closed"]]
  BY <1>1
<1>3. [graph[t] EXCEPT !.last = "closed"] \in GraphStates
  BY <1>1 DEF GraphStates
<1> QED
  BY <1>1, <1>2, <1>3 DEF TypeOK, Close, GraphStates

\* What closing does to the invariant's parts on graphs and threads.
LEMMA CloseKeeps ==
    ASSUME IInv, NEW t \in Turns, Close(t), running = t, UNCHANGED call
    PROVE  GraphInv' /\ SavedInv' /\ ThreadInv' /\ UncertainIsReviewed'
<1>1. /\ running' = None /\ graph'[t].last = "closed"
      /\ \A u \in Turns : /\ u # t => graph'[u] = graph[u]
                          /\ graph'[u].request = graph[u].request
                          /\ graph'[u].low = graph[u].low
                          /\ graph'[u].review = graph[u].review
                          /\ graph'[u].response = graph[u].response
                          /\ graph'[u].iteration = graph[u].iteration
  BY CloseFacts DEF IInv
<1>2. GraphInv'
  BY <1>1 DEF IInv, GraphInv
<1>3. SavedInv' /\ ThreadInv'
  BY <1>1, ChatAssumption DEF IInv, SavedInv, ThreadInv
<1>4. UncertainIsReviewed'
  BY <1>1 DEF IInv, UncertainIsReviewed
<1> QED
  BY <1>2, <1>3, <1>4

LEMMA StepIInv == IInv /\ [Next]_vars => IInv'
<1> SUFFICES ASSUME IInv, [Next]_vars PROVE IInv'
  OBVIOUS
<1>1. ASSUME NEW t \in Turns, Chat(t) \/ Stream(t) PROVE IInv'
  <2>1. PICK c \in {"chat", "stream"} : Begin(t, c)
    BY <1>1 DEF Chat, Stream
  <2>2. /\ running = None /\ running' = t /\ call[t] = "none"
        /\ call' = [call EXCEPT ![t] = c]
        /\ UNCHANGED <<graph, current, shown, answers>>
    BY <2>1 DEF Begin
  <2>3. graph[t].last = "start" /\ ~graph[t].request /\ answers[t] = "none"
    BY <2>2 DEF IInv, ThreadInv, GraphInv, RequestInv
  <2>4. TypeOK'
    BY <2>1, <2>2, SaysType DEF Begin, IInv, TypeOK
  <2>5. GraphInv' /\ UncertainIsReviewed'
    BY <2>2 DEF IInv, GraphInv, UncertainIsReviewed
  <2>6. RequestInv'
    BY <2>2, <2>3, ChatAssumption DEF IInv, RequestInv, TypeOK
  <2>7. SavedInv'
    BY <2>2, <2>3 DEF SavedInv, Nodes
  <2>8. ThreadInv'
    BY <2>2, ChatAssumption DEF IInv, ThreadInv, TypeOK
  <2> QED
    BY <2>4, <2>5, <2>6, <2>7, <2>8 DEF IInv
<1>2. ASSUME NEW t \in Turns, Resume(t) PROVE IInv'
  <2>1. /\ running = None /\ running' = t /\ call[t] = "stream"
        /\ graph[t].last \in Nodes
        /\ current' = Update(t)
        /\ UNCHANGED <<call, graph, history, shown, answers>>
    BY <1>2 DEF Resume
  <2>2. /\ current'.pending = IF graph[t].last = "human_review" THEN t ELSE None
        /\ current' \in [response : Turns \cup {None}, pending : Turns \cup {None}]
    BY <2>1 DEF Update
  <2>3. TypeOK'
    BY <2>1, <2>2 DEF IInv, TypeOK
  <2>4. GraphInv' /\ UncertainIsReviewed'
    BY <2>1 DEF IInv, GraphInv, UncertainIsReviewed
  <2>5. graph[t].last = "human_review" => graph[t].request /\ answers[t] = "none"
    BY <2>1 DEF IInv, GraphInv, RequestInv
  <2>6. RequestInv'
    BY <2>1, <2>2, <2>5, ChatAssumption DEF IInv, RequestInv
  <2>7. SavedInv'
    BY <2>1, <2>2 DEF SavedInv
  <2>8. ThreadInv'
    BY <2>1, ChatAssumption DEF IInv, ThreadInv
  <2> QED
    BY <2>3, <2>4, <2>6, <2>7, <2>8 DEF IInv
<1>3. ASSUME NEW t \in Turns, running = t, NextNode(graph[t]) \in {"plan", "act", "observe", "reflect"}
      PROVE  /\ graph[t] \in GraphStates
             /\ ~graph[t].request /\ graph[t].response = "none"
             /\ graph[t].low => graph[t].review
             /\ NextNode(graph[t]) = "plan" => graph[t].iteration < MaxIterations
  <2>1. graph[t] \in GraphStates
    BY DEF IInv, TypeOK
  <2>2. graph[t].last \in {"start", "plan", "act", "observe", "reflect"}
    BY <1>3, <2>1 DEF NextNode, GraphStates, Nodes
  <2>3. ~graph[t].request /\ graph[t].response = "none" /\ (graph[t].low => graph[t].review)
    BY <2>1, <2>2 DEF IInv, GraphInv, GraphStates
  <2>4. ASSUME NextNode(graph[t]) = "plan" PROVE graph[t].iteration < MaxIterations
    <3>1. CASE graph[t].last = "start"
      BY <3>1, ChatAssumption DEF IInv, GraphInv
    <3>2. CASE graph[t].last = "reflect"
      BY <2>4, <3>2, <2>1, ChatAssumption DEF NextNode, RouteAfterReflect, GraphStates
    <3> QED
      BY <2>2, <2>4, <3>1, <3>2 DEF NextNode
  <2> QED
    BY <2>1, <2>3, <2>4
<1>4. ASSUME NEW t \in Turns, Plan(t) PROVE IInv'
  <2> DEFINE g == [graph[t] EXCEPT !.last = "plan", !.iteration = @ + 1]
  <2>1. Run(t, "plan", g) /\ shown' = shown
    BY <1>4 DEF Plan
  <2>2. /\ graph[t] \in GraphStates
        /\ ~graph[t].request /\ graph[t].response = "none"
        /\ graph[t].low => graph[t].review
        /\ graph[t].iteration < MaxIterations
    BY <2>1, <1>3 DEF Run
  <2>3. graph[t].iteration + 1 \in 0 .. MaxIterations
    BY <2>2, ChatAssumption DEF GraphStates
  <2>4. /\ g \in GraphStates /\ g.last = "plan" /\ ~g.request
        /\ g.response = "none" /\ (g.low => g.review)
    BY <2>2, <2>3 DEF GraphStates, Nodes
  <2> QED
    BY <2>1, <2>2, <2>4, NodeKeepsIInv DEF Nodes
<1>5. ASSUME NEW t \in Turns, Act(t) PROVE IInv'
  <2> DEFINE g == [graph[t] EXCEPT !.last = "act"]
  <2>1. Run(t, "act", g) /\ shown' = shown
    BY <1>5 DEF Act
  <2>2. /\ graph[t] \in GraphStates
        /\ ~graph[t].request /\ graph[t].response = "none"
        /\ graph[t].low => graph[t].review
    BY <2>1, <1>3 DEF Run
  <2>3. /\ g \in GraphStates /\ g.last = "act" /\ ~g.request
        /\ g.response = "none" /\ (g.low => g.review)
    BY <2>2 DEF GraphStates, Nodes
  <2> QED
    BY <2>1, <2>2, <2>3, NodeKeepsIInv DEF Nodes
<1>6. ASSUME NEW t \in Turns, Observe(t) PROVE IInv'
  <2> DEFINE g == [graph[t] EXCEPT !.last = "observe"]
  <2>1. Run(t, "observe", g) /\ shown' = shown
    BY <1>6 DEF Observe
  <2>2. /\ graph[t] \in GraphStates
        /\ ~graph[t].request /\ graph[t].response = "none"
        /\ graph[t].low => graph[t].review
    BY <2>1, <1>3 DEF Run
  <2>3. /\ g \in GraphStates /\ g.last = "observe" /\ ~g.request
        /\ g.response = "none" /\ (g.low => g.review)
    BY <2>2 DEF GraphStates, Nodes
  <2> QED
    BY <2>1, <2>2, <2>3, NodeKeepsIInv DEF Nodes
<1>7. ASSUME NEW t \in Turns, NEW low \in BOOLEAN, NEW replan \in BOOLEAN,
             NEW review \in BOOLEAN, Reflect(t, low, replan, review)
      PROVE  IInv'
  <2> DEFINE g == [graph[t] EXCEPT !.last = "reflect", !.low = low,
                            !.replan = replan /\ graph[t].iteration < MaxIterations,
                            !.review = review \/ low]
  <2>1. Run(t, "reflect", g) /\ shown' = shown
    BY <1>7 DEF Reflect
  <2>2. graph[t] \in GraphStates /\ ~graph[t].request /\ graph[t].response = "none"
    BY <2>1, <1>3 DEF Run
  <2>3. /\ g \in GraphStates /\ g.last = "reflect" /\ ~g.request
        /\ g.response = "none" /\ (g.low => g.review)
    BY <2>2 DEF GraphStates, Nodes
  <2> QED
    BY <2>1, <2>2, <2>3, NodeKeepsIInv DEF Nodes
<1>8. ASSUME NEW t \in Turns, HumanReview(t) PROVE IInv'
  <2> DEFINE g == [graph[t] EXCEPT !.last = "human_review", !.request = TRUE]
  <2>1. Run(t, "human_review", g) /\ shown' = IF call[t] = "stream" THEN t ELSE shown
    BY <1>8 DEF HumanReview
  <2>2. graph[t] \in GraphStates
    BY DEF IInv, TypeOK
  <2>3. graph[t].last = "reflect"
    BY <2>1, <2>2 DEF Run, NextNode, GraphStates, Nodes
  <2>4. graph[t].response = "none" /\ (graph[t].low => graph[t].review)
    BY <2>3 DEF IInv, GraphInv
  <2>5. /\ g \in GraphStates /\ g.last = "human_review" /\ g.request
        /\ g.response = "none" /\ (g.low => g.review)
    BY <2>2, <2>4 DEF GraphStates, Nodes
  <2> QED
    BY <2>1, <2>5, NodeKeepsIInv DEF Nodes
<1>9. ASSUME NEW t \in Turns, Respond(t) PROVE IInv'
  <2> DEFINE g == [graph[t] EXCEPT !.last = "respond",
                     !.response = IF graph[t].request THEN "approval" ELSE "answer"]
  <2>1. /\ Run(t, "respond", g)
        /\ shown' = IF call[t] = "stream" /\ graph[t].request THEN t ELSE shown
    BY <1>9 DEF Respond
  <2>2. graph[t] \in GraphStates
    BY DEF IInv, TypeOK
  <2>3. /\ g \in GraphStates /\ g.last = "respond" /\ g.request = graph[t].request
        /\ g.low = graph[t].low /\ g.review = graph[t].review
        /\ g.iteration = graph[t].iteration
        /\ g.response = IF graph[t].request THEN "approval" ELSE "answer"
    BY <2>2 DEF GraphStates, Nodes
  <2>4. g.low => g.review
    BY <2>3 DEF IInv, GraphInv
  <2>5. \/ graph[t].last = "human_review"
        \/ graph[t].last = "reflect" /\ RouteAfterReflect(graph[t]) = "respond"
    BY <2>1, <2>2 DEF Run, NextNode, GraphStates, Nodes
  <2>6. ASSUME g.response = "answer", g.review PROVE g.iteration >= MaxIterations
    <3>1. ~graph[t].request /\ graph[t].review
      BY <2>3, <2>6
    <3>2. RouteAfterReflect(graph[t]) = "respond"
      BY <2>5, <3>1 DEF IInv, GraphInv
    <3> QED
      BY <2>3, <3>1, <3>2 DEF RouteAfterReflect
  <2> QED
    BY <2>1, <2>3, <2>4, <2>6, NodeKeepsIInv DEF Nodes
<1>10. ASSUME NEW t \in Turns, AnswerChat(t) PROVE IInv'
  <2>1. /\ running = t /\ call[t] = "chat" /\ graph[t].last = "respond"
        /\ Says("ASSISTANT", t, t) /\ Close(t)
        /\ current' = WholeState(t)
        /\ shown' = IF graph[t].request THEN t ELSE shown
        /\ UNCHANGED <<call, answers>>
    BY <1>10 DEF AnswerChat
  <2>2. /\ graph' \in [Turns -> GraphStates] /\ running' = None
        /\ graph'[t].last = "closed" /\ graph'[t].request = graph[t].request
        /\ \A u \in Turns : u # t => graph'[u] = graph[u]
    BY <2>1, CloseFacts DEF IInv
  <2>3. /\ current' \in [response : Turns \cup {None}, pending : Turns \cup {None}]
        /\ current'.pending = IF graph[t].request THEN t ELSE None
    BY <2>1 DEF WholeState
  <2>4. TypeOK'
    BY <2>1, <2>2, <2>3, SaysType DEF IInv, TypeOK
  <2>5. answers[t] = "none"
    BY <2>1 DEF IInv, RequestInv
  <2>6. RequestInv'
    BY <2>1, <2>2, <2>3, <2>5 DEF IInv, RequestInv
  <2> QED
    BY <2>1, <2>4, <2>6, CloseKeeps DEF IInv
<1>11. ASSUME NEW t \in Turns, AnswerStream(t) \/ Fail(t) PROVE IInv'
  <2>1. /\ running = t /\ Close(t)
        /\ UNCHANGED <<call, current, shown, answers>>
        /\ \/ UNCHANGED history
           \/ \E c \in Turns \cup {"error"} : Says("ASSISTANT", t, c)
        /\ graph[t].last # "human_review"
    <3>1. CASE AnswerStream(t)
      BY <3>1 DEF AnswerStream, IInv, TypeOK
    <3>2. CASE Fail(t)
      BY <3>2 DEF Fail, NextNode
    <3> QED
      BY <1>11, <3>1, <3>2
  <2>2. /\ graph' \in [Turns -> GraphStates] /\ running' = None
        /\ graph'[t].last = "closed"
        /\ \A u \in Turns : /\ u # t => graph'[u] = graph[u]
                            /\ graph'[u].request = graph[u].request
    BY <2>1, CloseFacts DEF IInv
  <2>3. TypeOK'
    <3>1. CASE UNCHANGED history
      BY <3>1, <2>1, <2>2 DEF IInv, TypeOK
    <3>2. CASE \E c \in Turns \cup {"error"} : Says("ASSISTANT", t, c)
      BY <3>2, <2>1, <2>2, SaysType DEF IInv, TypeOK
    <3> QED
      BY <2>1, <3>1, <3>2
  <2>4. \A u \in Turns : graph[u].last = "closed" => graph'[u].last = "closed"
    BY <2>2
  <2>5. \A u \in Turns : graph[u].last \in {"respond", "closed"} =>
                            graph'[u].last \in {"respond", "closed"}
    BY <2>2
  <2>6. RequestInv'
    <3>1. current.pending # None => shown \in Turns /\ current.pending = shown
      BY <2>1, ChatAssumption DEF IInv, RequestInv, TypeOK
    <3> QED
      BY <2>1, <2>2, <2>4, <2>5, <3>1 DEF IInv, RequestInv
  <2> QED
    BY <2>1, <2>3, <2>6, CloseKeeps DEF IInv
<1>12. ASSUME NEW status \in Statuses, HandleApproval(status) PROVE IInv'
  <2>1. /\ running = None /\ current.pending # None
        /\ answers' = [answers EXCEPT ![current.pending] = status]
        /\ current' = [current EXCEPT !.pending = None]
        /\ UNCHANGED <<call, graph, running, history, shown>>
    BY <1>12 DEF HandleApproval
  <2>2. current.pending \in Turns
    BY <2>1 DEF IInv, TypeOK
  <2>3. TypeOK'
    BY <2>1, <2>2 DEF IInv, TypeOK
  <2>4. GraphInv' /\ ThreadInv' /\ SavedInv' /\ UncertainIsReviewed'
    BY <2>1 DEF IInv, GraphInv, ThreadInv, SavedInv, UncertainIsReviewed
  <2>5. current'.pending = None
    BY <2>1 DEF IInv, TypeOK
  <2>6. RequestInv'
    BY <2>1, <2>2, <2>5, ChatAssumption DEF IInv, RequestInv, TypeOK
  <2> QED
    BY <2>3, <2>4, <2>6 DEF IInv
<1>13. ASSUME ClearHistory PROVE IInv'
  <2>1. /\ running = None /\ history' = <<>> /\ current' = NoState
        /\ UNCHANGED <<call, graph, running, shown, answers>>
    BY <1>13 DEF ClearHistory
  <2>2. TypeOK'
    BY <2>1 DEF IInv, TypeOK, NoState
  <2>3. GraphInv' /\ ThreadInv' /\ SavedInv' /\ UncertainIsReviewed'
    BY <2>1 DEF IInv, GraphInv, ThreadInv, SavedInv, UncertainIsReviewed
  <2>4. RequestInv'
    BY <2>1 DEF IInv, RequestInv, NoState
  <2> QED
    BY <2>2, <2>3, <2>4 DEF IInv
<1>14. CASE UNCHANGED vars
  BY <1>14 DEF vars, IInv, TypeOK, GraphInv, RequestInv, SavedInv, ThreadInv,
               UncertainIsReviewed
<1> QED
  BY <1>1, <1>2, <1>4, <1>5, <1>6, <1>7, <1>8, <1>9, <1>10, <1>11, <1>12, <1>13, <1>14
     DEF Next, Runs

LEMMA Invariance == Spec => []IInv
  BY InitIInv, StepIInv, PTL DEF Spec

\* The session's state is well typed; in particular no turn makes more rounds of
\* the graph than CHAT_MAX_ITERATIONS.
THEOREM ChatTypes == Spec => []TypeOK
<1>1. IInv => TypeOK
  BY DEF IInv
<1> QED
  BY <1>1, Invariance, PTL

\* However streams are suspended and other turns run in between, handle_approval
\* decides the request that the user was shown last, and only once.
THEOREM OnlyTheShownIsDecided == Spec => []AnswersDecideWhatIsShown
<1>1. IInv => AnswersDecideWhatIsShown
  <2> SUFFICES ASSUME IInv, running = None, current.pending # None
               PROVE  /\ current.pending = shown
                      /\ answers[current.pending] = "none"
    BY DEF AnswersDecideWhatIsShown
  <2> QED
    BY DEF IInv, RequestInv
<1> QED
  BY <1>1, Invariance, PTL

\* An uncertain analysis is answered without a request only at the limit of rounds.
THEOREM UncertaintyIsReviewed == Spec => []UncertainIsReviewed
<1>1. IInv => UncertainIsReviewed
  BY DEF IInv
<1> QED
  BY <1>1, Invariance, PTL

-----------------------------------------------------------------------------
(* The history.  A reply closes its turn, which therefore appends no more, *)
(* and a stream that has responded has its own response in current_state.  *)

ClosedInv ==
    \A i \in 1 .. Len(history) :
        history[i].role = "ASSISTANT" => graph[history[i].turn].last = "closed"

ResponseInv ==
    running # None /\ call[running] = "stream" /\ graph[running].last = "respond" =>
        current.response = running

HistoryInv == RepliesAreOwn /\ ClosedInv /\ ResponseInv

\* Every message has its turn.
LEMMA HistoryTurns ==
    ASSUME TypeOK
    PROVE  /\ Len(history) \in Nat
           /\ \A i \in 1 .. Len(history) : history[i].turn \in Turns
<1> DEFINE M == [role : {"USER", "ASSISTANT"}, turn : Turns,
                 content : Turns \cup {"input", "error"}]
<1>1. history \in Seq(M)
  BY DEF TypeOK
<1>2. \A m \in M : m.turn \in Turns
  OBVIOUS
<1> HIDE DEF M
<1>3. Len(history) \in Nat /\ \A i \in 1 .. Len(history) : history[i] \in M
  BY <1>1
<1> QED
  BY <1>2, <1>3

\* Appending keeps the messages that are there.
LEMMA SaysFacts ==
    ASSUME TypeOK, NEW role, NEW t \in Turns, NEW content, Says(role, t, content)
    PROVE  /\ Len(history') = Len(history) + 1
           /\ \A i \in 1 .. Len(history) : history'[i] = history[i] /\ history[i].turn \in Turns
           /\ history'[Len(history) + 1] = [role |-> role, turn |-> t, content |-> content]
           /\ Len(history) \in Nat
<1> DEFINE M == [role : {"USER", "ASSISTANT"}, turn : Turns,
                 content : Turns \cup {"input", "error"}]
           m == [role |-> role, turn |-> t, content |-> content]
<1>1. history \in Seq(M) /\ history' = Append(history, m)
  BY DEF TypeOK, Says
<1> HIDE DEF M, m
<1>2. /\ Len(history') = Len(history) + 1
      /\ \A i \in 1 .. Len(history) : history'[i] = history[i]
      /\ history'[Len(history) + 1] = m
  BY <1>1
<1> QED
  BY <1>2, HistoryTurns DEF m

\* A turn that is open may append.
LEMMA SaysKeepsOwn ==
    ASSUME TypeOK, HistoryInv, NEW role, NEW t \in Turns, NEW content,
           Says(role, t, content), graph[t].last # "closed",
           role = "ASSISTANT" => content \in {t, "error"}
    PROVE  RepliesAreOwn'
<1> DEFINE m == [role |-> role, turn |-> t, content |-> content]
<1>1. /\ Len(history') = Len(history) + 1
      /\ \A i \in 1 .. Len(history) : history'[i] = history[i]
      /\ history'[Len(history) + 1] = m
      /\ Len(history) \in Nat
  BY SaysFacts
<1> SUFFICES ASSUME NEW i \in 1 .. Len(history'), history'[i].role = "ASSISTANT"
             PROVE  /\ history'[i].content \in {history'[i].turn, "error"}
                    /\ \A j \in i + 1 .. Len(history') : history'[j].turn # history'[i].turn
  BY DEF RepliesAreOwn
<1>2. CASE i = Len(history) + 1
  BY <1>1, <1>2
<1>3. CASE i \in 1 .. Len(history)
  <2>1. history'[i] = history[i] /\ history[i].role = "ASSISTANT"
    BY <1>1, <1>3
  <2>2. history[i].turn # t
    BY <1>3, <2>1 DEF HistoryInv, ClosedInv
  <2>3. \A j \in i + 1 .. Len(history) : history[j].turn # history[i].turn
    BY <1>3, <2>1 DEF HistoryInv, RepliesAreOwn
  <2>4. \A j \in i + 1 .. Len(history') : j \in i + 1 .. Len(history) \/ j = Len(history) + 1
    BY <1>1, <1>3
  <2>5. history[i].content \in {history[i].turn, "error"}
    BY <1>3, <2>1 DEF HistoryInv, RepliesAreOwn
  <2>6. \A j \in i + 1 .. Len(history) : j \in 1 .. Len(history)
    BY <1>3
  <2> QED
    BY <1>1, <2>1, <2>2, <2>3, <2>4, <2>5, <2>6
<1> QED
  BY <1>1, <1>2, <1>3

\* A reply that closes its turn.
LEMMA ReplyKeepsHistoryInv ==
    ASSUME IInv, HistoryInv, NEW t \in Turns, NEW content \in {t, "error"},
           Says("ASSISTANT", t, content), Close(t), graph[t].last # "closed"
    PROVE  HistoryInv'
<1>1. RepliesAreOwn'
  BY SaysKeepsOwn DEF IInv
<1>2. /\ Len(history') = Len(history) + 1
      /\ \A i \in 1 .. Len(history) : history'[i] = history[i] /\ history[i].turn \in Turns
      /\ history'[Len(history) + 1].turn = t
      /\ Len(history) \in Nat
  <2>1. /\ Len(history') = Len(history) + 1
        /\ \A i \in 1 .. Len(history) : history'[i] = history[i] /\ history[i].turn \in Turns
        /\ history'[Len(history) + 1] =
               [role |-> "ASSISTANT", turn |-> t, content |-> content]
        /\ Len(history) \in Nat
    BY SaysFacts, Zenon DEF IInv
  <2> QED
    BY <2>1
<1>3. /\ running' = None /\ graph'[t].last = "closed"
      /\ \A u \in Turns : u # t => graph'[u] = graph[u]
  BY CloseFacts DEF IInv
<1>4. ClosedInv'
  <2> SUFFICES ASSUME NEW i \in 1 .. Len(history'), history'[i].role = "ASSISTANT"
               PROVE  graph'[history'[i].turn].last = "closed"
    BY DEF ClosedInv
  <2>1. CASE i = Len(history) + 1
    BY <1>2, <1>3, <2>1
  <2>2. CASE i \in 1 .. Len(history)
    BY <1>2, <1>3, <2>2 DEF HistoryInv, ClosedInv
  <2> QED
    BY <1>2, <2>1, <2>2
<1> QED
  BY <1>1, <1>3, <1>4 DEF HistoryInv, ResponseInv

LEMMA StepHistoryInv == IInv /\ HistoryInv /\ [Next]_vars => HistoryInv'
<1> SUFFICES ASSUME IInv, HistoryInv, [Next]_vars PROVE HistoryInv'
  OBVIOUS
<1>1. ASSUME NEW t \in Turns, Chat(t) \/ Stream(t) PROVE HistoryInv'
  <2>1. /\ call[t] = "none" /\ running' = t
        /\ Says("USER", t, "input")
        /\ UNCHANGED <<graph, current>>
    BY <1>1 DEF Chat, Stream, Begin
  <2>2. graph[t].last = "start"
    BY <2>1 DEF IInv, ThreadInv
  <2>3. RepliesAreOwn'
    BY <2>1, <2>2, SaysKeepsOwn DEF IInv
  <2>4. /\ Len(history') = Len(history) + 1
        /\ \A i \in 1 .. Len(history) : history'[i] = history[i]
        /\ history'[Len(history) + 1].role = "USER"
        /\ Len(history) \in Nat
    <3>1. /\ Len(history') = Len(history) + 1
          /\ \A i \in 1 .. Len(history) :
                 history'[i] = history[i] /\ history[i].turn \in Turns
          /\ history'[Len(history) + 1] = [role |-> "USER", turn |-> t, content |-> "input"]
          /\ Len(history) \in Nat
      BY <2>1, SaysFacts, Zenon DEF IInv
    <3> QED
      BY <3>1
  <2>5. ClosedInv'
    <3> SUFFICES ASSUME NEW i \in 1 .. Len(history'), history'[i].role = "ASSISTANT"
                 PROVE  graph'[history'[i].turn].last = "closed"
      BY DEF ClosedInv
    <3>1. i # Len(history) + 1
      BY <2>4
    <3>2. i \in 1 .. Len(history)
      BY <2>4, <3>1
    <3> QED
      BY <2>1, <2>4, <3>2 DEF HistoryInv, ClosedInv
  <2> QED
    BY <2>1, <2>2, <2>3, <2>5 DEF HistoryInv, ResponseInv
<1>2. ASSUME NEW t \in Turns, Resume(t) PROVE HistoryInv'
  BY <1>2 DEF Resume, Update, HistoryInv, RepliesAreOwn, ClosedInv, ResponseInv
<1>3. ASSUME NEW t \in Turns, NEW n \in Nodes, NEW g, Run(t, n, g) PROVE HistoryInv'
  <2>1. /\ history' = history /\ current' = current
        /\ \A u \in Turns : u # t => graph'[u] = graph[u]
        /\ running' = IF call[t] = "stream" THEN None ELSE t
        /\ call' = call
        /\ graph[t].last # "closed"
    BY <1>3 DEF Run, NextNode, Nodes, IInv, TypeOK
  <2>2. \A i \in 1 .. Len(history) : history[i].turn \in Turns
    BY HistoryTurns DEF IInv
  <2>3. ClosedInv'
    BY <2>1, <2>2 DEF HistoryInv, ClosedInv
  <2> QED
    BY <2>1, <2>3 DEF HistoryInv, RepliesAreOwn, ResponseInv
<1>4. ASSUME NEW t \in Turns,
             \/ Plan(t) \/ Act(t) \/ Observe(t) \/ HumanReview(t) \/ Respond(t)
             \/ \E low, replan, review \in BOOLEAN : Reflect(t, low, replan, review)
      PROVE  HistoryInv'
  BY <1>3, <1>4 DEF Plan, Act, Observe, HumanReview, Respond, Reflect, Nodes
<1>5. ASSUME NEW t \in Turns, AnswerChat(t) PROVE HistoryInv'
  BY <1>5, ReplyKeepsHistoryInv DEF AnswerChat
<1>6. ASSUME NEW t \in Turns, AnswerStream(t) PROVE HistoryInv'
  <2>1. /\ running = t /\ call[t] = "stream" /\ graph[t].last = "respond"
        /\ Close(t)
        /\ IF current.response # None
             THEN Says("ASSISTANT", t, current.response) ELSE UNCHANGED history
    BY <1>6 DEF AnswerStream
  <2>2. current.response = t
    BY <2>1, ChatAssumption DEF HistoryInv, ResponseInv
  <2> QED
    BY <2>1, <2>2, ChatAssumption, ReplyKeepsHistoryInv
<1>7. ASSUME NEW t \in Turns, Fail(t) PROVE HistoryInv'
  <2>1. graph[t].last # "closed" /\ Close(t)
    BY <1>7 DEF Fail, NextNode
  <2>2. CASE call[t] = "chat"
    BY <1>7, <2>1, <2>2, ReplyKeepsHistoryInv DEF Fail
  <2>3. CASE call[t] # "chat"
    <3>1. history' = history
      BY <1>7, <2>3 DEF Fail
    <3>2. /\ running' = None
          /\ \A u \in Turns : u # t => graph'[u] = graph[u]
          /\ graph'[t].last = "closed"
      BY <2>1, CloseFacts DEF IInv
    <3>3. \A i \in 1 .. Len(history) : history[i].turn \in Turns
      BY HistoryTurns DEF IInv
    <3>4. ClosedInv'
      BY <3>1, <3>2, <3>3 DEF HistoryInv, ClosedInv
    <3> QED
      BY <3>1, <3>2, <3>4 DEF HistoryInv, RepliesAreOwn, ResponseInv
  <2> QED
    BY <2>2, <2>3
<1>8. ASSUME NEW status \in Statuses, HandleApproval(status) PROVE HistoryInv'
  BY <1>8 DEF HandleApproval, HistoryInv, RepliesAreOwn, ClosedInv, ResponseInv
<1>9. ASSUME ClearHistory PROVE HistoryInv'
  BY <1>9 DEF ClearHistory, HistoryInv, RepliesAreOwn, ClosedInv, ResponseInv
<1>10. CASE UNCHANGED vars
  BY <1>10 DEF vars, HistoryInv, RepliesAreOwn, ClosedInv, ResponseInv
<1> QED
  BY <1>1, <1>2, <1>4, <1>5, <1>6, <1>7, <1>8, <1>9, <1>10 DEF Next, Runs

\* The replies in the history are their turns' own, each the last word of its turn.
THEOREM HistoryIsOwn == Spec => []RepliesAreOwn
<1>1. Init => HistoryInv
  BY DEF Init, HistoryInv, RepliesAreOwn, ClosedInv, ResponseInv
<1>2. HistoryInv => RepliesAreOwn
  BY DEF HistoryInv
<1> QED
  BY <1>1, <1>2, StepHistoryInv, Invariance, PTL DEF Spec

-----------------------------------------------------------------------------
(* The approvals of the chat implement HITLLifecycle.                      *)

\* A node is the only thing that changes a turn's request, and only HumanReview does.
LEMMA NodeRequests ==
    ASSUME IInv, NEW t \in Turns, NEW n, NEW g, Run(t, n, g)
    PROVE  /\ answers' = answers
           /\ graph'[t] = g
           /\ \A u \in Turns : u # t => graph'[u] = graph[u]
BY DEF Run, IInv, TypeOK

\* What a step does to requests and to the answers given to them: nothing; or a turn
\* that had no request has one; or an open request is answered.
Quiet == answers' = answers /\ \A u \in Turns : graph'[u].request = graph[u].request

Opens(t) ==
    /\ answers' = answers
    /\ answers[t] = "none" /\ ~graph[t].request /\ graph'[t].request
    /\ \A u \in Turns : u # t => graph'[u].request = graph[u].request

Decides(t, status) ==
    /\ graph' = graph
    /\ answers[t] = "none" /\ graph[t].request
    /\ answers' = [answers EXCEPT ![t] = status]

LEMMA StepRequests ==
    ASSUME IInv, [Next]_vars
    PROVE  \/ Quiet
           \/ \E t \in Turns : Opens(t)
           \/ \E t \in Turns, status \in Statuses : Decides(t, status)
<1>1. ASSUME NEW t \in Turns, Chat(t) \/ Stream(t) \/ Resume(t) PROVE Quiet
  BY <1>1 DEF Chat, Stream, Begin, Resume, Quiet
<1>2. ASSUME NEW t \in Turns, NEW n, NEW g, Run(t, n, g), g.request = graph[t].request
      PROVE  Quiet
  BY <1>2, NodeRequests DEF Quiet
<1>3. \A t \in Turns : graph[t] \in GraphStates
  BY DEF IInv, TypeOK
<1>4. ASSUME NEW t \in Turns, Plan(t) PROVE Quiet
  <2> DEFINE g == [graph[t] EXCEPT !.last = "plan", !.iteration = @ + 1]
  <2>1. Run(t, "plan", g)
    BY <1>4 DEF Plan
  <2>2. g.request = graph[t].request
    BY <1>3 DEF GraphStates
  <2> QED
    BY <2>1, <2>2, <1>2
<1>5. ASSUME NEW t \in Turns, Act(t) PROVE Quiet
  <2> DEFINE g == [graph[t] EXCEPT !.last = "act"]
  <2>1. Run(t, "act", g)
    BY <1>5 DEF Act
  <2>2. g.request = graph[t].request
    BY <1>3 DEF GraphStates
  <2> QED
    BY <2>1, <2>2, <1>2
<1>6. ASSUME NEW t \in Turns, Observe(t) PROVE Quiet
  <2> DEFINE g == [graph[t] EXCEPT !.last = "observe"]
  <2>1. Run(t, "observe", g)
    BY <1>6 DEF Observe
  <2>2. g.request = graph[t].request
    BY <1>3 DEF GraphStates
  <2> QED
    BY <2>1, <2>2, <1>2
<1>7. ASSUME NEW t \in Turns, NEW low \in BOOLEAN, NEW replan \in BOOLEAN,
             NEW review \in BOOLEAN, Reflect(t, low, replan, review)
      PROVE  Quiet
  <2> DEFINE g == [graph[t] EXCEPT !.last = "reflect", !.low = low,
                            !.replan = replan /\ graph[t].iteration < MaxIterations,
                            !.review = review \/ low]
  <2>1. Run(t, "reflect", g)
    BY <1>7 DEF Reflect
  <2>2. g.request = graph[t].request
    BY <1>3 DEF GraphStates
  <2> QED
    BY <2>1, <2>2, <1>2
<1>8. ASSUME NEW t \in Turns, HumanReview(t) PROVE Opens(t)
  <2> DEFINE g == [graph[t] EXCEPT !.last = "human_review", !.request = TRUE]
  <2>1. Run(t, "human_review", g) /\ NextNode(graph[t]) = "human_review"
    BY <1>8 DEF HumanReview, Run
  <2>2. graph[t].last = "reflect"
    BY <2>1, <1>3 DEF NextNode, GraphStates, Nodes
  <2>3. answers[t] = "none" /\ ~graph[t].request
    BY <2>2 DEF IInv, RequestInv, GraphInv
  <2>4. g.request
    BY <1>3 DEF GraphStates
  <2> QED
    BY <2>1, <2>3, <2>4, NodeRequests DEF Opens
<1>9. ASSUME NEW t \in Turns, Respond(t) PROVE Quiet
  <2> DEFINE g == [graph[t] EXCEPT !.last = "respond",
                     !.response = IF graph[t].request THEN "approval" ELSE "answer"]
  <2>1. Run(t, "respond", g)
    BY <1>9 DEF Respond
  <2>2. g.request = graph[t].request
    BY <1>3 DEF GraphStates
  <2> QED
    BY <2>1, <2>2, <1>2
<1>10. ASSUME NEW t \in Turns, AnswerChat(t) \/ AnswerStream(t) \/ Fail(t) PROVE Quiet
  <2>1. Close(t) /\ answers' = answers
    BY <1>10 DEF AnswerChat, AnswerStream, Fail
  <2> QED
    BY <2>1, CloseFacts DEF IInv, Quiet
<1>11. ASSUME NEW status \in Statuses, HandleApproval(status)
      PROVE  \E t \in Turns : Decides(t, status)
  <2>1. /\ running = None /\ current.pending # None
        /\ answers' = [answers EXCEPT ![current.pending] = status]
        /\ graph' = graph
    BY <1>11 DEF HandleApproval
  <2>2. current.pending \in Turns
    BY <2>1 DEF IInv, TypeOK
  <2>3. answers[current.pending] = "none" /\ graph[current.pending].request
    BY <2>1 DEF IInv, RequestInv
  <2> QED
    BY <2>1, <2>2, <2>3 DEF Decides
<1>12. ASSUME ClearHistory \/ UNCHANGED vars PROVE Quiet
  BY <1>12 DEF ClearHistory, vars, Quiet
<1> QED
  BY <1>1, <1>4, <1>5, <1>6, <1>7, <1>8, <1>9, <1>10, <1>11, <1>12 DEF Next, Runs

\* Each of the three is a step of the lifecycle, or none.
LEMMA StepRefines ==
    ASSUME IInv, IInv', [Next]_vars
    PROVE  [Approvals!Next]_([t \in Turns |-> ApprovalStatus(t)])
<1> DEFINE S == [t \in Turns |-> ApprovalStatus(t)]
<1>1. CASE Quiet
  <2>1. \A u \in Turns : ApprovalStatus(u)' = ApprovalStatus(u)
    BY <1>1 DEF Quiet, ApprovalStatus
  <2>2. S' = S
    BY <2>1
  <2> QED
    BY <2>2
<1>2. ASSUME NEW t \in Turns, Opens(t) PROVE Approvals!Next
  <2>1. ApprovalStatus(t) = "absent" /\ ApprovalStatus(t)' = "pending"
    BY <1>2 DEF Opens, ApprovalStatus
  <2>2. \A u \in Turns : u # t => ApprovalStatus(u)' = ApprovalStatus(u)
    BY <1>2 DEF Opens, ApprovalStatus
  <2>3. S[t] = "absent" /\ S' = [S EXCEPT ![t] = "pending"]
    BY <2>1, <2>2
  <2>4. Approvals!Open(t)
    BY <2>3 DEF Approvals!Open
  <2> QED
    BY <2>4 DEF Approvals!Next
<1>3. ASSUME NEW t \in Turns, NEW status \in Statuses, Decides(t, status)
      PROVE  Approvals!Next
  <2> DEFINE s == IF status = "REJECTED" THEN "rejected" ELSE "approved"
  <2>1. answers'[t] = status /\ status # "none"
    BY <1>3 DEF Decides, IInv, TypeOK, Statuses
  <2>2. ApprovalStatus(t) = "pending" /\ ApprovalStatus(t)' = s
    BY <1>3, <2>1 DEF Decides, ApprovalStatus
  <2>3. \A u \in Turns : u # t => ApprovalStatus(u)' = ApprovalStatus(u)
    BY <1>3 DEF Decides, ApprovalStatus, IInv, TypeOK
  <2>4. S[t] = "pending" /\ S' = [S EXCEPT ![t] = s]
    BY <2>2, <2>3
  <2>5. Approvals!Settle(t, s)
    BY <2>4 DEF Approvals!Settle
  <2>6. s \in Approvals!HumanSettlements
    BY DEF Approvals!HumanSettlements, Approvals!Settlements
  <2> QED
    BY <2>5, <2>6 DEF Approvals!Next
<1> QED
  BY <1>1, <1>2, <1>3, StepRequests

\* Whatever streams are suspended, overwritten or cleared, the requests of a session
\* live as those of the approval service do: opened once and settled at most once.
THEOREM ChatKeepsLifecycle == Spec => ApprovalsKeepLifecycle
<1>1. Init => Approvals!Init
  <2> SUFFICES ASSUME Init PROVE Approvals!Init
    OBVIOUS
  <2>1. \A t \in Turns : ApprovalStatus(t) = "absent"
    BY DEF Init, InitialState, ApprovalStatus
  <2> QED
    BY <2>1 DEF Approvals!Init
<1> QED
  BY <1>1, StepRefines, Invariance, PTL DEF Spec, ApprovalsKeepLifecycle, Approvals!Spec

-----------------------------------------------------------------------------
(* A turn's graph is short.                                                *)

\* What a node leaves of what the count of nodes depends on.
Ran(t, n) ==
    /\ NextNode(graph[t]) = n
    /\ graph'[t].last = n
    /\ graph'[t].iteration = IF n = "plan" THEN graph[t].iteration + 1
                                           ELSE graph[t].iteration
    /\ graph'[t].request = (graph[t].request \/ n = "human_review")

\* A graph that has changed and is not closed has run a node.
LEMMA ChangedGraphRan ==
    ASSUME IInv, [Next]_vars, NEW t \in Turns,
           graph'[t] # graph[t], graph'[t].last # "closed"
    PROVE  \E n \in Nodes : Ran(t, n)
<1>1. graph[t] \in GraphStates
  BY DEF IInv, TypeOK
<1>2. ASSUME NEW u \in Turns, NEW n, NEW g, Run(u, n, g)
      PROVE  u = t /\ graph'[t] = g /\ NextNode(graph[t]) = n
  BY <1>2, NodeRequests DEF Run
<1>3. ASSUME NEW u \in Turns, Plan(u) PROVE Ran(t, "plan")
  <2> DEFINE g == [graph[u] EXCEPT !.last = "plan", !.iteration = @ + 1]
  <2>1. Run(u, "plan", g)
    BY <1>3 DEF Plan
  <2>2. u = t /\ graph'[t] = g /\ NextNode(graph[t]) = "plan"
    BY <2>1, <1>2
  <2> QED
    BY <2>2, <1>1 DEF Ran, GraphStates
<1>4. ASSUME NEW u \in Turns, Act(u) PROVE Ran(t, "act")
  <2> DEFINE g == [graph[u] EXCEPT !.last = "act"]
  <2>1. Run(u, "act", g)
    BY <1>4 DEF Act
  <2>2. u = t /\ graph'[t] = g /\ NextNode(graph[t]) = "act"
    BY <2>1, <1>2
  <2> QED
    BY <2>2, <1>1 DEF Ran, GraphStates
<1>5. ASSUME NEW u \in Turns, Observe(u) PROVE Ran(t, "observe")
  <2> DEFINE g == [graph[u] EXCEPT !.last = "observe"]
  <2>1. Run(u, "observe", g)
    BY <1>5 DEF Observe
  <2>2. u = t /\ graph'[t] = g /\ NextNode(graph[t]) = "observe"
    BY <2>1, <1>2
  <2> QED
    BY <2>2, <1>1 DEF Ran, GraphStates
<1>6. ASSUME NEW u \in Turns, NEW low \in BOOLEAN, NEW replan \in BOOLEAN,
             NEW review \in BOOLEAN, Reflect(u, low, replan, review)
      PROVE  Ran(t, "reflect")
  <2> DEFINE g == [graph[u] EXCEPT !.last = "reflect", !.low = low,
                            !.replan = replan /\ graph[u].iteration < MaxIterations,
                            !.review = review \/ low]
  <2>1. Run(u, "reflect", g)
    BY <1>6 DEF Reflect
  <2>2. u = t /\ graph'[t] = g /\ NextNode(graph[t]) = "reflect"
    BY <2>1, <1>2
  <2> QED
    BY <2>2, <1>1 DEF Ran, GraphStates
<1>7. ASSUME NEW u \in Turns, HumanReview(u) PROVE Ran(t, "human_review")
  <2> DEFINE g == [graph[u] EXCEPT !.last = "human_review", !.request = TRUE]
  <2>1. Run(u, "human_review", g)
    BY <1>7 DEF HumanReview
  <2>2. u = t /\ graph'[t] = g /\ NextNode(graph[t]) = "human_review"
    BY <2>1, <1>2
  <2> QED
    BY <2>2, <1>1 DEF Ran, GraphStates
<1>8. ASSUME NEW u \in Turns, Respond(u) PROVE Ran(t, "respond")
  <2> DEFINE g == [graph[u] EXCEPT !.last = "respond",
                     !.response = IF graph[u].request THEN "approval" ELSE "answer"]
  <2>1. Run(u, "respond", g)
    BY <1>8 DEF Respond
  <2>2. u = t /\ graph'[t] = g /\ NextNode(graph[t]) = "respond"
    BY <2>1, <1>2
  <2> QED
    BY <2>2, <1>1 DEF Ran, GraphStates
<1>9. ASSUME NEW u \in Turns, AnswerChat(u) \/ AnswerStream(u) \/ Fail(u) PROVE FALSE
  <2>1. Close(u)
    BY <1>9 DEF AnswerChat, AnswerStream, Fail
  <2> QED
    BY <2>1, CloseFacts DEF IInv
<1>10. graph' # graph
  OBVIOUS
<1> QED
  BY <1>3, <1>4, <1>5, <1>6, <1>7, <1>8, <1>9, <1>10
  DEF Next, Runs, Nodes, Chat, Stream, Begin, Resume, HandleApproval, ClearHistory, vars

\* The count, node by node.
LEMMA NodesRunIs ==
    ASSUME NEW g \in GraphStates
    PROVE  /\ g.iteration \in Nat /\ g.iteration <= MaxIterations
           /\ g.last = "start" => NodesRun(g) = 0
           /\ g.last = "plan" => NodesRun(g) = 4 * g.iteration - 3
           /\ g.last = "act" => NodesRun(g) = 4 * g.iteration - 2
           /\ g.last = "observe" => NodesRun(g) = 4 * g.iteration - 1
           /\ g.last = "reflect" => NodesRun(g) = 4 * g.iteration
           /\ g.last = "human_review" => NodesRun(g) = 4 * g.iteration + 1
           /\ g.last = "respond" /\ ~g.request => NodesRun(g) = 4 * g.iteration + 1
           /\ g.last = "respond" /\ g.request => NodesRun(g) = 4 * g.iteration + 2
BY ChatAssumption DEF GraphStates, NodesRun

\* Reflections may ask for whatever they like: each turn runs four nodes a round, one
\* for a request and one for the response.
THEOREM GraphsEnd == Spec => GraphsAreShort
<1>1. ASSUME IInv, IInv', [Next]_vars, NEW t \in Turns,
             graph'[t] # graph[t], graph'[t].last # "closed"
      PROVE  /\ NodesRun(graph'[t]) = NodesRun(graph[t]) + 1
             /\ NodesRun(graph'[t]) <= 4 * MaxIterations + 2
  <2>1. PICK n \in Nodes : Ran(t, n)
    BY <1>1, ChangedGraphRan
  <2>2. graph[t] \in GraphStates /\ graph'[t] \in GraphStates
    BY <1>1 DEF IInv, TypeOK
  <2>3. /\ graph[t].last = "start" => graph[t].iteration = 0
        /\ graph[t].last = "human_review" => graph[t].request
        /\ graph[t].request => graph[t].last \in {"human_review", "respond", "closed"}
    BY <1>1 DEF IInv, GraphInv
  <2>4. /\ n = "plan" => graph[t].last \in {"start", "reflect"}
        /\ n = "act" => graph[t].last = "plan"
        /\ n = "observe" => graph[t].last = "act"
        /\ n = "reflect" => graph[t].last = "observe"
        /\ n = "human_review" => graph[t].last = "reflect"
        /\ n = "respond" => graph[t].last \in {"reflect", "human_review"}
    BY <2>1, <2>2 DEF Ran, NextNode, RouteAfterReflect, GraphStates, Nodes
  <2>5. CASE n = "plan"
    <3>1. graph'[t].last = "plan" /\ graph'[t].iteration = graph[t].iteration + 1
      BY <2>1, <2>5 DEF Ran
    <3>2. /\ graph[t].iteration \in Nat
          /\ NodesRun(graph[t]) = 4 * graph[t].iteration
      BY <2>2, <2>3, <2>4, <2>5, NodesRunIs
    <3>3. /\ graph'[t].iteration <= MaxIterations /\ graph'[t].iteration \in Nat
          /\ NodesRun(graph'[t]) = 4 * graph'[t].iteration - 3
      BY <2>2, <3>1, NodesRunIs
    <3> QED
      BY <3>1, <3>2, <3>3, ChatAssumption
  <2>6. CASE n \in {"act", "observe", "reflect"}
    BY <2>1, <2>2, <2>4, <2>6, NodesRunIs, ChatAssumption DEF Ran
  <2>7. CASE n = "human_review"
    BY <2>1, <2>2, <2>4, <2>7, NodesRunIs, ChatAssumption DEF Ran
  <2>8. CASE n = "respond"
    <3>1. /\ graph'[t].last = "respond"
          /\ graph'[t].iteration = graph[t].iteration
          /\ graph'[t].request = graph[t].request
      BY <2>1, <2>2, <2>8 DEF Ran, GraphStates
    <3>2. graph[t].request \in BOOLEAN
      BY <2>2 DEF GraphStates
    <3> QED
      BY <2>2, <2>3, <2>4, <2>8, <3>1, <3>2, NodesRunIs, ChatAssumption
  <2> QED
    BY <2>5, <2>6, <2>7, <2>8 DEF Nodes
<1>2. IInv /\ IInv' /\ [Next]_vars =>
        [\A t \in Turns : graph'[t] # graph[t] /\ graph'[t].last # "closed" =>
             /\ NodesRun(graph'[t]) = NodesRun(graph[t]) + 1
             /\ NodesRun(graph'[t]) <= 4 * MaxIterations + 2]_vars
  BY <1>1
<1> QED
  BY <1>2, Invariance, PTL DEF Spec, GraphsAreShort

=============================================================================
