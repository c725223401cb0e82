--------------------------- MODULE HITLRouterProofs ---------------------------
(***************************************************************************)
(* Proofs about HITLRouter, for any set of requests, any set of worker     *)
(* processes, either provider and any lifetimes.                           *)
(***************************************************************************)
EXTENDS HITLRouter, TLAPS

(***************************************************************************)
(* Type correctness.                                                       *)
(***************************************************************************)

\* The two ways a step leaves a worker's connection keep the types of its state.
LEMMA SelectTypes ==
    ASSUME TypeOK, NEW w \in Workers, Select(w)
    PROVE  /\ inSnapshot' \in [Workers -> BOOLEAN]
           /\ snapshot' \in [Workers -> [Requests -> RowStates]]
           /\ rowLocks' \in [Workers -> SUBSET Requests]
BY DEF TypeOK, Select, View

LEMMA EndTransactionTypes ==
    ASSUME TypeOK, NEW w \in Workers, EndTransaction(w)
    PROVE  /\ inSnapshot' \in [Workers -> BOOLEAN]
           /\ snapshot' \in [Workers -> [Requests -> RowStates]]
           /\ rowLocks' \in [Workers -> SUBSET Requests]
<1>1. NoRows \in [Requests -> RowStates]
    BY DEF NoRows, RowStates
<1>2. QED
    BY <1>1 DEF TypeOK, EndTransaction

\* The calls in flight on the other workers are not disturbed.
LEMMA FinishTypes ==
    ASSUME TypeOK, NEW w \in Workers, Finish(w)
    PROVE  /\ pc' \in [Workers -> {"idle", "update", "readback", "expire", "list", "count"}]
           /\ call' \in [Workers -> [req : Requests \cup {NoRequest},
                                     verdict : Settlements, at : Nat]]
           /\ \A v \in Workers :
                  pc'[v] \in {"update", "readback"} =>
                      call'[v].req \in Requests /\ call'[v].verdict \in HumanSettlements
<1>1. NoCall \in [req : Requests \cup {NoRequest}, verdict : Settlements, at : Nat]
    BY DEF NoCall, Settlements
<1>2. QED
    BY <1>1 DEF TypeOK, Finish

LEMMA TypeStep ==
    ASSUME TypeOK, [Next]_vars
    PROVE  TypeOK'
<1> USE DEF RowStates, Settlements, HumanSettlements, Goto, Remember
<1>1. ASSUME NEW w \in Workers, NEW r \in Requests, NEW d \in Lifetimes,
             Create(w, r, d)
      PROVE  TypeOK'
    <2>1. clock + d \in Nat
        BY HITLAssumption DEF TypeOK
    <2>2. QED
        BY <1>1, <2>1, EndTransactionTypes DEF TypeOK, Create
<1>2. ASSUME NEW w \in Workers, NEW r \in Requests,
             NEW v \in {"approved", "rejected"}, RespondCheck(w, r, v)
      PROVE  TypeOK'
    BY <1>2, SelectTypes DEF TypeOK, RespondCheck
<1>3. ASSUME NEW w \in Workers, NEW r \in Requests, CancelCheck(w, r)
      PROVE  TypeOK'
    BY <1>3, SelectTypes DEF TypeOK, CancelCheck
<1>4. ASSUME NEW w \in Workers, ReadOnly(w) PROVE TypeOK'
    BY <1>4, SelectTypes DEF TypeOK, ReadOnly
<1>5. ASSUME NEW w \in Workers, UpdateMatches(w) PROVE TypeOK'
    BY <1>5, EndTransactionTypes DEF TypeOK, UpdateMatches
<1>6. ASSUME NEW w \in Workers, UpdateMisses(w) PROVE TypeOK'
    BY <1>6, FinishTypes DEF TypeOK, UpdateMisses
<1>7. ASSUME NEW w \in Workers, ReadBack(w) PROVE TypeOK'
    <2>1. call[w].req \in Requests
        BY <1>7 DEF ReadBack, TypeOK
    <2>2. View(w)[call[w].req] \in RowStates
        BY <2>1 DEF View, TypeOK
    <2>3. told' \in [Requests -> Seq(RowStates)]
        BY <1>7, <2>1, <2>2 DEF ReadBack, TypeOK
    <2>4. QED
        BY <1>7, <2>3, SelectTypes, FinishTypes DEF TypeOK, ReadBack
<1>8. ASSUME NEW w \in Workers, ExpireLate(w) PROVE TypeOK'
    BY <1>8, EndTransactionTypes, FinishTypes DEF TypeOK, ExpireLate, ExpireStale
<1>9. ASSUME NEW w \in Workers, StatementTimesOut(w) PROVE TypeOK'
    BY <1>9, EndTransactionTypes, FinishTypes DEF TypeOK, StatementTimesOut
<1>10. ASSUME NEW w \in Workers, ListExpire(w) PROVE TypeOK'
    BY <1>10, EndTransactionTypes DEF TypeOK, ListExpire, ExpireStale
<1>11. ASSUME NEW w \in Workers, ListRows(w) PROVE TypeOK'
    <2>1. PendingSeen(w) \subseteq Requests
        BY DEF PendingSeen
    <2>2. QED
        BY <1>11, <2>1, SelectTypes DEF TypeOK, ListRows
<1>12. ASSUME NEW w \in Workers, ListCount(w) PROVE TypeOK'
    BY <1>12, SelectTypes, FinishTypes DEF TypeOK, ListCount
<1>13. ASSUME NEW w \in Workers, Crash(w) PROVE TypeOK'
    BY <1>13, EndTransactionTypes, FinishTypes DEF TypeOK, Crash
<1>14. CASE Tick
    BY <1>14 DEF TypeOK, Tick
<1>15. CASE UNCHANGED vars
    BY <1>15 DEF TypeOK, vars
<1>16. QED
    BY <1>1, <1>2, <1>3, <1>4, <1>5, <1>6, <1>7, <1>8, <1>9, <1>10, <1>11,
       <1>12, <1>13, <1>14, <1>15 DEF Next

\* The variables hold what the handlers and the table can hold.
THEOREM TypeCorrect == Spec => []TypeOK
<1>1. Init => TypeOK
    BY DEF Init, TypeOK, NoRows, NoCall, RowStates, Settlements, HumanSettlements
<1>2. QED
    BY <1>1, TypeStep, PTL DEF Spec

(***************************************************************************)
(* The service implements its promise.                                     *)
(***************************************************************************)

\* Each step moves the status column as HITLLifecycle allows, or leaves it.
LEMMA StepRefines ==
    ASSUME TypeOK, [Next]_vars
    PROVE  [Lifecycle!Next]_status
<1> USE DEF Lifecycle!Next
<1>1. ASSUME NEW w \in Workers, NEW r \in Requests, NEW d \in Lifetimes,
             Create(w, r, d)
      PROVE  Lifecycle!Open(r)
    BY <1>1 DEF Create, Lifecycle!Open
<1>2. ASSUME NEW w \in Workers, UpdateMatches(w)
      PROVE  Lifecycle!Next
    <2>1. /\ call[w].req \in Requests
          /\ call[w].verdict \in HumanSettlements
        BY <1>2 DEF UpdateMatches, TypeOK
    <2>2. call[w].verdict \in Lifecycle!HumanSettlements
        BY <2>1 DEF HumanSettlements, Lifecycle!HumanSettlements, Lifecycle!Settlements
    <2>3. Lifecycle!Settle(call[w].req, call[w].verdict)
        BY <1>2 DEF UpdateMatches, Matches, Lifecycle!Settle
    <2>4. QED
        BY <2>1, <2>2, <2>3
<1>3. ASSUME NEW w \in Workers, ExpireStale(w)
      PROVE  Lifecycle!Next
    <2> DEFINE S == {r \in Requests : Stale(r)}
    <2>1. Lifecycle!Expire(S)
        BY <1>3 DEF ExpireStale, Stale, Lifecycle!Expire
    <2>2. S \in SUBSET Requests
        OBVIOUS
    <2>3. QED
        BY <2>1, <2>2
<1>4. ASSUME NEW w \in Workers,
             \/ ReadOnly(w) \/ UpdateMisses(w) \/ ReadBack(w) \/ StatementTimesOut(w)
             \/ ListRows(w) \/ ListCount(w) \/ Crash(w)
      PROVE  UNCHANGED status
    BY <1>4 DEF ReadOnly, UpdateMisses, ReadBack, StatementTimesOut, ListRows,
                ListCount, Crash
<1>5. ASSUME NEW w \in Workers, NEW r \in Requests,
             \/ \E v \in {"approved", "rejected"} : RespondCheck(w, r, v)
             \/ CancelCheck(w, r)
      PROVE  UNCHANGED status
    BY <1>5 DEF RespondCheck, CancelCheck
<1>6. CASE Tick \/ UNCHANGED vars
    BY <1>6 DEF Tick, vars
<1>7. QED
    BY <1>1, <1>2, <1>3, <1>4, <1>5, <1>6 DEF Next, ExpireLate, ListExpire

\* Every behaviour of the endpoints over a shared table is a behaviour of
\* HITLLifecycle: requests are settled once, for ever.
THEOREM RouterImplementsLifecycle == Spec => ImplementsLifecycle
<1>1. Init => Lifecycle!Init
    BY DEF Init, NoRows, Lifecycle!Init
<1>2. QED
    BY <1>1, StepRefines, TypeCorrect, PTL DEF Spec, ImplementsLifecycle, Lifecycle!Spec

(***************************************************************************)
(* A read view shows the past.                                             *)
(***************************************************************************)

\* A step that moves the status column as the lifecycle allows keeps what was an
\* earlier state of a row an earlier state of it.
LEMMA PrecedesStep ==
    ASSUME TypeOK, [Lifecycle!Next]_status, NEW r \in Requests, NEW a,
           Precedes(a, status[r])
    PROVE  Precedes(a, status'[r])
<1> USE DEF Precedes, TypeOK, Lifecycle!HumanSettlements, Lifecycle!Settlements
<1>1. CASE UNCHANGED status
    BY <1>1
<1>2. ASSUME NEW q \in Requests, Lifecycle!Open(q) PROVE Precedes(a, status'[r])
    BY <1>2 DEF Lifecycle!Open
<1>3. ASSUME NEW q \in Requests, NEW s \in Lifecycle!HumanSettlements,
             Lifecycle!Settle(q, s)
      PROVE  Precedes(a, status'[r])
    BY <1>3 DEF Lifecycle!Settle
<1>4. ASSUME NEW S \in SUBSET Requests, Lifecycle!Expire(S)
      PROVE  Precedes(a, status'[r])
    BY <1>4 DEF Lifecycle!Expire
<1>5. QED
    BY <1>1, <1>2, <1>3, <1>4 DEF Lifecycle!Next

\* The read view of a worker is kept, opened on the committed rows, or closed.
LEMMA ViewStep ==
    ASSUME TypeOK, [Next]_vars, NEW w \in Workers, inSnapshot'[w]
    PROVE  snapshot'[w] = View(w)
<1> USE DEF TypeOK, View
<1>1. ASSUME NEW v \in Workers, Select(v) PROVE snapshot'[w] = View(w)
    BY <1>1 DEF Select
<1>2. ASSUME NEW v \in Workers, EndTransaction(v) PROVE snapshot'[w] = View(w)
    BY <1>2 DEF EndTransaction
<1>3. CASE UNCHANGED <<inSnapshot, snapshot>>
    BY <1>3
<1>4. QED
    BY <1>1, <1>2, <1>3
       DEF Next, vars, Create, RespondCheck, CancelCheck, ReadOnly, UpdateMatches,
           UpdateMisses, ReadBack, ExpireLate, ExpireStale, StatementTimesOut,
           ListExpire, ListRows, ListCount, Crash, Tick

\* What a worker reads of a row is that row, or an earlier state of it.
LEMMA ViewIsPast ==
    ASSUME SnapshotIsPast, NEW w \in Workers, NEW r \in Requests
    PROVE  Precedes(View(w)[r], status[r])
BY DEF SnapshotIsPast, View, Precedes

LEMMA SnapshotStep ==
    ASSUME TypeOK, SnapshotIsPast, [Next]_vars
    PROVE  SnapshotIsPast'
<1> SUFFICES ASSUME NEW w \in Workers, inSnapshot'[w], NEW r \in Requests
             PROVE  Precedes(snapshot'[w][r], status'[r])
    BY DEF SnapshotIsPast, Precedes
<1>1. Precedes(View(w)[r], status[r])
    BY ViewIsPast
<1>2. Precedes(View(w)[r], status'[r])
    BY <1>1, StepRefines, PrecedesStep
<1>3. QED
    BY <1>2, ViewStep

\* A worker that reads stale rows for ever still never sees a settlement that is not
\* the final one.
THEOREM SnapshotsShowThePast == Spec => []SnapshotIsPast
<1>1. Init => SnapshotIsPast
    BY DEF Init, SnapshotIsPast
<1>2. QED
    BY <1>1, SnapshotStep, TypeCorrect, PTL DEF Spec

(***************************************************************************)
(* Replies are truthful.                                                   *)
(***************************************************************************)

\* A settled row keeps its status, and a row once there stays.
LEMMA SettledStays ==
    ASSUME TypeOK, [Next]_vars, NEW r \in Requests
    PROVE  /\ status[r] \in Settlements => status'[r] = status[r]
           /\ status[r] # "absent" => status'[r] # "absent"
<1>1. Precedes(status[r], status[r])
    BY DEF Precedes
<1>2. Precedes(status[r], status'[r])
    BY <1>1, StepRefines, PrecedesStep
<1>3. QED
    BY <1>2 DEF Precedes, Settlements

\* Between its commit and its reply a call holds the only claim on the request: no
\* one else was told, no other call is about to be, and the row says what it wrote.
ReadBackInv ==
    /\ \A w \in Workers : pc[w] = "readback" =>
           /\ ~inSnapshot[w]
           /\ told[call[w].req] = <<>>
           /\ status[call[w].req] = call[w].verdict
    /\ \A v, w \in Workers :
           v # w /\ pc[v] = "readback" /\ pc[w] = "readback" =>
               call[v].req # call[w].req

ReplyInv == TruthfulReply /\ ReadBackInv

\* The steps that bring no call to its reply and give none.
LEMMA ReplyQuietStep ==
    ASSUME TypeOK, ReplyInv, [Next]_vars, UNCHANGED told,
           \A w \in Workers : pc'[w] = "readback" =>
               /\ pc[w] = "readback"
               /\ UNCHANGED <<call[w], inSnapshot[w]>>
    PROVE  ReplyInv'
<1>1. ASSUME NEW r \in Requests, told[r] # <<>>
      PROVE  told[r] = <<status'[r]>> /\ status'[r] \in HumanSettlements
    <2>1. told[r] = <<status[r]>> /\ status[r] \in HumanSettlements
        BY <1>1 DEF ReplyInv, TruthfulReply
    <2>2. status[r] \in Settlements
        BY <2>1 DEF HumanSettlements, Settlements
    <2>3. status'[r] = status[r]
        BY <2>2, SettledStays
    <2>4. QED
        BY <2>1, <2>3
<1>2. ASSUME NEW w \in Workers, pc'[w] = "readback"
      PROVE  status'[call'[w].req] = call'[w].verdict
    <2>1. /\ call[w].req \in Requests
          /\ status[call[w].req] = call[w].verdict
          /\ call[w].verdict \in Settlements
        BY <1>2 DEF ReplyInv, ReadBackInv, TypeOK
    <2>2. status'[call[w].req] = status[call[w].req]
        BY <2>1, SettledStays
    <2>3. QED
        BY <1>2, <2>1, <2>2
<1>3. TruthfulReply'
    BY <1>1 DEF TruthfulReply
<1>4. ReadBackInv'
    BY <1>2 DEF ReplyInv, ReadBackInv
<1>5. QED
    BY <1>3, <1>4 DEF ReplyInv

LEMMA ReplyStep ==
    ASSUME TypeOK, ReplyInv, [Next]_vars
    PROVE  ReplyInv'
<1>1. ASSUME NEW w \in Workers, UpdateMatches(w) PROVE ReplyInv'
    <2> DEFINE r == call[w].req
    <2>1. /\ r \in Requests
          /\ status[r] = "pending"
          /\ call[w].verdict \in HumanSettlements
          /\ status' = [status EXCEPT ![r] = call[w].verdict]
          /\ UNCHANGED <<told, call>>
        BY <1>1 DEF UpdateMatches, Matches, TypeOK
    <2>2. told[r] = <<>>
        BY <2>1 DEF ReplyInv, TruthfulReply, HumanSettlements
    <2>3. \A v \in Workers : pc[v] = "readback" => call[v].req # r
        BY <2>1 DEF ReplyInv, ReadBackInv, TypeOK, HumanSettlements
    <2>4. \A v \in Workers \ {w} : pc'[v] = pc[v] /\ inSnapshot'[v] = inSnapshot[v]
        BY <1>1 DEF UpdateMatches, Goto, EndTransaction, TypeOK
    <2>5. ~inSnapshot'[w]
        BY <1>1 DEF UpdateMatches, EndTransaction, TypeOK
    <2>6. TruthfulReply'
        BY <2>1, <2>2 DEF ReplyInv, TruthfulReply, TypeOK
    <2>7. \A v \in Workers : pc'[v] = "readback" =>
             /\ ~inSnapshot'[v]
             /\ told'[call'[v].req] = <<>>
             /\ status'[call'[v].req] = call'[v].verdict
        BY <2>1, <2>2, <2>3, <2>4, <2>5 DEF ReplyInv, ReadBackInv, TypeOK
    <2>8. \A v, u \in Workers :
             v # u /\ pc'[v] = "readback" /\ pc'[u] = "readback" =>
                 call'[v].req # call'[u].req
        BY <2>1, <2>3, <2>4 DEF ReplyInv, ReadBackInv, TypeOK
    <2>9. QED
        BY <2>6, <2>7, <2>8 DEF ReplyInv, ReadBackInv
<1>2. ASSUME NEW w \in Workers, ReadBack(w) PROVE ReplyInv'
    <2> DEFINE r == call[w].req
    <2>1. /\ r \in Requests
          /\ told[r] = <<>>
          /\ status[r] = call[w].verdict
          /\ call[w].verdict \in HumanSettlements
          /\ View(w) = status
        BY <1>2 DEF ReadBack, ReplyInv, ReadBackInv, TypeOK, View
    <2>2. /\ told' = [told EXCEPT ![r] = <<status[r]>>]
          /\ UNCHANGED status
        <3>1. /\ told' = [told EXCEPT ![r] = Append(told[r], View(w)[r])]
              /\ UNCHANGED status
            BY <1>2 DEF ReadBack
        <3>2. \A x : Append(<<>>, x) = <<x>>
            OBVIOUS
        <3>3. Append(told[r], View(w)[r]) = <<status[r]>>
            BY <2>1, <3>2
        <3>4. QED
            BY <3>1, <3>3
    <2>3. /\ pc'[w] # "readback"
          /\ \A v \in Workers \ {w} :
                 pc'[v] = pc[v] /\ call'[v] = call[v] /\ inSnapshot'[v] = inSnapshot[v]
        BY <1>2 DEF ReadBack, Finish, Select, TypeOK
    <2>4. TruthfulReply'
        BY <2>1, <2>2 DEF ReplyInv, TruthfulReply, TypeOK
    <2>5. \A v \in Workers \ {w} : pc[v] = "readback" => call[v].req # r
        BY <1>2 DEF ReadBack, ReplyInv, ReadBackInv
    <2>6. ASSUME NEW v \in Workers, pc'[v] = "readback"
          PROVE  /\ ~inSnapshot'[v]
                 /\ told'[call'[v].req] = <<>>
                 /\ status'[call'[v].req] = call'[v].verdict
        <3>1. /\ v # w
              /\ pc[v] = "readback"
              /\ call'[v] = call[v]
              /\ inSnapshot'[v] = inSnapshot[v]
            BY <2>3, <2>6
        <3>2. call[v].req # r
            BY <2>5, <3>1
        <3>3. told'[call[v].req] = told[call[v].req]
            BY <2>2, <3>1, <3>2 DEF TypeOK
        <3>4. QED
            BY <2>2, <3>1, <3>3 DEF ReplyInv, ReadBackInv
    <2>7. \A v, u \in Workers :
             v # u /\ pc'[v] = "readback" /\ pc'[u] = "readback" =>
                 call'[v].req # call'[u].req
        BY <2>3 DEF ReplyInv, ReadBackInv
    <2>8. QED
        BY <2>4, <2>6, <2>7 DEF ReplyInv, ReadBackInv
<1>3. ASSUME NEW w \in Workers,
             \/ \E r \in Requests, d \in Lifetimes : Create(w, r, d)
             \/ \E r \in Requests, v \in {"approved", "rejected"} : RespondCheck(w, r, v)
             \/ \E r \in Requests : CancelCheck(w, r)
             \/ ReadOnly(w) \/ UpdateMisses(w) \/ ExpireLate(w) \/ StatementTimesOut(w)
             \/ ListExpire(w) \/ ListRows(w) \/ ListCount(w) \/ Crash(w)
      PROVE  ReplyInv'
    <2>1. UNCHANGED told
        BY <1>3 DEF Create, RespondCheck, CancelCheck, ReadOnly, UpdateMisses,
                    ExpireLate, ExpireStale, StatementTimesOut, ListExpire, ListRows,
                    ListCount, Crash
    <2>2. pc'[w] # "readback"
        BY <1>3 DEF Create, RespondCheck, CancelCheck, ReadOnly, UpdateMisses,
                    ExpireLate, ExpireStale, StatementTimesOut, ListExpire, ListRows,
                    ListCount, Crash, Finish, Goto, TypeOK
    <2>3. \A v \in Workers \ {w} : UNCHANGED <<pc[v], call[v], inSnapshot[v]>>
        BY <1>3 DEF Create, RespondCheck, CancelCheck, ReadOnly, UpdateMisses,
                    ExpireLate, ExpireStale, StatementTimesOut, ListExpire, ListRows,
                    ListCount, Crash, Finish, Goto, Remember, Select, EndTransaction,
                    TypeOK
    <2>4. \A v \in Workers : pc'[v] = "readback" =>
              /\ pc[v] = "readback"
              /\ UNCHANGED <<call[v], inSnapshot[v]>>
        BY <2>2, <2>3
    <2>5. QED
        BY <2>1, <2>4, ReplyQuietStep
<1>4. CASE Tick \/ UNCHANGED vars
    BY <1>4, ReplyQuietStep DEF Tick, vars
<1>5. QED
    BY <1>1, <1>2, <1>3, <1>4 DEF Next

\* Of all the callers who try to settle a request, through any workers, at most one is
\* answered 200, and the answer is the settlement the table keeps.
THEOREM RepliesAreTruthful == Spec => []TruthfulReply
<1>1. Init => ReplyInv
    BY DEF Init, ReplyInv, TruthfulReply, ReadBackInv
<1>2. ReplyInv => TruthfulReply
    BY DEF ReplyInv
<1>3. QED
    BY <1>1, <1>2, ReplyStep, TypeCorrect, PTL DEF Spec

(***************************************************************************)
(* Deadlines, and the locks an UPDATE without a match leaves behind.       *)
(***************************************************************************)

\* A call about to write names a row that exists; a verdict was in time when checked.
UpdateInv ==
    \A w \in Workers : pc[w] = "update" =>
        /\ status[call[w].req] # "absent"
        /\ call[w].verdict \in {"approved", "rejected"} =>
               call[w].at <= expires_at[call[w].req]

\* The deadline of a row that exists never changes.
LEMMA DeadlineFixed ==
    ASSUME TypeOK, [Next]_vars, NEW r \in Requests, status[r] # "absent"
    PROVE  expires_at'[r] = expires_at[r]
BY DEF TypeOK, Next, vars, Create, RespondCheck, CancelCheck, ReadOnly, UpdateMatches,
       UpdateMisses, ReadBack, ExpireLate, ExpireStale, StatementTimesOut,
       ListExpire, ListRows, ListCount, Crash, Tick

\* What a worker finds, even in a stale read view, exists.
LEMMA FoundExists ==
    ASSUME SnapshotIsPast, NEW w \in Workers, NEW r \in Requests, Found(w, r)
    PROVE  status[r] # "absent"
BY ViewIsPast DEF Found, Precedes

\* Only the first half of PUT or DELETE brings a call before its UPDATE.
LEMMA UpdateEntered ==
    ASSUME TypeOK, [Next]_vars, NEW w \in Workers, pc'[w] = "update"
    PROVE  \/ pc[w] = "update" /\ UNCHANGED call[w]
           \/ \E r \in Requests, v \in {"approved", "rejected"} :
                  RespondCheck(w, r, v) /\ InTime(r)
           \/ \E r \in Requests : CancelCheck(w, r)
<1> USE DEF TypeOK, Goto, Finish, Remember
<1>1. ASSUME NEW u \in Workers, NEW r \in Requests, NEW d \in Lifetimes,
             Create(u, r, d)
      PROVE  pc[w] = "update" /\ UNCHANGED call[w]
    BY <1>1 DEF Create
<1>2. ASSUME NEW u \in Workers, NEW r \in Requests,
             NEW v \in {"approved", "rejected"}, RespondCheck(u, r, v)
      PROVE  \/ pc[w] = "update" /\ UNCHANGED call[w]
             \/ RespondCheck(w, r, v) /\ InTime(r)
    BY <1>2 DEF RespondCheck
<1>3. ASSUME NEW u \in Workers, NEW r \in Requests, CancelCheck(u, r)
      PROVE  \/ pc[w] = "update" /\ UNCHANGED call[w]
             \/ CancelCheck(w, r)
    BY <1>3 DEF CancelCheck
<1>4. ASSUME NEW u \in Workers,
             \/ ReadOnly(u) \/ UpdateMatches(u) \/ UpdateMisses(u) \/ ReadBack(u)
             \/ ExpireLate(u) \/ StatementTimesOut(u) \/ ListExpire(u)
             \/ ListRows(u) \/ ListCount(u) \/ Crash(u)
      PROVE  pc[w] = "update" /\ UNCHANGED call[w]
    BY <1>4 DEF ReadOnly, UpdateMatches, UpdateMisses, ReadBack, ExpireLate,
                StatementTimesOut, ListExpire, ListRows, ListCount, Crash
<1>5. CASE Tick \/ UNCHANGED vars
    BY <1>5 DEF Tick, vars
<1>6. QED
    BY <1>1, <1>2, <1>3, <1>4, <1>5 DEF Next

LEMMA UpdateInvStep ==
    ASSUME TypeOK, SnapshotIsPast, UpdateInv, [Next]_vars
    PROVE  UpdateInv'
<1> SUFFICES ASSUME NEW w \in Workers, pc'[w] = "update"
             PROVE  /\ status'[call'[w].req] # "absent"
                    /\ call'[w].verdict \in {"approved", "rejected"} =>
                           call'[w].at <= expires_at'[call'[w].req]
    BY DEF UpdateInv
<1>1. CASE pc[w] = "update" /\ UNCHANGED call[w]
    <2>1. call[w].req \in Requests /\ status[call[w].req] # "absent"
        BY <1>1 DEF UpdateInv, TypeOK
    <2>2. QED
        BY <1>1, <2>1, SettledStays, DeadlineFixed DEF UpdateInv
<1>2. ASSUME NEW r \in Requests, NEW v \in {"approved", "rejected"},
             RespondCheck(w, r, v), InTime(r)
      PROVE  /\ status'[call'[w].req] # "absent"
             /\ call'[w].at <= expires_at'[call'[w].req]
    <2>1. call'[w].req = r /\ call'[w].at = clock
        BY <1>2 DEF RespondCheck, Remember, TypeOK
    <2>2. status[r] # "absent"
        BY <1>2, FoundExists DEF RespondCheck
    <2>3. clock <= expires_at[r]
        BY <1>2 DEF InTime, TypeOK
    <2>4. QED
        BY <2>1, <2>2, <2>3, SettledStays, DeadlineFixed
<1>3. ASSUME NEW r \in Requests, CancelCheck(w, r)
      PROVE  /\ status'[call'[w].req] # "absent"
             /\ call'[w].verdict \notin {"approved", "rejected"}
    <2>1. call'[w].req = r /\ call'[w].verdict = "cancelled"
        BY <1>3 DEF CancelCheck, Remember, TypeOK
    <2>2. status[r] # "absent"
        BY <1>3, FoundExists DEF CancelCheck
    <2>3. QED
        BY <2>1, <2>2, SettledStays
<1>4. QED
    BY <1>1, <1>2, <1>3, UpdateEntered

LEMMA UpdateInvHolds == Spec => []UpdateInv
<1>1. Init => UpdateInv
    BY DEF Init, UpdateInv
<1>2. QED
    BY <1>1, UpdateInvStep, SnapshotsShowThePast, TypeCorrect, PTL DEF Spec

\* The three statements that write the status column.
LEMMA StatusMovers ==
    ASSUME [Next]_vars, ~UNCHANGED status
    PROVE  \/ \E w \in Workers : UpdateMatches(w) \/ ExpireStale(w)
           \/ \E w \in Workers, r \in Requests, d \in Lifetimes : Create(w, r, d)
BY DEF Next, vars, RespondCheck, CancelCheck, ReadOnly, UpdateMisses, ReadBack,
       ExpireLate, StatementTimesOut, ListExpire, ListRows, ListCount, Crash, Tick

\* A request is approved or rejected only by a call that saw it before its deadline.
THEOREM NoVerdictTooLate == Spec => NoLateVerdict
<1> DEFINE InTimeStep ==
        \A r \in Requests :
            status[r] = "pending" /\ status'[r] \in {"approved", "rejected"} =>
                \E w \in Workers : /\ pc[w] = "update"
                                   /\ call[w].req = r
                                   /\ call[w].at <= expires_at[r]
<1>1. ASSUME TypeOK, UpdateInv, [Next]_vars PROVE [InTimeStep]_vars
    <2> SUFFICES ASSUME NEW r \in Requests, status[r] = "pending",
                        status'[r] \in {"approved", "rejected"}
                 PROVE  \E w \in Workers : /\ pc[w] = "update"
                                           /\ call[w].req = r
                                           /\ call[w].at <= expires_at[r]
        OBVIOUS
    <2>1. ASSUME NEW w \in Workers, UpdateMatches(w)
          PROVE  /\ pc[w] = "update"
                 /\ call[w].req = r
                 /\ call[w].at <= expires_at[r]
        BY <1>1, <2>1 DEF UpdateMatches, UpdateInv, TypeOK
    <2>2. ASSUME NEW w \in Workers, NEW q \in Requests, NEW d \in Lifetimes,
                 Create(w, q, d)
          PROVE  FALSE
        <3>1. status' = [status EXCEPT ![q] = "pending"]
            BY <2>2 DEF Create
        <3>2. status'[r] = "pending"
            BY <1>1, <3>1 DEF TypeOK
        <3>3. QED
            BY <3>2
    <2>3. ASSUME NEW w \in Workers, ExpireStale(w) PROVE FALSE
        BY <2>3 DEF ExpireStale
    <2>4. ~UNCHANGED status
        OBVIOUS
    <2>5. \/ \E w \in Workers : UpdateMatches(w) \/ ExpireStale(w)
          \/ \E w \in Workers, q \in Requests, d \in Lifetimes : Create(w, q, d)
        BY <1>1, <2>4, StatusMovers
    <2>6. QED
        BY <2>1, <2>2, <2>3, <2>5
<1>2. QED
    BY <1>1, UpdateInvHolds, TypeCorrect, PTL DEF Spec, NoLateVerdict

LEMMA LeakedLocksStep ==
    ASSUME TypeOK, UpdateInv, LeakedLocksAreSettled, [Next]_vars
    PROVE  LeakedLocksAreSettled'
<1> SUFFICES ASSUME NEW w \in Workers, NEW r \in rowLocks'[w]
             PROVE  status'[r] \in Settlements
    BY DEF LeakedLocksAreSettled
<1>1. \/ r \in rowLocks[w]
      \/ UpdateMisses(w) /\ r = call[w].req
    <2>1. ASSUME NEW v \in Workers, EndTransaction(v) PROVE r \in rowLocks[w]
        BY <2>1 DEF EndTransaction, TypeOK
    <2>2. ASSUME NEW v \in Workers, UpdateMisses(v)
          PROVE  r \in rowLocks[w] \/ (UpdateMisses(w) /\ r = call[w].req)
        BY <2>2 DEF UpdateMisses, TypeOK
    <2>3. CASE UNCHANGED rowLocks
        BY <2>3
    <2>4. QED
        BY <2>1, <2>2, <2>3
           DEF Next, vars, Create, RespondCheck, CancelCheck, ReadOnly, UpdateMatches,
               ReadBack, ExpireLate, ExpireStale, StatementTimesOut, ListExpire,
               ListRows, ListCount, Crash, Tick, Select
<1>2. r \in Requests /\ status[r] \in Settlements
    <2>1. CASE r \in rowLocks[w]
        BY <2>1 DEF LeakedLocksAreSettled, TypeOK
    <2>2. CASE UpdateMisses(w) /\ r = call[w].req
        <3>1. r \in Requests /\ status[r] # "absent" /\ status[r] # "pending"
            BY <2>2 DEF UpdateMisses, Matches, UpdateInv, TypeOK
        <3>2. QED
            BY <3>1 DEF TypeOK, RowStates
    <2>3. QED
        BY <1>1, <2>1, <2>2
<1>3. QED
    BY <1>2, SettledStays

\* The locks that leak are locks on settled rows, so on MySQL no leak ever keeps a
\* caller from a request that is still pending.
THEOREM LeakedLocksOnlySettled == Spec => []LeakedLocksAreSettled
<1>1. Init => LeakedLocksAreSettled
    BY DEF Init, LeakedLocksAreSettled
<1>2. QED
    BY <1>1, LeakedLocksStep, UpdateInvHolds, TypeCorrect, PTL DEF Spec

(***************************************************************************)
(* List replies.                                                           *)
(***************************************************************************)

\* Between the sweep and the first SELECT no pending row is older than the call; what
\* was read stays so.
ListInv ==
    \A w \in Workers :
        /\ pc[w] = "list" =>
               /\ ~inSnapshot[w]
               /\ call[w].at <= clock
               /\ \A r \in Requests : status[r] = "pending" => call[w].at <= expires_at[r]
        /\ pc[w] = "count" =>
               \A r \in listed[w] : status[r] # "absent" /\ call[w].at <= expires_at[r]

\* Only the sweep of a list call brings a worker before its SELECTs, and only the
\* first SELECT brings it before the second; other workers' steps leave it alone.
LEMMA ListEntered ==
    ASSUME TypeOK, [Next]_vars, NEW w \in Workers
    PROVE  /\ pc'[w] = "list" =>
                  \/ pc[w] = "list" /\ UNCHANGED <<call[w], inSnapshot[w]>>
                  \/ ListExpire(w)
           /\ pc'[w] = "count" =>
                  \/ /\ pc[w] = "count"
                     /\ UNCHANGED <<call[w], listed[w], inSnapshot[w], snapshot[w]>>
                  \/ ListRows(w)
<1> DEFINE Kept == UNCHANGED <<pc[w], call[w], listed[w], inSnapshot[w], snapshot[w]>>
           Outcome == \/ Kept
                      \/ pc'[w] \notin {"list", "count"}
                      \/ ListExpire(w) /\ pc'[w] = "list"
                      \/ ListRows(w) /\ pc'[w] = "count"
<1> USE DEF TypeOK, Goto, Finish, Remember, Select, EndTransaction
<1>1. ASSUME NEW u \in Workers, NEW r \in Requests, NEW d \in Lifetimes,
             Create(u, r, d)
      PROVE  Outcome
    BY <1>1 DEF Create
<1>2. ASSUME NEW u \in Workers, NEW r \in Requests,
             NEW v \in {"approved", "rejected"}, RespondCheck(u, r, v)
      PROVE  Outcome
    BY <1>2 DEF RespondCheck
<1>3. ASSUME NEW u \in Workers, NEW r \in Requests, CancelCheck(u, r)
      PROVE  Outcome
    BY <1>3 DEF CancelCheck
<1>4. ASSUME NEW u \in Workers, ReadOnly(u) PROVE Outcome
    BY <1>4 DEF ReadOnly
<1>5. ASSUME NEW u \in Workers, UpdateMatches(u) PROVE Outcome
    BY <1>5 DEF UpdateMatches
<1>6. ASSUME NEW u \in Workers,
             UpdateMisses(u) \/ ReadBack(u) \/ StatementTimesOut(u)
      PROVE  Outcome
    BY <1>6 DEF UpdateMisses, ReadBack, StatementTimesOut
<1>7. ASSUME NEW u \in Workers, ExpireLate(u) \/ Crash(u) \/ ListCount(u)
      PROVE  Outcome
    BY <1>7 DEF ExpireLate, ExpireStale, Crash, ListCount
<1>8. ASSUME NEW u \in Workers, ListExpire(u)
      PROVE  Outcome
    BY <1>8 DEF ListExpire, ExpireStale
<1>9. ASSUME NEW u \in Workers, ListRows(u)
      PROVE  Outcome
    BY <1>9 DEF ListRows
<1>10. ASSUME Tick \/ UNCHANGED vars PROVE Outcome
    BY <1>10 DEF Tick, vars
<1> HIDE DEF Outcome, TypeOK, Goto, Finish, Remember, Select, EndTransaction
<1>11. Outcome
    BY <1>1, <1>2, <1>3, <1>4, <1>5, <1>6, <1>7, <1>8, <1>9, <1>10 DEF Next
<1>12. QED
    BY <1>11 DEF Outcome

LEMMA ClockGrows ==
    ASSUME TypeOK, [Next]_vars
    PROVE  clock <= clock'
BY DEF TypeOK, Next, vars, Create, RespondCheck, CancelCheck, ReadOnly, UpdateMatches,
       UpdateMisses, ReadBack, ExpireLate, ExpireStale, StatementTimesOut,
       ListExpire, ListRows, ListCount, Crash, Tick

\* A row that becomes pending is due after now.
LEMMA PendingEntered ==
    ASSUME TypeOK, [Next]_vars, NEW r \in Requests, status'[r] = "pending"
    PROVE  \/ status[r] = "pending" /\ expires_at'[r] = expires_at[r]
           \/ clock <= expires_at'[r]
<1>1. CASE status[r] # "absent"
    <2>1. status[r] = "pending"
        BY <1>1, SettledStays DEF TypeOK, RowStates, Settlements
    <2>2. QED
        BY <2>1, DeadlineFixed
<1>2. CASE status[r] = "absent"
    <2>1. ~UNCHANGED status
        BY <1>2
    <2>2. ASSUME NEW w \in Workers, UpdateMatches(w) PROVE FALSE
        BY <1>2, <2>2 DEF UpdateMatches, Matches, TypeOK, HumanSettlements
    <2>3. ASSUME NEW w \in Workers, ExpireStale(w) PROVE FALSE
        BY <1>2, <2>3 DEF ExpireStale
    <2>4. ASSUME NEW w \in Workers, NEW q \in Requests, NEW d \in Lifetimes,
                 Create(w, q, d)
          PROVE  clock <= expires_at'[r]
        <3>1. q = r
            BY <1>2, <2>4 DEF Create, TypeOK
        <3>2. d \in Nat /\ clock \in Nat
            BY HITLAssumption DEF TypeOK
        <3>3. expires_at'[r] = clock + d
            BY <2>4, <3>1 DEF Create, TypeOK
        <3>4. QED
            BY <3>2, <3>3
    <2>5. QED
        BY <2>1, <2>2, <2>3, <2>4, StatusMovers
<1>3. QED
    BY <1>1, <1>2

LEMMA ListInvStep ==
    ASSUME TypeOK, ListInv, [Next]_vars
    PROVE  ListInv'
<1>1. ASSUME NEW w \in Workers, pc'[w] = "list"
      PROVE  /\ ~inSnapshot'[w]
             /\ call'[w].at <= clock'
             /\ \A r \in Requests :
                    status'[r] = "pending" => call'[w].at <= expires_at'[r]
    <2>1. CASE pc[w] = "list" /\ UNCHANGED <<call[w], inSnapshot[w]>>
        <3>1. call[w].at \in Nat /\ clock \in Nat /\ clock' \in Nat
            BY TypeStep DEF TypeOK
        <3>2. call'[w].at <= clock'
            BY <2>1, <3>1, ClockGrows DEF ListInv
        <3>3. ASSUME NEW r \in Requests, status'[r] = "pending"
              PROVE  call'[w].at <= expires_at'[r]
            <4>1. CASE status[r] = "pending" /\ expires_at'[r] = expires_at[r]
                BY <2>1, <4>1 DEF ListInv
            <4>2. CASE clock <= expires_at'[r] /\ status[r] = "absent"
                <5>1. expires_at'[r] \in Nat
                    BY TypeStep DEF TypeOK
                <5>2. QED
                    BY <2>1, <3>1, <4>2, <5>1 DEF ListInv
            <4>3. QED
                BY <3>3, <4>1, <4>2, PendingEntered, SettledStays, DeadlineFixed
                   DEF TypeOK, RowStates, Settlements
        <3>4. QED
            BY <2>1, <3>2, <3>3 DEF ListInv
    <2>2. CASE ListExpire(w)
        <3>1. /\ ~inSnapshot'[w]
              /\ call'[w].at = clock
              /\ clock' = clock
              /\ clock \in Nat
              /\ UNCHANGED expires_at
            BY <2>2 DEF ListExpire, ExpireStale, EndTransaction, Remember, TypeOK
        <3>2. ASSUME NEW r \in Requests, status'[r] = "pending"
              PROVE  clock <= expires_at[r]
            BY <2>2, <3>2 DEF ListExpire, ExpireStale, Stale, TypeOK
        <3>3. QED
            BY <3>1, <3>2
    <2>3. QED
        BY <1>1, <2>1, <2>2, ListEntered
<1>2. ASSUME NEW w \in Workers, pc'[w] = "count", NEW r \in listed'[w]
      PROVE  status'[r] # "absent" /\ call'[w].at <= expires_at'[r]
    <2>1. CASE pc[w] = "count" /\ UNCHANGED <<call[w], listed[w]>>
        <3>1. r \in Requests /\ status[r] # "absent" /\ call[w].at <= expires_at[r]
            BY <1>2, <2>1 DEF ListInv, TypeOK
        <3>2. QED
            BY <2>1, <3>1, SettledStays, DeadlineFixed
    <2>2. CASE ListRows(w)
        <3>1. r \in PendingSeen(w) /\ View(w) = status
            BY <1>2, <2>2 DEF ListRows, TypeOK, ListInv, View
        <3>2. r \in Requests /\ status[r] = "pending" /\ call[w].at <= expires_at[r]
            BY <2>2, <3>1 DEF PendingSeen, ListRows, ListInv
        <3>3. UNCHANGED <<status, expires_at, call>>
            BY <2>2 DEF ListRows
        <3>4. QED
            BY <3>2, <3>3
    <2>3. QED
        BY <1>2, <2>1, <2>2, ListEntered
<1>3. QED
    BY <1>1, <1>2 DEF ListInv

\* No list reply shows a pending request whose deadline had passed when the call began.
THEOREM ListsShowLiveRequests == Spec => []ListedAreLive
<1>1. Init => ListInv
    BY DEF Init, ListInv
<1>2. ListInv => ListedAreLive
    BY DEF ListInv, ListedAreLive
<1>3. QED
    BY <1>1, <1>2, ListInvStep, TypeCorrect, PTL DEF Spec

\* On MySQL both SELECTs of a list call read one and the same view.
CountInv ==
    \A w \in Workers : pc[w] = "count" => inSnapshot[w] /\ listed[w] = PendingSeen(w)

LEMMA CountInvStep ==
    ASSUME Provider = "mysql", TypeOK, CountInv, [Next]_vars
    PROVE  CountInv'
<1> SUFFICES ASSUME NEW w \in Workers, pc'[w] = "count"
             PROVE  inSnapshot'[w] /\ listed'[w] = PendingSeen(w)'
    BY DEF CountInv
<1>1. CASE /\ pc[w] = "count"
           /\ UNCHANGED <<call[w], listed[w], inSnapshot[w], snapshot[w]>>
    BY <1>1 DEF CountInv, PendingSeen, Found, View
<1>2. CASE ListRows(w)
    <2>1. inSnapshot'[w] /\ snapshot'[w] = View(w) /\ listed'[w] = PendingSeen(w)
        BY <1>2 DEF ListRows, Select, TypeOK
    <2>2. QED
        BY <2>1 DEF PendingSeen, Found, View
<1>3. QED
    BY <1>1, <1>2, ListEntered

\* On MySQL pending_count never contradicts the list it is returned with.
THEOREM ListAndCountAgree == Provider = "mysql" => (Spec => []ListCountAgree)
<1> SUFFICES ASSUME Provider = "mysql" PROVE Spec => []ListCountAgree
    OBVIOUS
<1>1. Init => CountInv
    BY DEF Init, CountInv
<1>2. CountInv => ListCountAgree
    BY DEF CountInv, ListCountAgree
<1>3. TypeOK /\ CountInv /\ [Next]_vars => CountInv'
    BY CountInvStep
<1>4. QED
    BY <1>1, <1>2, <1>3, TypeCorrect, PTL DEF Spec

=============================================================================
