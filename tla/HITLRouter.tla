------------------------------ MODULE HITLRouter ------------------------------
(***************************************************************************)
(* The HITL REST endpoints (common/hitl/router.py) over the HITL store     *)
(* (common/hitl/store.py), as several server processes run them against    *)
(* one SQLite file or one MySQL table.                                     *)
(*                                                                         *)
(* A worker is one operating-system process: `uvicorn --workers 2`, two    *)
(* replicas per deployment, one deployment per agent.  Its handlers never  *)
(* await between two store calls, so a worker runs one call at a time; the *)
(* statements of calls on different workers interleave.  Each worker keeps *)
(* one connection for ever, with autocommit off.  Hence two effects the    *)
(* code never mentions:                                                    *)
(*   - MySQL: the first SELECT opens a REPEATABLE READ snapshot that lasts *)
(*     until the worker's next commit or rollback (inSnapshot, snapshot);  *)
(*   - an UPDATE that matches no row returns without commit or rollback,   *)
(*     so its locks stay (rowLocks): on SQLite the one write lock of the   *)
(*     file, on InnoDB the lock of that row.                               *)
(***************************************************************************)
EXTENDS Naturals, Sequences

CONSTANTS Requests,     \* request identifiers, fresh UUIDs
          Workers,      \* server processes
          Agents,       \* HITLAgentType
          Scope,        \* the agent a worker's router is scoped to
          AgentOf,      \* the agent_type a request is created with
          Provider,     \* "sqlite" or "mysql"
          Lifetimes,    \* expires_in_minutes, in clock ticks
          MaxClock      \* bound of the clock

ASSUME HITLAssumption ==
    /\ Scope \in [Workers -> Agents]
    /\ AgentOf \in [Requests -> Agents]
    /\ Provider \in {"sqlite", "mysql"}
    /\ Lifetimes \subseteq Nat \ {0}
    /\ MaxClock \in Nat

VARIABLES status,       \* status column of the committed row, or "absent"
          expires_at,   \* expires_at column
          clock,        \* datetime.utcnow()
          pc,           \* where each worker's current call stands
          call,         \* the arguments and locals of that call
          listed,       \* the pending requests a list call has read
          inSnapshot,   \* the worker's connection has a read view open
          snapshot,     \* the status column as that read view shows it
          rowLocks,     \* rows whose locks the worker's open transaction holds
          told          \* per request, the statuses returned with 200 by PUT and DELETE

vars == <<status, expires_at, clock, pc, call, listed, inSnapshot, snapshot,
          rowLocks, told>>

Lifecycle == INSTANCE HITLLifecycle WITH Requests <- Requests, status <- status

Settlements == {"approved", "rejected", "cancelled", "expired"}
HumanSettlements == {"approved", "rejected", "cancelled"}
RowStates   == {"absent", "pending"} \cup Settlements
NoRequest   == "no request"
NoCall      == [req |-> NoRequest, verdict |-> "expired", at |-> 0]
NoRows      == [r \in Requests |-> "absent"]

TypeOK ==
    /\ status \in [Requests -> RowStates]
    /\ expires_at \in [Requests -> Nat]
    /\ clock \in Nat
    /\ pc \in [Workers -> {"idle", "update", "readback", "expire", "list", "count"}]
    /\ call \in [Workers -> [req : Requests \cup {NoRequest},
                             verdict : Settlements, at : Nat]]
    /\ \A w \in Workers :
           pc[w] \in {"update", "readback"} =>
               call[w].req \in Requests /\ call[w].verdict \in HumanSettlements
    /\ listed \in [Workers -> SUBSET Requests]
    /\ inSnapshot \in [Workers -> BOOLEAN]
    /\ snapshot \in [Workers -> [Requests -> RowStates]]
    /\ rowLocks \in [Workers -> SUBSET Requests]
    /\ told \in [Requests -> Seq(RowStates)]

Init ==
    /\ status = NoRows
    /\ expires_at = [r \in Requests |-> 0]
    /\ clock = 0
    /\ pc = [w \in Workers |-> "idle"]
    /\ call = [w \in Workers |-> NoCall]
    /\ listed = [w \in Workers |-> {}]
    /\ inSnapshot = [w \in Workers |-> FALSE]
    /\ snapshot = [w \in Workers |-> NoRows]
    /\ rowLocks = [w \in Workers |-> {}]
    /\ told = [r \in Requests |-> <<>>]

-----------------------------------------------------------------------------
(* The connection and the database.                                        *)

\* What a SELECT on worker w's connection returns.
View(w) == IF inSnapshot[w] THEN snapshot[w] ELSE status

\* Mutant: a connection with autocommit on, each SELECT its own read view.
SelectAutocommit(w) == UNCHANGED <<inSnapshot, snapshot, rowLocks>>

\* A SELECT: on MySQL it opens a read view if none is open.
Select(w) ==
    /\ IF Provider = "mysql"
       THEN /\ inSnapshot' = [inSnapshot EXCEPT ![w] = TRUE]
            /\ snapshot' = [snapshot EXCEPT ![w] = View(w)]
       ELSE UNCHANGED <<inSnapshot, snapshot>>
    /\ UNCHANGED rowLocks

\* connection.commit() or connection.rollback(), or the death of the process.
EndTransaction(w) ==
    /\ inSnapshot' = [inSnapshot EXCEPT ![w] = FALSE]
    /\ snapshot' = [snapshot EXCEPT ![w] = NoRows]
    /\ rowLocks' = [rowLocks EXCEPT ![w] = {}]

\* Some other worker's open transaction holds a lock.
OthersHoldLocks(w) == \E v \in Workers \ {w} : rowLocks[v] # {}

\* A statement on row r has to wait for another worker's transaction.
Blocked(w, r) ==
    IF Provider = "sqlite" THEN OthersHoldLocks(w)
                           ELSE \E v \in Workers \ {w} : r \in rowLocks[v]

\* The reply is sent and the worker takes its next call.
Finish(w) ==
    /\ pc' = [pc EXCEPT ![w] = "idle"]
    /\ call' = [call EXCEPT ![w] = NoCall]

Goto(w, step) == pc' = [pc EXCEPT ![w] = step]

-----------------------------------------------------------------------------
(* POST /hitl/requests                                                     *)

\* store.create: one INSERT and its commit.  On SQLite it needs the write lock;
\* when another worker holds it the call is answered 500 and nothing changes.
Create(w, r, lifetime) ==
    /\ pc[w] = "idle"
    /\ AgentOf[r] = Scope[w]
    /\ status[r] = "absent"
    /\ Provider = "sqlite" => ~OthersHoldLocks(w)
    /\ status' = [status EXCEPT ![r] = "pending"]
    /\ expires_at' = [expires_at EXCEPT ![r] = clock + lifetime]
    /\ EndTransaction(w)
    /\ UNCHANGED <<clock, pc, call, listed, told>>

-----------------------------------------------------------------------------
(* GET /hitl/requests/{id}, GET /hitl/pending-count, and the calls of PUT  *)
(* and DELETE that are refused after their first SELECT: they only read.   *)

\* store.get finds the request and it is in the router's scope.
Found(w, r) == View(w)[r] # "absent" /\ AgentOf[r] = Scope[w]

ReadOnly(w) ==
    /\ pc[w] = "idle"
    /\ Select(w)
    /\ UNCHANGED <<status, expires_at, clock, pc, call, listed, told>>

-----------------------------------------------------------------------------
(* PUT /hitl/requests/{id} and DELETE /hitl/requests/{id}                  *)

\* Mutant: the deadline is not looked at.
IgnoreDeadline(r) == TRUE

InTime(r) == ~(expires_at[r] < clock)

\* The arguments of the call, and the time at which it read the clock.
Remember(w, r, verdict, at) ==
    call' = [call EXCEPT ![w] = [req |-> r, verdict |-> verdict, at |-> at]]

\* respond_to_request up to the call of store.respond, or of expire_stale_requests
\* when the deadline has passed.
RespondCheck(w, r, verdict) ==
    /\ pc[w] = "idle"
    /\ Found(w, r)
    /\ View(w)[r] = "pending"
    /\ Select(w)
    /\ Goto(w, IF InTime(r) THEN "update" ELSE "expire")
    /\ Remember(w, r, verdict, clock)
    /\ UNCHANGED <<status, expires_at, clock, listed, told>>

\* cancel_request up to the call of store.cancel: no look at status or deadline.
CancelCheck(w, r) ==
    /\ pc[w] = "idle"
    /\ Found(w, r)
    /\ Select(w)
    /\ Goto(w, "update")
    /\ Remember(w, r, "cancelled", 0)
    /\ UNCHANGED <<status, expires_at, clock, listed, told>>

\* Mutants: the UPDATE of the mock provider, which has no status guard; an UPDATE
\* that also asks for expires_at >= now.
MatchesAnyRow(r) == TRUE
MatchesLiveRow(r) == status[r] = "pending" /\ clock <= expires_at[r]

\* WHERE id = ... AND status = 'pending', on the row as committed now.
Matches(r) == status[r] = "pending"

\* store.respond and store.cancel when the UPDATE changes the row: commit.
UpdateMatches(w) ==
    /\ pc[w] = "update"
    /\ Matches(call[w].req)
    /\ ~Blocked(w, call[w].req)
    /\ status' = [status EXCEPT ![call[w].req] = call[w].verdict]
    /\ EndTransaction(w)
    /\ Goto(w, "readback")
    /\ UNCHANGED <<expires_at, clock, call, listed, told>>

\* rowcount == 0: `return None` with the transaction still open; answered 400.
UpdateMisses(w) ==
    /\ pc[w] = "update"
    /\ ~Matches(call[w].req)
    /\ ~Blocked(w, call[w].req)
    /\ rowLocks' = [rowLocks EXCEPT ![w] = @ \cup {call[w].req}]
    /\ Finish(w)
    /\ UNCHANGED <<status, expires_at, clock, listed, inSnapshot, snapshot, told>>

\* `return self.get(request_id)`: the reply of a successful PUT or DELETE.
ReadBack(w) ==
    /\ pc[w] = "readback"
    /\ Select(w)
    /\ told' = [told EXCEPT ![call[w].req] = Append(@, View(w)[call[w].req])]
    /\ Finish(w)
    /\ UNCHANGED <<status, expires_at, clock, listed>>

-----------------------------------------------------------------------------
(* store.expire_stale_requests                                             *)

\* Mutant: a request gets one tick of grace.
StaleLater(r) == status[r] = "pending" /\ expires_at[r] + 1 < clock

Stale(r) == status[r] = "pending" /\ expires_at[r] < clock

\* One UPDATE over the table and its commit.  On SQLite it needs the write lock.
\* On InnoDB which rows it waits for depends on the index the optimiser takes.
ExpireStale(w) ==
    /\ Provider = "sqlite" => ~OthersHoldLocks(w)
    /\ status' = [r \in Requests |-> IF Stale(r) THEN "expired" ELSE status[r]]
    /\ EndTransaction(w)
    /\ UNCHANGED <<expires_at, clock, listed, told>>

\* PUT on a request past its deadline: sweep, then answer 400.
ExpireLate(w) ==
    /\ pc[w] = "expire"
    /\ ExpireStale(w)
    /\ Finish(w)

\* Mutant: no busy timeout and no read timeout.
WaitForever(w) == FALSE

\* A statement that waits longer than the driver's timeout (5 s on SQLite, 30 s on
\* pymysql) raises: rollback, and the call is answered 500.
StatementTimesOut(w) ==
    /\ \/ pc[w] = "update" /\ Blocked(w, call[w].req)
       \/ pc[w] \in {"expire", "idle"} /\ OthersHoldLocks(w)
    /\ EndTransaction(w)
    /\ Finish(w)
    /\ UNCHANGED <<status, expires_at, clock, listed, told>>

-----------------------------------------------------------------------------
(* GET /hitl/requests: sweep, then two SELECTs                             *)

ListExpire(w) ==
    /\ pc[w] = "idle"
    /\ ExpireStale(w)
    /\ Goto(w, "list")
    /\ Remember(w, NoRequest, "expired", clock)

\* The pending requests of the worker's agent that a SELECT shows it.
PendingSeen(w) == {r \in Requests : Found(w, r) /\ View(w)[r] = "pending"}

ListRows(w) ==
    /\ pc[w] = "list"
    /\ Select(w)
    /\ listed' = [listed EXCEPT ![w] = PendingSeen(w)]
    /\ Goto(w, "count")
    /\ UNCHANGED <<status, expires_at, clock, call, told>>

ListCount(w) ==
    /\ pc[w] = "count"
    /\ Select(w)
    /\ listed' = [listed EXCEPT ![w] = {}]
    /\ Finish(w)
    /\ UNCHANGED <<status, expires_at, clock, told>>

-----------------------------------------------------------------------------
(* The environment                                                         *)

\* The process dies and is restarted; the caller gets no answer.
Crash(w) ==
    /\ EndTransaction(w)
    /\ Finish(w)
    /\ listed' = [listed EXCEPT ![w] = {}]
    /\ UNCHANGED <<status, expires_at, clock, told>>

Tick ==
    /\ clock < MaxClock
    /\ clock' = clock + 1
    /\ UNCHANGED <<status, expires_at, pc, call, listed, inSnapshot, snapshot,
                   rowLocks, told>>

\* The steps a call in flight takes by itself.
Continue(w) ==
    \/ UpdateMatches(w) \/ UpdateMisses(w) \/ ReadBack(w)
    \/ ExpireLate(w) \/ ListRows(w) \/ ListCount(w)
    \/ pc[w] # "idle" /\ StatementTimesOut(w)

Next ==
    \/ \E w \in Workers, r \in Requests, d \in Lifetimes : Create(w, r, d)
    \/ \E w \in Workers, r \in Requests, v \in {"approved", "rejected"} :
           RespondCheck(w, r, v)
    \/ \E w \in Workers, r \in Requests : CancelCheck(w, r)
    \/ \E w \in Workers :
           \/ ReadOnly(w)
           \/ UpdateMatches(w) \/ UpdateMisses(w) \/ ReadBack(w)
           \/ ExpireLate(w) \/ StatementTimesOut(w)
           \/ ListExpire(w) \/ ListRows(w) \/ ListCount(w)
           \/ Crash(w)
    \/ Tick

Spec == Init /\ [][Next]_vars

\* A handler that has started runs on: nothing in it waits for a caller.
FairSpec == Spec /\ \A w \in Workers : WF_vars(Continue(w))

-----------------------------------------------------------------------------
(* Properties                                                              *)

\* The service keeps its promise (HITLLifecycle): a request is opened once and
\* settled at most once, although PUT, DELETE and the sweep of any worker read the
\* status in one transaction and write it in another, and may read a stale one.
ImplementsLifecycle == Lifecycle!Spec

\* At most one of the callers who compete for a request is answered 200, and what
\* the answer says is the settlement the table keeps for ever.
TruthfulReply ==
    \A r \in Requests :
        told[r] # <<>> => told[r] = <<status[r]>> /\ status[r] \in HumanSettlements

\* a is what a row was at an earlier moment, b what it is.
Precedes(a, b) == a = b \/ a = "absent" \/ (a = "pending" /\ b # "absent")

\* However long a worker keeps its read view, the view shows an earlier state of each
\* row and never a settlement other than the final one.
SnapshotIsPast ==
    \A w \in Workers : inSnapshot[w] =>
        \A r \in Requests : Precedes(snapshot[w][r], status[r])

\* A verdict is committed only by a call that found the deadline not passed: a
\* request is approved late by no more than the run of one handler.
NoLateVerdict ==
    [][\A r \in Requests :
          status[r] = "pending" /\ status'[r] \in {"approved", "rejected"} =>
              \E w \in Workers : /\ pc[w] = "update"
                                 /\ call[w].req = r
                                 /\ call[w].at <= expires_at[r]]_vars

\* A list reply shows no pending request that was past its deadline when the call
\* began, whatever other workers committed between its three statements.
ListedAreLive ==
    \A w \in Workers : pc[w] = "count" =>
        \A r \in listed[w] : call[w].at <= expires_at[r]

\* The two SELECTs of one list reply agree: pending_count is the number of pending
\* requests in the list (before pagination).  MySQL only: one read view serves both.
ListCountAgree ==
    \A w \in Workers : pc[w] = "count" => listed[w] = PendingSeen(w)

\* A lock left behind by an UPDATE that matched nothing is a lock on a settled row:
\* on MySQL it never stands between a caller and a pending request.
LeakedLocksAreSettled ==
    \A w \in Workers : \A r \in rowLocks[w] : status[r] \in Settlements

\* A call waits for other workers' locks only so long: each call is answered, even
\* though a lock that leaked on an idle worker may never be released.
CallsReturn == \A w \in Workers : (pc[w] # "idle") ~> (pc[w] = "idle")

\* "Check if request exists": a request that exists, in the router's scope, is found.
ExistingIsFound ==
    \A w \in Workers, r \in Requests :
        status[r] # "absent" /\ AgentOf[r] = Scope[w] => Found(w, r)

=============================================================================
