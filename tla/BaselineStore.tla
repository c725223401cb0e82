---------------------------- MODULE BaselineStore ----------------------------
(***************************************************************************)
(* The baseline a drift detection compares a resource with: its row in     *)
(* drift_baselines and its entries in drift_baseline_history               *)
(* (bdp_drift/services/baseline_store.py), as the endpoints of             *)
(* bdp_drift/server.py use them.                                           *)
(*                                                                         *)
(* Every statement names one resource, so the module follows one; calls on *)
(* other resources meet it only at the locks of the file, which calls on   *)
(* this one take as well.  A worker is a process with the file open: the   *)
(* server, or a script like the bulk import of the documentation.  Its     *)
(* handlers do not await, so it runs one call at a time; it keeps one      *)
(* connection, and nothing in the store ever rolls back.  A call that      *)
(* raises therefore leaves a transaction open: its locks and its writes    *)
(* stay until a later call of the same process commits them.               *)
(***************************************************************************)
EXTENDS Naturals, Sequences

CONSTANTS Workers,      \* processes with the SQLite file open
          Configs,      \* configurations of the resource
          MaxEntries    \* bound: no call begins on a longer history

NoConfig == "null"
Deleted  == "{_deleted: true}"      \* current_config of a DELETE entry

ASSUME BaselineAssumption ==
    /\ MaxEntries \in Nat
    /\ NoConfig \notin Configs
    /\ Deleted \notin Configs

VARIABLES db,           \* the committed row and history
          draft,        \* as the open write transaction has them, db if none is
          lock,         \* the lock a worker's connection keeps on the file
          open,         \* connection.in_transaction
          pc,           \* where each worker's call stands
          call,         \* what the call is about to write
          acked         \* number of changes answered with 200

vars == <<db, draft, lock, open, pc, call, acked>>

Kinds   == {"CREATE", "UPDATE", "DELETE"}
Stored  == Configs \cup {Deleted}
NoRow   == [version |-> 0, config |-> NoConfig]
Rows    == {NoRow} \cup [version : Nat \ {0}, config : Stored]
Entries == [kind : Kinds,
            version : Nat \ {0},
            previous : Stored \cup {NoConfig},
            config : Stored,            \* current_config
            target : Nat,               \* change_reason "Rollback to version n", or 0
            overtaken : BOOLEAN]        \* not in the code: another worker has
                                        \* committed since the writer read the row
Databases == [row : Rows, history : Seq(Entries)]
Calls   == [kind : Kinds, current : Rows, config : Stored \cup {NoConfig},
            target : Nat, overtaken : BOOLEAN]
NoCall  == [kind |-> "CREATE", current |-> NoRow, config |-> NoConfig,
            target |-> 0, overtaken |-> FALSE]

TypeOK ==
    /\ db \in Databases
    /\ draft \in Databases
    /\ lock \in [Workers -> {"none", "shared", "reserved", "pending"}]
    /\ open \in [Workers -> BOOLEAN]
    /\ pc \in [Workers -> {"idle", "current", "write", "commit"}]
    /\ call \in [Workers -> Calls]
    /\ \A w \in Workers : pc[w] # "idle" => call[w].config \in Stored
    /\ acked \in Nat

Init ==
    /\ db = [row |-> NoRow, history |-> <<>>]
    /\ draft = db
    /\ lock = [w \in Workers |-> "none"]
    /\ open = [w \in Workers |-> FALSE]
    /\ pc = [w \in Workers |-> "idle"]
    /\ call = [w \in Workers |-> NoCall]
    /\ acked = 0

-----------------------------------------------------------------------------
(* The connection and the file (SQLite's rollback journal).                *)

Writing(w) == lock[w] \in {"reserved", "pending"}

\* What a SELECT on worker w's connection returns.
View(w) == IF Writing(w) THEN draft ELSE db

\* A commit that failed keeps new readers out.
CanRead(w) == lock[w] # "none" \/ \A v \in Workers : lock[v] # "pending"

\* A SELECT.  In an open transaction its lock stays when it is done.
Select(w) ==
    /\ CanRead(w)
    /\ lock' = IF open[w] /\ lock[w] = "none" THEN [lock EXCEPT ![w] = "shared"] ELSE lock

\* One connection at a time writes.
CanWrite(w) == \A v \in Workers \ {w} : ~Writing(v)

\* A writer commits when no other connection reads.
CanCommit(w) == \A v \in Workers \ {w} : lock[v] # "shared"

\* The call is answered and the worker takes its next one.
Finish(w) ==
    /\ pc' = [pc EXCEPT ![w] = "idle"]
    /\ call' = [call EXCEPT ![w] = NoCall]

Goto(w, step, c) ==
    /\ pc' = [pc EXCEPT ![w] = step]
    /\ call' = [call EXCEPT ![w] = c]

-----------------------------------------------------------------------------
(* The calls up to their first write.                                      *)

HasRoom == Len(draft.history) < MaxEntries

\* What a call writes that has read the row.
Change(kind, current, config, target) ==
    [kind |-> kind, current |-> current, config |-> config, target |-> target,
     overtaken |-> FALSE]

\* POST, also from-current: 409 unless the row is absent.
CreateCheck(w, config) ==
    /\ pc[w] = "idle"
    /\ HasRoom
    /\ Select(w)
    /\ View(w).row = NoRow
    /\ Goto(w, "write", Change("CREATE", NoRow, config, 0))
    /\ UNCHANGED <<db, draft, open, acked>>

\* The row is there and its config_hash is another: there is something to write.
Differs(row, config) == row # NoRow /\ row.config # config

\* PUT, also from-current: update_baseline up to its UPDATE.
UpdateCheck(w, config) ==
    /\ pc[w] = "idle"
    /\ HasRoom
    /\ Select(w)
    /\ Differs(View(w).row, config)
    /\ Goto(w, "write", Change("UPDATE", View(w).row, config, 0))
    /\ UNCHANGED <<db, draft, open, acked>>

\* Mutant: the last entry up to the version.
AtOrBefore(history, version) == {i \in DOMAIN history : history[i].version =< version}

\* get_baseline_at_version: an entry with that version.  Of several with the same
\* version, ORDER BY version leaves open which comes first.
AtVersion(history, version) == {i \in DOMAIN history : history[i].version = version}

\* POST rollback: the entry of the version, whatever its kind and its age.
RollbackTarget(w, version) ==
    /\ pc[w] = "idle"
    /\ HasRoom
    /\ Select(w)
    /\ \E i \in AtVersion(View(w).history, version) :
           Goto(w, "current", Change("UPDATE", NoRow, View(w).history[i].config, version))
    /\ UNCHANGED <<db, draft, open, acked>>

\* ... and update_baseline with its config: a SELECT of its own.
RollbackCheck(w) ==
    /\ pc[w] = "current"
    /\ Select(w)
    /\ IF Differs(View(w).row, call[w].config)
       THEN Goto(w, "write", Change("UPDATE", View(w).row, call[w].config, call[w].target))
       ELSE Finish(w)
    /\ UNCHANGED <<db, draft, open, acked>>

\* DELETE: delete_baseline up to its INSERT.
DeleteCheck(w) ==
    /\ pc[w] = "idle"
    /\ HasRoom
    /\ Select(w)
    /\ View(w).row # NoRow
    /\ Goto(w, "write", Change("DELETE", View(w).row, Deleted, 0))
    /\ UNCHANGED <<db, draft, open, acked>>

\* GET of all kinds, a detection, and the calls above when they are answered 404,
\* 409, or 200 without a change.
ReadOnly(w) ==
    /\ pc[w] = "idle"
    /\ Select(w)
    /\ UNCHANGED <<db, draft, open, pc, call, acked>>

\* The SELECT waits five seconds and raises.
ReadFails(w) ==
    /\ pc[w] \in {"idle", "current"}
    /\ ~CanRead(w)
    /\ Finish(w)
    /\ UNCHANGED <<db, draft, lock, open, acked>>

-----------------------------------------------------------------------------
(* The two statements of a change, and its commit.                         *)

\* Mutant: a deletion keeps the version.
DeletionKeepsVersion(c) ==
    [kind |-> c.kind, previous |-> c.current.config, config |-> c.config,
     version |-> IF c.kind = "DELETE" THEN c.current.version ELSE c.current.version + 1,
     target |-> c.target, overtaken |-> c.overtaken]

\* The entry a change inserts into the history.
EntryOf(c) ==
    [kind |-> c.kind, version |-> c.current.version + 1, previous |-> c.current.config,
     config |-> c.config, target |-> c.target, overtaken |-> c.overtaken]

\* Mutants: an upsert, as the mock provider creates; the database counts the
\* version; a rollback writes no entry.
Upsert(c, row) == FALSE
CountedByDatabase(c, row) ==
    IF c.kind = "DELETE" \/ (c.kind = "UPDATE" /\ row = NoRow) THEN NoRow
    ELSE [version |-> row.version + 1, config |-> c.config]
RollbackUnrecorded(c, d) ==
    IF c.target > 0 THEN d.history ELSE Append(d.history, EntryOf(c))

\* INSERT with the primary key of a row that is there.
KeyTaken(c, row) == c.kind = "CREATE" /\ row # NoRow

\* The row after the change: an UPDATE of a row that is gone matches nothing.
RowAfter(c, row) ==
    IF c.kind = "DELETE" \/ (c.kind = "UPDATE" /\ row = NoRow) THEN NoRow
    ELSE [version |-> c.current.version + 1, config |-> c.config]

HistoryAfter(c, d) == Append(d.history, EntryOf(c))

\* Both statements.  The first takes the write lock, so nothing comes between.
Write(w) ==
    /\ pc[w] = "write"
    /\ CanWrite(w)
    /\ ~KeyTaken(call[w], draft.row)
    /\ draft' = [row |-> RowAfter(call[w], draft.row), history |-> HistoryAfter(call[w], draft)]
    /\ lock' = IF Writing(w) THEN lock ELSE [lock EXCEPT ![w] = "reserved"]
    /\ open' = [open EXCEPT ![w] = TRUE]
    /\ pc' = [pc EXCEPT ![w] = "commit"]
    /\ UNCHANGED <<db, call, acked>>

\* IntegrityError: another process has created the row since the check.  The
\* transaction, with its write lock, stays open.
InsertRefused(w) ==
    /\ pc[w] = "write"
    /\ CanWrite(w)
    /\ KeyTaken(call[w], draft.row)
    /\ lock' = IF Writing(w) THEN lock ELSE [lock EXCEPT ![w] = "reserved"]
    /\ open' = [open EXCEPT ![w] = TRUE]
    /\ Finish(w)
    /\ UNCHANGED <<db, draft, acked>>

\* "database is locked", after the BEGIN that the driver issues before a write.
WriteFails(w) ==
    /\ pc[w] = "write"
    /\ ~CanWrite(w)
    /\ open' = [open EXCEPT ![w] = TRUE]
    /\ Finish(w)
    /\ UNCHANGED <<db, draft, lock, acked>>

\* The calls on other workers that have read the row before this commit.
Overtake(w) ==
    call' = [v \in Workers |->
                IF v = w THEN NoCall
                ELSE IF pc[v] = "write" THEN [call[v] EXCEPT !.overtaken = TRUE]
                ELSE call[v]]

Commit(w) ==
    /\ pc[w] = "commit"
    /\ CanCommit(w)
    /\ db' = draft
    /\ lock' = [lock EXCEPT ![w] = "none"]
    /\ open' = [open EXCEPT ![w] = FALSE]
    /\ pc' = [pc EXCEPT ![w] = "idle"]
    /\ Overtake(w)
    /\ acked' = acked + 1
    /\ UNCHANGED draft

\* Mutant: the error of a commit is logged only.
SwallowError == acked' = acked + 1

AnswerError == UNCHANGED acked

\* "database is locked" at the commit: answered 500, and the changes stay in the
\* transaction, for the next commit of this process.
CommitFails(w) ==
    /\ pc[w] = "commit"
    /\ ~CanCommit(w)
    /\ lock' = [lock EXCEPT ![w] = "pending"]
    /\ Finish(w)
    /\ AnswerError
    /\ UNCHANGED <<db, draft, open>>

\* The process dies and is started again: SQLite rolls its transaction back.
Restart(w) ==
    /\ draft' = IF Writing(w) THEN db ELSE draft
    /\ lock' = [lock EXCEPT ![w] = "none"]
    /\ open' = [open EXCEPT ![w] = FALSE]
    /\ Finish(w)
    /\ UNCHANGED <<db, acked>>

Next ==
    \E w \in Workers :
        \/ \E c \in Configs : CreateCheck(w, c) \/ UpdateCheck(w, c)
        \/ \E i \in DOMAIN View(w).history : RollbackTarget(w, View(w).history[i].version)
        \/ RollbackCheck(w) \/ DeleteCheck(w) \/ ReadOnly(w) \/ ReadFails(w)
        \/ Write(w) \/ InsertRefused(w) \/ WriteFails(w)
        \/ Commit(w) \/ CommitFails(w)
        \/ Restart(w)

Spec == Init /\ [][Next]_vars

-----------------------------------------------------------------------------
(* Properties                                                              *)

LastEntry(d) == d.history[Len(d.history)]

Agree(d) ==
    IF d.row = NoRow
    THEN \/ d.history = <<>>
         \/ LastEntry(d).kind = "DELETE"
         \/ LastEntry(d).kind = "UPDATE" /\ LastEntry(d).overtaken
    ELSE /\ d.history # <<>>
         /\ LastEntry(d).kind # "DELETE"
         /\ d.row = [version |-> LastEntry(d).version, config |-> LastEntry(d).config]

\* The two tables agree, whatever failed or was overtaken on the way: a row is what
\* the last entry of the history says, and without a row the last entry is a
\* deletion, or an update that another process's deletion has overtaken (it writes
\* no row, an entry all the same, and is answered 200).
RowMatchesHistory == Agree(db)

Alternates(h) ==
    \A i, j \in DOMAIN h :
        i < j /\ h[i].kind = "CREATE" /\ h[j].kind = "CREATE" =>
            \E k \in i..j : h[k].kind = "DELETE"

\* A baseline is created again only after it has been deleted, although POST looks
\* for the row in one transaction and inserts it in another.
RecreatedAfterDelete == Alternates(db.history)

Chained(h) ==
    \A i \in DOMAIN h :
        h[i].kind # "CREATE" /\ ~h[i].overtaken =>
            /\ i > 1
            /\ h[i - 1].kind # "DELETE"
            /\ h[i].previous = h[i - 1].config
            /\ h[i].version = h[i - 1].version + 1

\* The history of a baseline can be followed back: an entry says what the entry
\* before it left, in the next version, unless another process committed between
\* the writer's SELECT and its UPDATE.  Transactions that failed and are committed
\* by a later call are no exception.
HistoryIsChained == Chained(db.history)

Restores(h) ==
    \A j \in DOMAIN h : h[j].target > 0 =>
        \E i \in 1..(j - 1) : h[i].version = h[j].target /\ h[i].config = h[j].config

\* What a rollback installs was recorded before, under the very version it names,
\* whatever has been written, lost and recreated between its SELECTs and its commit
\* (rollback_to_version, baseline_store.py:687-725).
RollbacksRestore == Restores(db.history)

Apart(h) ==
    \A i, j \in DOMAIN h :
        i < j /\ h[i].version = h[j].version =>
            \E k \in i + 1 .. j : h[k].kind = "CREATE" \/ h[k].overtaken

\* A version names one entry of a life of the baseline, its deletion included, unless
\* a change was overtaken: which entry a rollback finds is in doubt only across lives
\* and after two processes have counted the same version.
VersionsNameEntries == Apart(db.history)

Extends(h, g) == Len(h) =< Len(g) /\ \A i \in DOMAIN h : g[i] = h[i]

\* "All changes are recorded in the history table": no commit changes the row
\* without adding to the history, and none takes an entry away.
ChangesAreRecorded ==
    [][Extends(db.history, db'.history) /\ (db'.row # db.row => db'.history # db.history)]_vars

\* Every change that was answered with 200 is in the committed history, also after
\* the processes have failed to commit or have been restarted.
AnsweredIsCommitted == acked =< Len(db.history)
=============================================================================
