------------------------- MODULE BaselineStoreProofs -------------------------
(***************************************************************************)
(* Theorems about BaselineStore, for any processes, configurations and     *)
(* length of the history.                                                  *)
(*                                                                         *)
(* Everything that is said of the committed database is proved of the      *)
(* draft as well (Sound), for a commit turns one into the other.  A write  *)
(* keeps the draft sound because of what its call has read: CallInv says   *)
(* that a call that nobody has overtaken still has the row before it.      *)
(* What versions and rollbacks mean rests on that invariant, and on what   *)
(* the histories and the calls under way say of them (Counting, Restoring).*)
(***************************************************************************)
EXTENDS BaselineStore, TLAPS

-----------------------------------------------------------------------------
(* The inductive invariant.                                                *)

\* Without a row, every creation in the history is followed by a deletion.
Closed(d) ==
    d.row = NoRow =>
        \A i \in DOMAIN d.history :
            d.history[i].kind = "CREATE" =>
                \E k \in i..Len(d.history) : d.history[k].kind = "DELETE"

Sound(d) ==
    /\ Agree(d)
    /\ Closed(d)
    /\ Alternates(d.history)
    /\ Chained(d.history)

\* One connection writes; the draft is its own, and the database when none writes.
LockInv ==
    /\ \A v, w \in Workers : Writing(v) /\ Writing(w) => v = w
    /\ (\A w \in Workers : ~Writing(w)) => draft = db
    /\ \A w \in Workers : pc[w] = "commit" => Writing(w)

\* The draft adds to the database; what is about to be committed is new.
DraftInv ==
    /\ Extends(db.history, draft.history)
    /\ draft.row # db.row => Len(db.history) < Len(draft.history)
    /\ \A w \in Workers : pc[w] = "commit" => Len(db.history) < Len(draft.history)

\* What a call with a change to write has read.
ReadRow(c, row) ==
    /\ c.kind = "CREATE" => c.current = NoRow
    /\ c.kind # "CREATE" => c.current # NoRow
    /\ c.kind # "CREATE" /\ ~c.overtaken => c.current = row

CallInv == \A w \in Workers : pc[w] = "write" => ReadRow(call[w], View(w).row)

IInv ==
    /\ TypeOK
    /\ LockInv
    /\ DraftInv
    /\ CallInv
    /\ Sound(db)
    /\ Sound(draft)
    /\ AnsweredIsCommitted

-----------------------------------------------------------------------------
(* A write on a database.                                                  *)

Written(c, d) == [row |-> RowAfter(c, d.row), history |-> HistoryAfter(c, d)]

\* The entry of a change is an entry, and the row after it a row.
LEMMA WriteTypes ==
    ASSUME NEW c \in Calls, NEW d \in Databases, c.config \in Stored
    PROVE  /\ EntryOf(c) \in Entries
           /\ Written(c, d) \in Databases
<1>1. EntryOf(c) \in Entries
  BY DEF EntryOf, Entries, Calls, Rows, NoRow, Stored, Kinds
<1>2. RowAfter(c, d.row) \in Rows
  BY DEF RowAfter, Rows, Calls, NoRow, Stored
<1>3. HistoryAfter(c, d) \in Seq(Entries)
  BY <1>1 DEF HistoryAfter, Databases
<1> QED  BY <1>1, <1>2, <1>3 DEF Written, Databases

\* A change appends its entry to the history.
LEMMA WriteAppends ==
    ASSUME NEW c \in Calls, NEW d \in Databases, c.config \in Stored
    PROVE  /\ Len(Written(c, d).history) = Len(d.history) + 1
           /\ Written(c, d).history[Len(d.history) + 1] = EntryOf(c)
           /\ \A i \in DOMAIN d.history : Written(c, d).history[i] = d.history[i]
           /\ DOMAIN d.history = 1..Len(d.history)
           /\ Len(d.history) \in Nat
           /\ DOMAIN Written(c, d).history = 1..(Len(d.history) + 1)
<1>1. d.history \in Seq(Entries) /\ EntryOf(c) \in Entries
  BY WriteTypes DEF Databases
<1>2. Written(c, d).history = Append(d.history, EntryOf(c))
  BY DEF Written, HistoryAfter
<1> QED  BY <1>1, <1>2

\* A change keeps a database sound when its call has read the row that is there, or
\* is marked as overtaken, and no key is taken.
LEMMA WriteSound ==
    ASSUME NEW c \in Calls, NEW d \in Databases, c.config \in Stored,
           Sound(d), ReadRow(c, d.row), ~KeyTaken(c, d.row)
    PROVE  Sound(Written(c, d))
<1> DEFINE e == Written(c, d)
           n == Len(d.history)
<1>1. /\ Len(e.history) = n + 1 /\ e.history[n + 1] = EntryOf(c)
      /\ \A i \in 1..n : e.history[i] = d.history[i]
      /\ n \in Nat /\ DOMAIN d.history = 1..n /\ DOMAIN e.history = 1..(n + 1)
  BY WriteAppends
<1>2. e.row = RowAfter(c, d.row)
  BY DEF Written
<1>3. LastEntry(e) = EntryOf(c) /\ e.history # <<>>
  BY <1>1 DEF LastEntry
<1>4. /\ EntryOf(c).kind = c.kind /\ EntryOf(c).config = c.config
      /\ EntryOf(c).version = c.current.version + 1
      /\ EntryOf(c).previous = c.current.config /\ EntryOf(c).overtaken = c.overtaken
  BY DEF EntryOf
<1>5. c.kind \in Kinds /\ c.current.version \in Nat
  BY DEF Calls, Rows, NoRow
<1>6. [version |-> c.current.version + 1, config |-> c.config] # NoRow
  BY <1>5 DEF NoRow
<1>7. Agree(e)
  <2>1. CASE c.kind = "DELETE"
    BY <2>1, <1>2, <1>3, <1>4 DEF Agree, RowAfter
  <2>2. CASE c.kind = "CREATE"
    BY <2>2, <1>2, <1>3, <1>4, <1>6 DEF Agree, RowAfter
  <2>3. CASE c.kind = "UPDATE" /\ d.row = NoRow
    <3>1. c.overtaken \in BOOLEAN /\ c.overtaken
      BY <2>3 DEF ReadRow, Calls
    <3> QED  BY <2>3, <3>1, <1>2, <1>3, <1>4 DEF Agree, RowAfter
  <2>4. CASE c.kind = "UPDATE" /\ d.row # NoRow
    BY <2>4, <1>2, <1>3, <1>4, <1>6 DEF Agree, RowAfter
  <2> QED  BY <2>1, <2>2, <2>3, <2>4, <1>5 DEF Kinds
<1>8. Closed(e)
  <2> SUFFICES ASSUME e.row = NoRow, NEW i \in 1..(n + 1), e.history[i].kind = "CREATE"
               PROVE  \E k \in i..(n + 1) : e.history[k].kind = "DELETE"
    BY <1>1 DEF Closed
  <2>1. CASE c.kind = "DELETE"
    BY <2>1, <1>1, <1>4
  <2>2. CASE c.kind = "UPDATE" /\ d.row = NoRow
    <3>1. i \in 1..n
      BY <2>2, <1>1, <1>4
    <3>2. PICK k \in i..n : d.history[k].kind = "DELETE"
      BY <2>2, <3>1, <1>1 DEF Sound, Closed
    <3> QED  BY <3>1, <3>2, <1>1
  <2>3. c.kind = "DELETE" \/ (c.kind = "UPDATE" /\ d.row = NoRow)
    BY <1>2, <1>6 DEF RowAfter
  <2> QED  BY <2>1, <2>2, <2>3
<1>9. Alternates(e.history)
  <2> SUFFICES ASSUME NEW i \in 1..(n + 1), NEW j \in 1..(n + 1), i < j,
                      e.history[i].kind = "CREATE", e.history[j].kind = "CREATE"
               PROVE  \E k \in i..j : e.history[k].kind = "DELETE"
    BY <1>1 DEF Alternates
  <2>1. i \in 1..n
    BY <1>1
  <2>2. CASE j \in 1..n
    <3>1. PICK k \in i..j : d.history[k].kind = "DELETE"
      BY <2>1, <2>2, <1>1 DEF Sound, Alternates
    <3>2. k \in 1..n /\ e.history[k] = d.history[k]
      BY <2>1, <2>2, <1>1
    <3> QED  BY <3>1, <3>2
  <2>3. CASE j = n + 1
    <3>1. d.row = NoRow
      BY <2>3, <1>1, <1>4 DEF KeyTaken
    <3>2. PICK k \in i..n : d.history[k].kind = "DELETE"
      BY <3>1, <2>1, <1>1 DEF Sound, Closed
    <3> QED  BY <3>2, <2>1, <2>3, <1>1
  <2> QED  BY <2>2, <2>3, <1>1
<1>10. Chained(e.history)
  <2> SUFFICES ASSUME NEW i \in 1..(n + 1), e.history[i].kind # "CREATE",
                      ~e.history[i].overtaken
               PROVE  /\ i > 1
                      /\ e.history[i - 1].kind # "DELETE"
                      /\ e.history[i].previous = e.history[i - 1].config
                      /\ e.history[i].version = e.history[i - 1].version + 1
    BY <1>1 DEF Chained
  <2>1. CASE i \in 1..n
    <3>1. /\ i > 1
          /\ d.history[i - 1].kind # "DELETE"
          /\ d.history[i].previous = d.history[i - 1].config
          /\ d.history[i].version = d.history[i - 1].version + 1
      BY <2>1, <1>1 DEF Sound, Chained
    <3> QED  BY <3>1, <2>1, <1>1
  <2>2. CASE i = n + 1
    <3>1. c.kind # "CREATE" /\ ~c.overtaken
      BY <2>2, <1>1, <1>4
    <3>2. c.current = d.row /\ d.row # NoRow
      BY <3>1 DEF ReadRow
    <3>3. /\ d.history # <<>> /\ LastEntry(d).kind # "DELETE"
          /\ d.row = [version |-> LastEntry(d).version, config |-> LastEntry(d).config]
      BY <3>2 DEF Sound, Agree
    <3>4. d.history \in Seq(Entries)
      BY DEF Databases
    <3>5. n > 0 /\ LastEntry(d) = e.history[n]
      BY <3>3, <3>4, <1>1 DEF LastEntry
    <3>6. d.row.version = LastEntry(d).version /\ d.row.config = LastEntry(d).config
      BY <3>3
    <3>7. /\ i > 1 /\ e.history[i - 1] = LastEntry(d)
          /\ e.history[i] = EntryOf(c)
      BY <2>2, <3>5, <1>1
    <3> QED  BY <3>7, <3>6, <3>2, <3>3, <1>4
  <2> QED  BY <2>1, <2>2, <1>1
<1> QED  BY <1>7, <1>8, <1>9, <1>10 DEF Sound

-----------------------------------------------------------------------------
(* Locks.                                                                  *)

\* A SELECT makes nobody a writer and nobody cease to be one.
LEMMA SelectKeepsWriters ==
    ASSUME NEW w \in Workers, TypeOK, Select(w)
    PROVE  /\ \A v \in Workers : Writing(v)' <=> Writing(v)
           /\ lock' \in [Workers -> {"none", "shared", "reserved", "pending"}]
<1>1. lock' = lock \/ (lock[w] = "none" /\ lock' = [lock EXCEPT ![w] = "shared"])
  BY DEF Select
<1> QED  BY <1>1 DEF TypeOK, Writing

-----------------------------------------------------------------------------
(* Steps that leave the database and the draft alone.                      *)

\* A worker that goes idle, or goes on to a write with the row it has just read,
\* keeps the invariant when no data changes and nobody begins or ceases to write.
LEMMA QuietStep ==
    ASSUME IInv, NEW w \in Workers,
           UNCHANGED <<db, draft, acked>>,
           \A v \in Workers : Writing(v)' <=> Writing(v),
           TypeOK',
           \A v \in Workers \ {w} : pc'[v] = pc[v] /\ call'[v] = call[v],
           pc'[w] # "commit",
           pc'[w] = "write" => ReadRow(call'[w], View(w).row)
    PROVE  IInv'
<1>1. LockInv'
  BY DEF IInv, LockInv, TypeOK
<1>2. DraftInv'
  BY DEF IInv, DraftInv, TypeOK
<1>3. CallInv'
  <2> SUFFICES ASSUME NEW v \in Workers, pc'[v] = "write"
               PROVE  ReadRow(call'[v], View(v)'.row)
    BY DEF CallInv, ReadRow
  <2>1. View(v)' = View(v)
    BY DEF View
  <2>2. CASE v = w
    BY <2>1, <2>2
  <2>3. CASE v # w
    BY <2>1, <2>3 DEF IInv, CallInv
  <2> QED  BY <2>2, <2>3
<1>4. Sound(db)' /\ Sound(draft)' /\ AnsweredIsCommitted'
  BY DEF IInv, AnsweredIsCommitted, Sound, Agree, Closed, LastEntry
<1> QED  BY <1>1, <1>2, <1>3, <1>4 DEF IInv

-----------------------------------------------------------------------------
(* The steps.                                                              *)

LEMMA InitIInv == Init => IInv
<1> SUFFICES ASSUME Init PROVE IInv
  OBVIOUS
<1>1. TypeOK
  BY DEF Init, TypeOK, Databases, Rows, NoRow, Calls, NoCall, Kinds
<1>2. LockInv /\ DraftInv /\ CallInv
  BY DEF Init, LockInv, DraftInv, CallInv, Writing, Extends
<1>3. Sound(db) /\ Sound(draft)
  BY DEF Init, Sound, Agree, Closed, Alternates, Chained
<1>4. AnsweredIsCommitted
  BY DEF Init, AnsweredIsCommitted
<1> QED  BY <1>1, <1>2, <1>3, <1>4 DEF IInv

\* The row a worker sees is a row.
LEMMA ViewTypes ==
    ASSUME TypeOK, NEW w \in Workers
    PROVE  View(w) \in Databases /\ View(w).row \in Rows /\ View(w).history \in Seq(Entries)
BY DEF TypeOK, View, Databases

\* What Change builds is a call.
LEMMA ChangeTypes ==
    ASSUME NEW kind \in Kinds, NEW row \in Rows, NEW config \in Stored, NEW target \in Nat
    PROVE  /\ Change(kind, row, config, target) \in Calls
           /\ Change(kind, row, config, target).config = config
           /\ Change(kind, row, config, target).kind = kind
           /\ Change(kind, row, config, target).current = row
BY DEF Change, Calls

\* A call that stops, or goes on to its next step with a change it has read for,
\* after a SELECT.
LEMMA AfterSelect ==
    ASSUME IInv, NEW w \in Workers, Select(w), UNCHANGED <<db, draft, open, acked>>,
           \/ Finish(w) \/ UNCHANGED <<pc, call>>
           \/ \E step \in {"current", "write"}, kind \in Kinds, row \in Rows, config \in Stored,
                 target \in Nat :
                 /\ Goto(w, step, Change(kind, row, config, target))
                 /\ step = "write" => /\ kind = "CREATE" => row = NoRow
                                      /\ kind # "CREATE" => row # NoRow /\ row = View(w).row,
           pc[w] # "commit", pc[w] # "write"
    PROVE  IInv'
<1>1. /\ \A v \in Workers : Writing(v)' <=> Writing(v)
      /\ lock' \in [Workers -> {"none", "shared", "reserved", "pending"}]
  BY SelectKeepsWriters DEF IInv
<1> DEFINE NextCall ==
      /\ pc' \in [Workers -> {"idle", "current", "write", "commit"}]
      /\ call' \in [Workers -> Calls]
      /\ \A v \in Workers : pc'[v] # "idle" => call'[v].config \in Stored
      /\ \A v \in Workers \ {w} : pc'[v] = pc[v] /\ call'[v] = call[v]
      /\ pc'[w] # "commit"
      /\ pc'[w] = "write" => ReadRow(call'[w], View(w).row)
<1>2. NextCall
  <2>1. CASE Finish(w)
    <3>1. NoCall \in Calls
      BY DEF NoCall, Calls, Kinds, Rows, NoRow
    <3> QED  BY <2>1, <3>1 DEF Finish, IInv, TypeOK
  <2>2. CASE UNCHANGED <<pc, call>>
    BY <2>2 DEF IInv, TypeOK
  <2>3. ASSUME NEW step \in {"current", "write"}, NEW kind \in Kinds, NEW row \in Rows,
               NEW config \in Stored, NEW target \in Nat,
               Goto(w, step, Change(kind, row, config, target)),
               step = "write" => /\ kind = "CREATE" => row = NoRow
                                 /\ kind # "CREATE" => row # NoRow /\ row = View(w).row
        PROVE  NextCall
    <3> DEFINE c == Change(kind, row, config, target)
    <3>1. c \in Calls /\ c.config = config /\ c.kind = kind /\ c.current = row
      BY ChangeTypes
    <3> HIDE DEF c
    <3>2. pc' = [pc EXCEPT ![w] = step] /\ call' = [call EXCEPT ![w] = c]
      BY <2>3 DEF Goto, c
    <3>3. /\ pc' \in [Workers -> {"idle", "current", "write", "commit"}]
          /\ call' \in [Workers -> Calls]
          /\ \A v \in Workers : pc'[v] # "idle" => call'[v].config \in Stored
          /\ \A v \in Workers \ {w} : pc'[v] = pc[v] /\ call'[v] = call[v]
          /\ pc'[w] = step /\ call'[w] = c
      BY <3>1, <3>2 DEF IInv, TypeOK
    <3> QED  BY <2>3, <3>1, <3>3 DEF ReadRow
  <2> QED  BY <2>1, <2>2, <2>3
<1>3. TypeOK'
  BY <1>1, <1>2 DEF IInv, TypeOK
<1> QED  BY <1>1, <1>2, <1>3, QuietStep

\* A call that is answered with an error before it has written: at most the locks of
\* its own connection have changed.
LEMMA CallFails ==
    ASSUME IInv, NEW w \in Workers, Finish(w), UNCHANGED <<db, draft, acked>>,
           \A v \in Workers : Writing(v)' <=> Writing(v),
           lock' \in [Workers -> {"none", "shared", "reserved", "pending"}],
           open' \in [Workers -> BOOLEAN]
    PROVE  IInv'
<1>1. NoCall \in Calls
  BY DEF NoCall, Calls, Kinds, Rows, NoRow
<1>2. /\ pc' \in [Workers -> {"idle", "current", "write", "commit"}]
      /\ call' \in [Workers -> Calls]
      /\ \A v \in Workers : pc'[v] # "idle" => call'[v].config \in Stored
      /\ \A v \in Workers \ {w} : pc'[v] = pc[v] /\ call'[v] = call[v]
      /\ pc'[w] = "idle"
  BY <1>1 DEF Finish, IInv, TypeOK
<1>3. TypeOK'
  BY <1>2 DEF IInv, TypeOK
<1> QED  BY <1>2, <1>3, QuietStep

\* A worker takes the write lock, if it has not got it: nobody else writes, so the
\* draft is the database until it does.
LEMMA TakeWriteLock ==
    ASSUME IInv, NEW w \in Workers, CanWrite(w),
           lock' = IF Writing(w) THEN lock ELSE [lock EXCEPT ![w] = "reserved"]
    PROVE  /\ \A v \in Workers : Writing(v)' <=> v = w
           /\ lock' \in [Workers -> {"none", "shared", "reserved", "pending"}]
           /\ draft = View(w)
           /\ \A v \in Workers \ {w} : ~Writing(v)
           /\ ~Writing(w) => draft = db
<1>1. \A v \in Workers \ {w} : ~Writing(v)
  BY DEF CanWrite
<1>2. ~Writing(w) => draft = db
  BY <1>1 DEF IInv, LockInv
<1>3. lock' \in [Workers -> {"none", "shared", "reserved", "pending"}]
  BY DEF IInv, TypeOK
<1>4. \A v \in Workers : Writing(v)' <=> v = w
  BY <1>1 DEF IInv, TypeOK, Writing
<1> QED  BY <1>1, <1>2, <1>3, <1>4 DEF View

LEMMA WriteStep ==
    ASSUME IInv, NEW w \in Workers, Write(w)
    PROVE  IInv'
<1>1. /\ pc[w] = "write" /\ CanWrite(w) /\ ~KeyTaken(call[w], draft.row)
      /\ draft' = Written(call[w], draft)
      /\ lock' = IF Writing(w) THEN lock ELSE [lock EXCEPT ![w] = "reserved"]
      /\ open' = [open EXCEPT ![w] = TRUE]
      /\ pc' = [pc EXCEPT ![w] = "commit"]
      /\ UNCHANGED <<db, call, acked>>
  BY DEF Write, Written
<1>2. /\ \A v \in Workers : Writing(v)' <=> v = w
      /\ lock' \in [Workers -> {"none", "shared", "reserved", "pending"}]
      /\ draft = View(w)
      /\ \A v \in Workers \ {w} : ~Writing(v)
      /\ ~Writing(w) => draft = db
  BY <1>1, TakeWriteLock
<1>3. /\ call[w] \in Calls /\ draft \in Databases /\ call[w].config \in Stored
      /\ db \in Databases
  BY <1>1 DEF IInv, TypeOK
<1>4. Sound(draft) /\ ReadRow(call[w], draft.row)
  BY <1>1, <1>2 DEF IInv, CallInv
<1>5. Sound(draft')
  BY <1>1, <1>3, <1>4, WriteSound
<1>6. draft' \in Databases
  BY <1>1, <1>3, WriteTypes
<1>7. /\ Len(draft'.history) = Len(draft.history) + 1
      /\ \A i \in DOMAIN draft.history : draft'.history[i] = draft.history[i]
      /\ DOMAIN draft.history = 1..Len(draft.history)
      /\ Len(draft.history) \in Nat
  BY <1>1, <1>3, WriteAppends
<1>8. TypeOK'
  BY <1>1, <1>2, <1>6 DEF IInv, TypeOK
<1>9. LockInv'
  <2>1. \A v \in Workers : pc'[v] = "commit" => v = w
    BY <1>1, <1>2 DEF IInv, LockInv, TypeOK
  <2> QED  BY <2>1, <1>2 DEF LockInv
<1>10. DraftInv'
  <2>1. Len(db.history) \in Nat /\ DOMAIN db.history = 1..Len(db.history)
    BY <1>3 DEF Databases
  <2>2. Extends(db.history, draft.history)
    BY DEF IInv, DraftInv
  <2>3. Len(db.history) < Len(draft'.history)
    BY <2>1, <2>2, <1>7 DEF Extends
  <2>4. \A i \in DOMAIN db.history : draft'.history[i] = db.history[i]
    BY <2>1, <2>2, <1>7 DEF Extends
  <2>5. Extends(db.history, draft'.history)
    BY <2>1, <2>2, <2>4, <1>7 DEF Extends
  <2> QED  BY <2>3, <2>5, <1>1 DEF DraftInv
<1>11. CallInv'
  <2> SUFFICES ASSUME NEW v \in Workers, pc'[v] = "write"
               PROVE  ReadRow(call'[v], View(v)'.row)
    BY DEF CallInv, ReadRow
  <2>1. v # w /\ pc[v] = "write"
    BY <1>1 DEF IInv, TypeOK
  <2>2. View(v)' = db /\ View(v) = db
    BY <2>1, <1>1, <1>2 DEF View
  <2> QED  BY <2>1, <2>2, <1>1 DEF IInv, CallInv
<1>12. Sound(db)' /\ AnsweredIsCommitted'
  BY <1>1 DEF IInv, AnsweredIsCommitted, Sound, Agree, Closed, LastEntry
<1>13. Sound(draft)'
  BY <1>5 DEF Sound, Agree, Closed, LastEntry
<1> QED  BY <1>8, <1>9, <1>10, <1>11, <1>12, <1>13 DEF IInv

\* The IntegrityError: the worker takes the write lock and goes idle.
LEMMA RefusedStep ==
    ASSUME IInv, NEW w \in Workers, Finish(w), UNCHANGED <<db, draft, acked>>,
           \A v \in Workers : Writing(v)' <=> v = w,
           lock' \in [Workers -> {"none", "shared", "reserved", "pending"}],
           open' = [open EXCEPT ![w] = TRUE],
           \A v \in Workers \ {w} : ~Writing(v)
    PROVE  IInv'
<1>1. /\ pc' \in [Workers -> {"idle", "current", "write", "commit"}]
      /\ call' \in [Workers -> Calls]
      /\ \A v \in Workers : pc'[v] # "idle" => call'[v].config \in Stored
      /\ \A v \in Workers \ {w} : pc'[v] = pc[v] /\ call'[v] = call[v]
      /\ pc'[w] = "idle"
  <2>1. NoCall \in Calls
    BY DEF NoCall, Calls, Kinds, Rows, NoRow
  <2> QED  BY <2>1 DEF Finish, IInv, TypeOK
<1>2. TypeOK'
  BY <1>1 DEF IInv, TypeOK
<1>3. LockInv'
  BY <1>1 DEF IInv, LockInv
<1>4. DraftInv'
  BY <1>1 DEF IInv, DraftInv
<1>5. CallInv'
  <2> SUFFICES ASSUME NEW v \in Workers, pc'[v] = "write"
               PROVE  ReadRow(call'[v], View(v)'.row)
    BY DEF CallInv, ReadRow
  <2>1. v # w /\ pc[v] = "write" /\ call'[v] = call[v]
    BY <1>1
  <2>2. View(v)' = View(v)
    BY <2>1 DEF View
  <2> QED  BY <2>1, <2>2 DEF IInv, CallInv
<1>6. Sound(db)' /\ Sound(draft)' /\ AnsweredIsCommitted'
  BY DEF IInv, AnsweredIsCommitted, Sound, Agree, Closed, LastEntry
<1> QED  BY <1>2, <1>3, <1>4, <1>5, <1>6 DEF IInv

LEMMA CommitStep ==
    ASSUME IInv, NEW w \in Workers, Commit(w)
    PROVE  IInv'
<1>1. /\ pc[w] = "commit"
      /\ db' = draft /\ draft' = draft
      /\ lock' = [lock EXCEPT ![w] = "none"]
      /\ open' = [open EXCEPT ![w] = FALSE]
      /\ pc' = [pc EXCEPT ![w] = "idle"]
      /\ acked' = acked + 1
  BY DEF Commit
<1>2. \A v \in Workers : ~Writing(v)'
  <2>1. \A v \in Workers : Writing(v) => v = w
    BY <1>1 DEF IInv, LockInv
  <2> QED  BY <2>1, <1>1 DEF IInv, TypeOK, Writing
<1>3. /\ call' \in [Workers -> Calls]
      /\ \A v \in Workers : pc'[v] # "idle" => call'[v].config \in Stored
      /\ \A v \in Workers : pc'[v] = "write" =>
             /\ call'[v].overtaken
             /\ call'[v].kind = call[v].kind /\ call'[v].current = call[v].current
  <2>1. NoCall \in Calls
    BY DEF NoCall, Calls, Kinds, Rows, NoRow
  <2>2. \A v \in Workers : [call[v] EXCEPT !.overtaken = TRUE] \in Calls
    BY DEF IInv, TypeOK, Calls
  <2>3. call' = [v \in Workers |->
                    IF v = w THEN NoCall
                    ELSE IF pc[v] = "write" THEN [call[v] EXCEPT !.overtaken = TRUE]
                    ELSE call[v]]
    BY DEF Commit, Overtake
  <2>4. call' \in [Workers -> Calls]
    BY <2>1, <2>2, <2>3 DEF IInv, TypeOK
  <2>5. ASSUME NEW v \in Workers, pc'[v] # "idle"
        PROVE  /\ v # w /\ pc'[v] = pc[v]
               /\ call'[v].config = call[v].config
               /\ pc[v] = "write" =>
                      /\ call'[v].overtaken
                      /\ call'[v].kind = call[v].kind /\ call'[v].current = call[v].current
    <3>1. v # w /\ pc'[v] = pc[v]
      BY <2>5, <1>1 DEF IInv, TypeOK
    <3>2. CASE pc[v] = "write"
      <4> DEFINE c == call[v]
                 late == [c EXCEPT !.overtaken = TRUE]
      <4>1. call'[v] = late
        BY <3>1, <3>2, <2>3
      <4>2. c \in [kind : Kinds, current : Rows, config : Stored \cup {NoConfig},
                   target : Nat, overtaken : BOOLEAN]
        BY DEF IInv, TypeOK, Calls
      <4>3. /\ late.overtaken /\ late.config = c.config
            /\ late.kind = c.kind /\ late.current = c.current
        BY <4>2
      <4> QED  BY <3>1, <4>1, <4>3
    <3>3. CASE pc[v] # "write"
      BY <3>1, <3>3, <2>3
    <3> QED  BY <3>1, <3>2, <3>3
  <2>6. \A v \in Workers : pc[v] # "idle" => call[v].config \in Stored
    BY DEF IInv, TypeOK
  <2> QED  BY <2>4, <2>5, <2>6
<1>4. TypeOK'
  <2>1. db' \in Databases /\ draft' \in Databases
    BY <1>1 DEF IInv, TypeOK
  <2>2. /\ lock' \in [Workers -> {"none", "shared", "reserved", "pending"}]
        /\ open' \in [Workers -> BOOLEAN]
        /\ pc' \in [Workers -> {"idle", "current", "write", "commit"}]
        /\ acked' \in Nat
    BY <1>1 DEF IInv, TypeOK
  <2> QED  BY <2>1, <2>2, <1>3 DEF TypeOK
<1>5. LockInv'
  <2>1. \A v \in Workers : pc'[v] # "commit"
    <3>1. \A v \in Workers : pc[v] = "commit" => v = w
      BY <1>1 DEF IInv, LockInv
    <3> QED  BY <3>1, <1>1 DEF IInv, TypeOK
  <2> QED  BY <2>1, <1>1, <1>2 DEF LockInv
<1>6. DraftInv'
  <2>1. Extends(draft.history, draft.history)
    BY DEF IInv, TypeOK, Databases, Extends
  <2>2. \A v \in Workers : pc'[v] # "commit"
    <3>1. \A v \in Workers : pc[v] = "commit" => v = w
      BY <1>1 DEF IInv, LockInv
    <3> QED  BY <3>1, <1>1 DEF IInv, TypeOK
  <2> QED  BY <2>1, <2>2, <1>1 DEF DraftInv
<1>7. CallInv'
  <2> SUFFICES ASSUME NEW v \in Workers, pc'[v] = "write"
               PROVE  ReadRow(call'[v], View(v)'.row)
    BY DEF CallInv, ReadRow
  <2>1. pc[v] = "write"
    BY <1>1 DEF IInv, TypeOK
  <2>2. ReadRow(call[v], View(v).row)
    BY <2>1 DEF IInv, CallInv
  <2> QED  BY <2>2, <1>3 DEF ReadRow
<1>8. Sound(db)' /\ Sound(draft)'
  BY <1>1 DEF IInv, Sound, Agree, Closed, LastEntry
<1>9. AnsweredIsCommitted'
  <2>1. Len(db.history) \in Nat /\ Len(draft.history) \in Nat /\ acked \in Nat
    BY DEF IInv, TypeOK, Databases
  <2>2. acked =< Len(db.history) /\ Len(db.history) < Len(draft.history)
    BY <1>1 DEF IInv, AnsweredIsCommitted, DraftInv
  <2> QED  BY <2>1, <2>2, <1>1 DEF AnsweredIsCommitted
<1> QED  BY <1>4, <1>5, <1>6, <1>7, <1>8, <1>9 DEF IInv

LEMMA RestartStep ==
    ASSUME IInv, NEW w \in Workers, Restart(w)
    PROVE  IInv'
<1>1. /\ draft' = IF Writing(w) THEN db ELSE draft
      /\ lock' = [lock EXCEPT ![w] = "none"]
      /\ open' = [open EXCEPT ![w] = FALSE]
      /\ UNCHANGED <<db, acked>>
  BY DEF Restart
<1>2. /\ pc' \in [Workers -> {"idle", "current", "write", "commit"}]
      /\ call' \in [Workers -> Calls]
      /\ \A v \in Workers : pc'[v] # "idle" => call'[v].config \in Stored
      /\ \A v \in Workers \ {w} : pc'[v] = pc[v] /\ call'[v] = call[v]
      /\ pc'[w] = "idle"
  <2>1. NoCall \in Calls
    BY DEF NoCall, Calls, Kinds, Rows, NoRow
  <2> QED  BY <2>1 DEF Restart, Finish, IInv, TypeOK
<1>3. ~Writing(w)' /\ \A v \in Workers \ {w} : Writing(v)' <=> Writing(v)
  BY <1>1 DEF IInv, TypeOK, Writing
<1>4. TypeOK'
  BY <1>1, <1>2 DEF IInv, TypeOK
<1>5. LockInv'
  <2>1. (\A v \in Workers : ~Writing(v)') => draft' = db
    BY <1>1, <1>3 DEF IInv, LockInv
  <2> QED  BY <2>1, <1>1, <1>2, <1>3 DEF IInv, LockInv
<1>6. DraftInv'
  <2>1. CASE Writing(w)
    <3>1. Extends(db.history, db.history)
      BY DEF IInv, TypeOK, Databases, Extends
    <3>2. \A v \in Workers : pc'[v] # "commit"
      BY <2>1, <1>2 DEF IInv, LockInv
    <3> QED  BY <2>1, <3>1, <3>2, <1>1 DEF DraftInv
  <2>2. CASE ~Writing(w)
    BY <2>2, <1>1, <1>2 DEF IInv, DraftInv
  <2> QED  BY <2>1, <2>2
<1>7. CallInv'
  <2> SUFFICES ASSUME NEW v \in Workers, pc'[v] = "write"
               PROVE  ReadRow(call'[v], View(v)'.row)
    BY DEF CallInv, ReadRow
  <2>1. v # w /\ pc[v] = "write" /\ call'[v] = call[v]
    BY <1>2
  <2>2. View(v)' = View(v)
    BY <2>1, <1>1, <1>3 DEF IInv, LockInv, View
  <2> QED  BY <2>1, <2>2 DEF IInv, CallInv
<1>8. Sound(db)' /\ Sound(draft)' /\ AnsweredIsCommitted'
  <2>1. db' = db /\ (draft' = db \/ draft' = draft)
    BY <1>1
  <2> QED  BY <2>1, <1>1 DEF IInv, AnsweredIsCommitted, Sound, Agree, Closed, LastEntry
<1> QED  BY <1>4, <1>5, <1>6, <1>7, <1>8 DEF IInv

-----------------------------------------------------------------------------
(* The invariant is inductive.                                             *)

LEMMA NextIInv == IInv /\ [Next]_vars => IInv'
<1> SUFFICES ASSUME IInv, [Next]_vars PROVE IInv'
  OBVIOUS
<1>1. CASE UNCHANGED vars
  BY <1>1 DEF vars, IInv, TypeOK, LockInv, DraftInv, CallInv, AnsweredIsCommitted, Writing,
              View, Sound, Agree, Closed, LastEntry
<1>2. ASSUME NEW w \in Workers, NEW c \in Configs, CreateCheck(w, c)
      PROVE  IInv'
  <2>1. NoRow \in Rows /\ c \in Stored /\ "CREATE" \in Kinds /\ 0 \in Nat
    BY DEF Rows, Stored, Kinds
  <2> QED  BY <1>2, <2>1, AfterSelect DEF CreateCheck
<1>3. ASSUME NEW w \in Workers, NEW c \in Configs, UpdateCheck(w, c)
      PROVE  IInv'
  <2>1. View(w).row \in Rows /\ c \in Stored /\ "UPDATE" \in Kinds /\ 0 \in Nat
    BY ViewTypes DEF IInv, Stored, Kinds
  <2>2. View(w).row # NoRow
    BY <1>3 DEF UpdateCheck, Differs
  <2> QED  BY <1>3, <2>1, <2>2, AfterSelect DEF UpdateCheck
<1>4. ASSUME NEW w \in Workers, NEW j \in DOMAIN View(w).history,
             RollbackTarget(w, View(w).history[j].version)
      PROVE  IInv'
  <2> DEFINE version == View(w).history[j].version
  <2>1. PICK i \in AtVersion(View(w).history, version) :
            Goto(w, "current", Change("UPDATE", NoRow, View(w).history[i].config, version))
    BY <1>4 DEF RollbackTarget
  <2>2. View(w).history[i] \in Entries /\ View(w).history[j] \in Entries
    BY ViewTypes DEF IInv, AtVersion
  <2>3. /\ View(w).history[i].config \in Stored /\ version \in Nat
        /\ NoRow \in Rows /\ "UPDATE" \in Kinds
    BY <2>2 DEF Entries, Rows, Kinds
  <2>4. /\ Select(w) /\ UNCHANGED <<db, draft, open, acked>>
        /\ pc[w] # "commit" /\ pc[w] # "write"
    BY <1>4 DEF RollbackTarget
  <2> HIDE DEF version
  <2> QED  BY <2>1, <2>3, <2>4, AfterSelect
<1>5. ASSUME NEW w \in Workers, RollbackCheck(w)
      PROVE  IInv'
  <2>1. /\ Select(w) /\ UNCHANGED <<db, draft, open, acked>>
        /\ pc[w] # "commit" /\ pc[w] # "write" /\ pc[w] # "idle"
    BY <1>5 DEF RollbackCheck
  <2>2. CASE Differs(View(w).row, call[w].config)
    <3>1. /\ View(w).row \in Rows /\ call[w].config \in Stored /\ call[w].target \in Nat
          /\ "UPDATE" \in Kinds
      BY <2>1, ViewTypes DEF IInv, TypeOK, Calls, Kinds
    <3>2. View(w).row # NoRow
      BY <2>2 DEF Differs
    <3>3. Goto(w, "write", Change("UPDATE", View(w).row, call[w].config, call[w].target))
      BY <1>5, <2>2 DEF RollbackCheck
    <3> QED  BY <2>1, <3>1, <3>2, <3>3, AfterSelect
  <2>3. CASE ~Differs(View(w).row, call[w].config)
    <3>1. Finish(w)
      BY <1>5, <2>3 DEF RollbackCheck
    <3> QED  BY <2>1, <3>1, AfterSelect
  <2> QED  BY <2>2, <2>3
<1>6. ASSUME NEW w \in Workers, DeleteCheck(w)
      PROVE  IInv'
  <2>1. View(w).row \in Rows /\ Deleted \in Stored /\ "DELETE" \in Kinds /\ 0 \in Nat
    BY ViewTypes DEF IInv, Stored, Kinds
  <2> QED  BY <1>6, <2>1, AfterSelect DEF DeleteCheck
<1>7. ASSUME NEW w \in Workers, ReadOnly(w)
      PROVE  IInv'
  BY <1>7, AfterSelect DEF ReadOnly
<1>8. ASSUME NEW w \in Workers, ReadFails(w)
      PROVE  IInv'
  BY <1>8, CallFails DEF ReadFails, IInv, TypeOK, Writing
<1>9. ASSUME NEW w \in Workers, Write(w)
      PROVE  IInv'
  BY <1>9, WriteStep
<1>10. ASSUME NEW w \in Workers, InsertRefused(w)
       PROVE  IInv'
  <2>1. /\ CanWrite(w) /\ Finish(w) /\ UNCHANGED <<db, draft, acked>>
        /\ lock' = IF Writing(w) THEN lock ELSE [lock EXCEPT ![w] = "reserved"]
        /\ open' = [open EXCEPT ![w] = TRUE]
        /\ pc[w] = "write"
    BY <1>10 DEF InsertRefused
  <2>2. /\ \A v \in Workers : Writing(v)' <=> v = w
        /\ lock' \in [Workers -> {"none", "shared", "reserved", "pending"}]
        /\ draft = View(w)
        /\ \A v \in Workers \ {w} : ~Writing(v)
        /\ ~Writing(w) => draft = db
    BY <2>1, TakeWriteLock
  <2> QED  BY <2>1, <2>2, RefusedStep
<1>11. ASSUME NEW w \in Workers, WriteFails(w)
       PROVE  IInv'
  <2>1. /\ Finish(w) /\ UNCHANGED <<db, draft, lock, acked>>
        /\ open' = [open EXCEPT ![w] = TRUE]
    BY <1>11 DEF WriteFails
  <2>2. /\ \A v \in Workers : Writing(v)' <=> Writing(v)
        /\ lock' \in [Workers -> {"none", "shared", "reserved", "pending"}]
        /\ open' \in [Workers -> BOOLEAN]
    BY <2>1 DEF IInv, TypeOK, Writing
  <2> QED  BY <2>1, <2>2, CallFails
<1>12. ASSUME NEW w \in Workers, Commit(w)
       PROVE  IInv'
  BY <1>12, CommitStep
<1>13. ASSUME NEW w \in Workers, CommitFails(w)
       PROVE  IInv'
  <2>1. /\ Finish(w) /\ UNCHANGED <<db, draft, open, acked>> /\ pc[w] = "commit"
        /\ lock' = [lock EXCEPT ![w] = "pending"]
    BY <1>13 DEF CommitFails, AnswerError
  <2>2. Writing(w)
    BY <2>1 DEF IInv, LockInv
  <2>3. /\ \A v \in Workers : Writing(v)' <=> Writing(v)
        /\ lock' \in [Workers -> {"none", "shared", "reserved", "pending"}]
        /\ open' \in [Workers -> BOOLEAN]
    BY <2>1, <2>2 DEF IInv, TypeOK, Writing
  <2> QED  BY <2>1, <2>3, CallFails
<1>14. ASSUME NEW w \in Workers, Restart(w)
       PROVE  IInv'
  BY <1>14, RestartStep
<1> QED  BY <1>1, <1>2, <1>3, <1>4, <1>5, <1>6, <1>7, <1>8, <1>9, <1>10, <1>11, <1>12,
            <1>13, <1>14 DEF Next

\* The invariant of the module.
THEOREM Invariant == Spec => []IInv
<1> QED  BY InitIInv, NextIInv, PTL DEF Spec

\* Types.
THEOREM BaselineTypes == Spec => []TypeOK
<1>1. IInv => TypeOK
  BY DEF IInv
<1> QED  BY <1>1, Invariant, PTL

\* The two tables agree whatever processes write, fail and restart.
THEOREM TablesAgree == Spec => []RowMatchesHistory
<1>1. IInv => RowMatchesHistory
  BY DEF IInv, Sound, RowMatchesHistory
<1> QED  BY <1>1, Invariant, PTL

\* A baseline is created again only after a deletion.
THEOREM LivesAreSeparate == Spec => []RecreatedAfterDelete
<1>1. IInv => RecreatedAfterDelete
  BY DEF IInv, Sound, RecreatedAfterDelete
<1> QED  BY <1>1, Invariant, PTL

\* A history that nobody was overtaken in is a chain of configurations.
THEOREM ChainOfChanges == Spec => []HistoryIsChained
<1>1. IInv => HistoryIsChained
  BY DEF IInv, Sound, HistoryIsChained
<1> QED  BY <1>1, Invariant, PTL

\* Every change that was answered is in the committed history.
THEOREM AnswersAreDurable == Spec => []AnsweredIsCommitted
<1>1. IInv => AnsweredIsCommitted
  BY DEF IInv
<1> QED  BY <1>1, Invariant, PTL

\* A step changes the row only together with the history, which only grows.
THEOREM EveryChangeIsRecorded == Spec => ChangesAreRecorded
<1> DEFINE Recorded == Extends(db.history, db'.history)
                       /\ (db'.row # db.row => db'.history # db.history)
<1>1. IInv /\ [Next]_vars => [Recorded]_vars
  <2> SUFFICES ASSUME IInv, Next PROVE Recorded
    BY DEF vars
  <2>1. db' = db \/ db' = draft
    BY DEF Next, CreateCheck, UpdateCheck, RollbackTarget, RollbackCheck, DeleteCheck,
           ReadOnly, ReadFails, Write, InsertRefused, WriteFails, Commit, CommitFails, Restart
  <2>2. CASE db' = db
    BY <2>2 DEF IInv, TypeOK, Databases, Extends
  <2>3. CASE db' = draft
    <3>1. Len(db.history) \in Nat
      BY DEF IInv, TypeOK, Databases
    <3> QED  BY <2>3, <3>1 DEF IInv, DraftInv
  <2> QED  BY <2>1, <2>2, <2>3
<1> QED  BY <1>1, Invariant, PTL DEF Spec, ChangesAreRecorded

-----------------------------------------------------------------------------
(* What becomes of the histories, and of what the other workers see.       *)

\* The database and the draft: unchanged, turned into each other, or written on.
LEMMA DataSteps ==
    ASSUME IInv, [Next]_vars
    PROVE  /\ db' \in {db, draft}
           /\ \/ draft' \in {db, draft}
              \/ \E w \in Workers :
                     /\ pc[w] = "write" /\ draft = View(w)
                     /\ call[w] \in Calls /\ call[w].config \in Stored
                     /\ draft' = Written(call[w], draft)
<1>1. ASSUME NEW w \in Workers, Write(w)
      PROVE  /\ db' = db
             /\ pc[w] = "write" /\ draft = View(w)
             /\ call[w] \in Calls /\ call[w].config \in Stored
             /\ draft' = Written(call[w], draft)
  <2>1. /\ pc[w] = "write" /\ CanWrite(w) /\ db' = db
        /\ draft' = Written(call[w], draft)
        /\ lock' = IF Writing(w) THEN lock ELSE [lock EXCEPT ![w] = "reserved"]
    BY <1>1 DEF Write, Written
  <2>2. draft = View(w)
    BY <2>1, TakeWriteLock
  <2> QED  BY <2>1, <2>2 DEF IInv, TypeOK
<1>2. CASE UNCHANGED vars
  BY <1>2 DEF vars
<1>3. CASE \E w \in Workers : Commit(w) \/ Restart(w)
  BY <1>3 DEF Commit, Restart
<1>4. ASSUME NEW w \in Workers,
             \/ \E c \in Configs : CreateCheck(w, c) \/ UpdateCheck(w, c)
             \/ \E i \in DOMAIN View(w).history : RollbackTarget(w, View(w).history[i].version)
             \/ RollbackCheck(w) \/ DeleteCheck(w) \/ ReadOnly(w) \/ ReadFails(w)
             \/ InsertRefused(w) \/ WriteFails(w) \/ CommitFails(w)
      PROVE  UNCHANGED <<db, draft>>
  BY <1>4 DEF CreateCheck, UpdateCheck, RollbackTarget, RollbackCheck, DeleteCheck,
         ReadOnly, ReadFails, InsertRefused, WriteFails, CommitFails
<1> QED  BY <1>1, <1>2, <1>3, <1>4 DEF Next

-----------------------------------------------------------------------------
(* Versions count the changes of a life.                                   *)

\* Between two entries of one life that nobody was overtaken in, one by one.
Counted(h) ==
    \A i, j \in DOMAIN h :
        i < j /\ (\A k \in i + 1 .. j : h[k].kind # "CREATE" /\ ~h[k].overtaken) =>
            h[j].version = h[i].version + (j - i)

LEMMA EntryVersions ==
    ASSUME NEW h \in Seq(Entries), NEW i \in DOMAIN h
    PROVE  i \in Nat /\ h[i].version \in Nat
<1>1. h[i] \in Entries /\ i \in Nat
  OBVIOUS
<1>2. \A e \in Entries : e.version \in Nat
  BY DEF Entries
<1> QED  BY <1>1, <1>2

LEMMA CountedApart ==
    ASSUME NEW h \in Seq(Entries), Counted(h)
    PROVE  Apart(h)
<1> SUFFICES ASSUME NEW i \in DOMAIN h, NEW j \in DOMAIN h, i < j,
                    h[i].version = h[j].version,
                    ~ \E k \in i + 1 .. j : h[k].kind = "CREATE" \/ h[k].overtaken
             PROVE  FALSE
  BY DEF Apart
<1>1. h[j].version = h[i].version + (j - i)
  BY DEF Counted
<1>2. i \in Nat /\ j \in Nat /\ h[i].version \in Nat
  BY EntryVersions
<1> QED  BY <1>1, <1>2

\* One more entry counts on from the last one, or begins to count anew.
LEMMA WriteCounts ==
    ASSUME NEW c \in Calls, NEW d \in Databases, c.config \in Stored,
           Counted(d.history), Chained(Written(c, d).history)
    PROVE  Counted(Written(c, d).history)
<1> DEFINE h == d.history
           g == Written(c, d).history
           n == Len(d.history)
<1>1. /\ \A i \in 1..n : g[i] = h[i]
      /\ n \in Nat /\ DOMAIN h = 1..n /\ DOMAIN g = 1..(n + 1)
  BY WriteAppends
<1>2. g \in Seq(Entries)
  BY WriteTypes DEF Databases
<1>3. Chained(g) /\ Counted(h)
  OBVIOUS
<1> HIDE DEF h, g, n
<1>4. SUFFICES ASSUME NEW i \in 1..(n + 1), NEW j \in 1..(n + 1), i < j,
                      \A k \in i + 1 .. j : g[k].kind # "CREATE" /\ ~g[k].overtaken
               PROVE  g[j].version = g[i].version + (j - i)
  BY <1>1 DEF Counted, g
<1>5. CASE j # n + 1
  <2>1. i \in 1..n /\ j \in 1..n /\ \A k \in i + 1 .. j : k \in 1..n
    BY <1>1, <1>4, <1>5
  <2>2. \A k \in i + 1 .. j : h[k].kind # "CREATE" /\ ~h[k].overtaken
    BY <1>1, <1>4, <2>1
  <2>3. h[j].version = h[i].version + (j - i)
    BY <1>1, <1>3, <1>4, <2>1, <2>2 DEF Counted
  <2> QED  BY <1>1, <2>1, <2>3
<1>6. CASE j = n + 1
  <2>1. i \in 1..n /\ n \in 1..n /\ j \in i + 1 .. j
    BY <1>1, <1>4, <1>6
  <2>2. g[n + 1].version = g[n].version + 1
    <3>1. g[j].kind # "CREATE" /\ ~g[j].overtaken
      BY <1>4, <2>1
    <3>2. g[j].version = g[j - 1].version + 1
      BY <1>1, <1>3, <3>1 DEF Chained
    <3>3. j - 1 = n
      BY <1>1, <1>6
    <3> QED  BY <1>6, <3>2, <3>3
  <2>3. g[n].version = g[i].version + (n - i)
    <3>1. CASE i = n
      <4>1. g[n].version \in Nat
        BY <1>1, <1>2, <2>1, EntryVersions
      <4> QED  BY <1>1, <3>1, <4>1
    <3>2. CASE i # n
      <4>1. i < n /\ \A k \in i + 1 .. n : k \in 1..n /\ k \in i + 1 .. j
        BY <1>1, <1>6, <2>1, <3>2
      <4>2. \A k \in i + 1 .. n : h[k].kind # "CREATE" /\ ~h[k].overtaken
        BY <1>1, <1>4, <4>1
      <4>3. h[n].version = h[i].version + (n - i)
        BY <1>1, <1>3, <2>1, <4>1, <4>2 DEF Counted
      <4> QED  BY <1>1, <2>1, <4>3
    <3> QED  BY <3>1, <3>2
  <2>4. g[i].version \in Nat /\ i \in Nat
    BY <1>1, <1>2, <2>1, EntryVersions
  <2> QED  BY <1>1, <1>6, <2>2, <2>3, <2>4
<1> QED  BY <1>5, <1>6

Counting == Counted(db.history) /\ Counted(draft.history)

LEMMA StepCounting == IInv /\ IInv' /\ Counting /\ [Next]_vars => Counting'
<1> SUFFICES ASSUME IInv, IInv', Counting, [Next]_vars PROVE Counting'
  OBVIOUS
<1>1. db' \in {db, draft} => Counted(db'.history)
  BY DEF Counting
<1>2. draft' \in {db, draft} => Counted(draft'.history)
  BY DEF Counting
<1>3. ASSUME NEW w \in Workers, call[w] \in Calls, call[w].config \in Stored,
             draft' = Written(call[w], draft)
      PROVE  Counted(draft'.history)
  <2>1. draft \in Databases /\ Chained(draft'.history) /\ Counted(draft.history)
    BY DEF IInv, TypeOK, Sound, Counting
  <2> QED  BY <1>3, <2>1, WriteCounts
<1> QED  BY <1>1, <1>2, <1>3, DataSteps DEF Counting

\* A version is given twice only in two lives of the baseline, or by two processes of
\* which one overtook the other.
THEOREM VersionsAreDistinct == Spec => []VersionsNameEntries
<1>1. Init => Counting
  BY DEF Init, Counting, Counted
<1>2. IInv /\ Counting => VersionsNameEntries
  BY CountedApart DEF IInv, TypeOK, Databases, Counting, VersionsNameEntries
<1> QED  BY <1>1, <1>2, StepCounting, Invariant, PTL DEF Spec

-----------------------------------------------------------------------------
(* Rollbacks.                                                              *)

\* The history has what call c is to restore.
Holds(c, h) ==
    c.target > 0 =>
        \E i \in DOMAIN h : h[i].version = c.target /\ h[i].config = c.config

\* A rollback under way can still be traced in what its worker sees.
Traceable == \A w \in Workers :
    pc[w] \in {"current", "write"} => Holds(call[w], View(w).history)

Restoring == Traceable /\ Restores(db.history) /\ Restores(draft.history)

LEMMA ExtendedHolds ==
    ASSUME NEW c \in Calls, NEW h \in Seq(Entries), NEW g \in Seq(Entries),
           Extends(h, g), Holds(c, h)
    PROVE  Holds(c, g)
<1>1. DOMAIN h \subseteq DOMAIN g
  BY DEF Extends
<1> QED  BY <1>1 DEF Holds, Extends

\* While one worker takes a step, what another sees grows at most.
LEMMA OthersSee ==
    ASSUME IInv, NEW w \in Workers, NEW v \in Workers \ {w}, lock'[v] = lock[v],
           \/ UNCHANGED <<db, draft>>
           \/ ~Writing(v) /\ db' = db
           \/ ~Writing(v) /\ db' = draft
    PROVE  Extends(View(v).history, View(v)'.history)
<1>1. Writing(v)' <=> Writing(v)
  BY DEF Writing
<1>2. /\ db.history \in Seq(Entries) /\ draft.history \in Seq(Entries)
      /\ Extends(db.history, draft.history)
  BY DEF IInv, TypeOK, Databases, DraftInv
<1>3. \A h \in Seq(Entries) : Extends(h, h)
  BY DEF Extends
<1> QED  BY <1>1, <1>2, <1>3 DEF View

\* A step of w, as another worker sees it.
LEMMA OthersStep ==
    ASSUME IInv, NEW w \in Workers, NEW v \in Workers \ {w},
           \/ \E c \in Configs : CreateCheck(w, c) \/ UpdateCheck(w, c)
           \/ \E i \in DOMAIN View(w).history : RollbackTarget(w, View(w).history[i].version)
           \/ RollbackCheck(w) \/ DeleteCheck(w) \/ ReadOnly(w) \/ ReadFails(w)
           \/ Write(w) \/ InsertRefused(w) \/ WriteFails(w)
           \/ Commit(w) \/ CommitFails(w) \/ Restart(w)
    PROVE  /\ pc'[v] = pc[v]
           /\ call'[v].target = call[v].target /\ call'[v].config = call[v].config
           /\ Extends(View(v).history, View(v)'.history)
<1>0. /\ DOMAIN pc = Workers /\ DOMAIN call = Workers /\ DOMAIN lock = Workers
      /\ call[v] \in Calls
  BY DEF IInv, TypeOK
<1>1. CASE \/ \E c \in Configs : CreateCheck(w, c) \/ UpdateCheck(w, c)
           \/ \E i \in DOMAIN View(w).history : RollbackTarget(w, View(w).history[i].version)
           \/ RollbackCheck(w) \/ DeleteCheck(w) \/ ReadOnly(w) \/ ReadFails(w)
  <2>1. /\ pc'[v] = pc[v] /\ call'[v] = call[v] /\ lock'[v] = lock[v]
        /\ UNCHANGED <<db, draft>>
    BY <1>0, <1>1 DEF CreateCheck, UpdateCheck, RollbackTarget, RollbackCheck, DeleteCheck,
           ReadOnly, ReadFails, Select, Goto, Finish
  <2> QED  BY <2>1, OthersSee
<1>2. CASE Write(w) \/ InsertRefused(w) \/ WriteFails(w) \/ CommitFails(w)
  <2>1. /\ pc'[v] = pc[v] /\ call'[v] = call[v] /\ lock'[v] = lock[v] /\ db' = db
        /\ draft' = draft \/ CanWrite(w)
    BY <1>0, <1>2 DEF Write, InsertRefused, WriteFails, CommitFails, Finish
  <2> QED  BY <2>1, OthersSee DEF CanWrite
<1>3. CASE Commit(w)
  <2>1. /\ pc'[v] = pc[v] /\ lock'[v] = lock[v] /\ db' = draft
        /\ call'[v] \in {call[v], [call[v] EXCEPT !.overtaken = TRUE]}
    BY <1>0, <1>3 DEF Commit, Overtake
  <2>2. ~Writing(v)
    BY <1>3 DEF Commit, IInv, LockInv
  <2>3. call'[v].target = call[v].target /\ call'[v].config = call[v].config
    BY <1>0, <2>1 DEF Calls
  <2> QED  BY <2>1, <2>2, <2>3, OthersSee
<1>4. CASE Restart(w)
  <2>1. /\ pc'[v] = pc[v] /\ call'[v] = call[v] /\ lock'[v] = lock[v] /\ db' = db
        /\ draft' = draft \/ Writing(w)
    BY <1>0, <1>4 DEF Restart, Finish
  <2>2. Writing(w) => ~Writing(v)
    BY DEF IInv, LockInv
  <2> QED  BY <2>1, <2>2, OthersSee
<1> QED  BY <1>1, <1>2, <1>3, <1>4

\* A step of w, as far as a rollback of its own goes.
LEMMA OwnStep ==
    ASSUME IInv, IInv', Traceable, NEW w \in Workers,
           \/ \E c \in Configs : CreateCheck(w, c) \/ UpdateCheck(w, c)
           \/ \E i \in DOMAIN View(w).history : RollbackTarget(w, View(w).history[i].version)
           \/ RollbackCheck(w) \/ DeleteCheck(w) \/ ReadOnly(w) \/ ReadFails(w)
           \/ Write(w) \/ InsertRefused(w) \/ WriteFails(w)
           \/ Commit(w) \/ CommitFails(w) \/ Restart(w),
           pc'[w] \in {"current", "write"}
    PROVE  Holds(call'[w], View(w)'.history)
<1>0. /\ DOMAIN pc = Workers /\ DOMAIN call = Workers
      /\ View(w).history \in Seq(Entries)
  BY ViewTypes DEF IInv, TypeOK
<1>1. ASSUME Select(w), UNCHANGED <<db, draft>>
      PROVE  View(w)' = View(w)
  BY <1>1, SelectKeepsWriters DEF IInv, View
<1>2. CASE \/ \E c \in Configs : CreateCheck(w, c) \/ UpdateCheck(w, c)
           \/ DeleteCheck(w)
  <2>1. call'[w].target = 0
    BY <1>0, <1>2 DEF CreateCheck, UpdateCheck, DeleteCheck, Goto, Change
  <2> QED  BY <2>1 DEF Holds
<1>3. ASSUME NEW j \in DOMAIN View(w).history,
             RollbackTarget(w, View(w).history[j].version)
      PROVE  Holds(call'[w], View(w)'.history)
  <2> DEFINE version == View(w).history[j].version
  <2>1. PICK i \in AtVersion(View(w).history, version) :
            Goto(w, "current", Change("UPDATE", NoRow, View(w).history[i].config, version))
    BY <1>3 DEF RollbackTarget
  <2>2. call'[w] = Change("UPDATE", NoRow, View(w).history[i].config, version)
    BY <1>0, <2>1 DEF Goto
  <2>3. View(w)' = View(w)
    BY <1>1, <1>3 DEF RollbackTarget
  <2>4. /\ call'[w].target = version /\ call'[w].config = View(w).history[i].config
        /\ i \in DOMAIN View(w).history /\ View(w).history[i].version = version
    BY <2>1, <2>2 DEF Change, AtVersion
  <2> QED  BY <2>3, <2>4 DEF Holds
<1>4. CASE RollbackCheck(w)
  <2>1. pc[w] = "current" /\ View(w)' = View(w)
    BY <1>1, <1>4 DEF RollbackCheck
  <2>2. call'[w] = Change("UPDATE", View(w).row, call[w].config, call[w].target)
    BY <1>0, <1>4 DEF RollbackCheck, Goto, Finish
  <2>3. call'[w].config = call[w].config /\ call'[w].target = call[w].target
    BY <2>2 DEF Change
  <2> QED  BY <2>1, <2>3 DEF Traceable, Holds
<1>5. CASE ReadOnly(w)
  <2>1. View(w)' = View(w) /\ pc' = pc /\ call' = call
    BY <1>1, <1>5 DEF ReadOnly
  <2> QED  BY <2>1 DEF Traceable
<1>6. CASE \/ ReadFails(w) \/ Write(w) \/ InsertRefused(w) \/ WriteFails(w)
           \/ Commit(w) \/ CommitFails(w) \/ Restart(w)
  <2>1. pc'[w] \in {"idle", "commit"}
    BY <1>0, <1>6 DEF ReadFails, Write, InsertRefused, WriteFails, Commit, CommitFails,
           Restart, Finish
  <2> QED  BY <2>1
<1> QED  BY <1>2, <1>3, <1>4, <1>5, <1>6

LEMMA StepTraceable == IInv /\ IInv' /\ Traceable /\ [Next]_vars => Traceable'
<1> SUFFICES ASSUME IInv, IInv', Traceable, [Next]_vars,
                    NEW v \in Workers, pc'[v] \in {"current", "write"}
             PROVE  Holds(call'[v], View(v)'.history)
  BY DEF Traceable
<1>1. CASE UNCHANGED vars
  BY <1>1 DEF vars, View, Writing, Traceable, Holds
<1>2. CASE Next
  <2>1. PICK w \in Workers :
           \/ \E c \in Configs : CreateCheck(w, c) \/ UpdateCheck(w, c)
           \/ \E i \in DOMAIN View(w).history : RollbackTarget(w, View(w).history[i].version)
           \/ RollbackCheck(w) \/ DeleteCheck(w) \/ ReadOnly(w) \/ ReadFails(w)
           \/ Write(w) \/ InsertRefused(w) \/ WriteFails(w)
           \/ Commit(w) \/ CommitFails(w) \/ Restart(w)
    BY <1>2 DEF Next
  <2>2. CASE v = w
    BY <2>1, <2>2, OwnStep
  <2>3. CASE v # w
    <3>1. /\ pc'[v] = pc[v]
          /\ call'[v].target = call[v].target /\ call'[v].config = call[v].config
          /\ Extends(View(v).history, View(v)'.history)
      BY <2>1, <2>3, OthersStep
    <3>2. /\ Holds(call[v], View(v).history) /\ call[v] \in Calls
          /\ View(v).history \in Seq(Entries) /\ View(v)'.history \in Seq(Entries)
      BY <3>1 DEF Traceable, IInv, TypeOK, View, Databases
    <3>3. Holds(call[v], View(v)'.history)
      BY <3>1, <3>2, ExtendedHolds
    <3> QED  BY <3>1, <3>3 DEF Holds
  <2> QED  BY <2>2, <2>3
<1> QED  BY <1>1, <1>2

\* A rollback that can be traced when it is written can be traced in the history.
LEMMA WriteRestores ==
    ASSUME NEW c \in Calls, NEW d \in Databases, c.config \in Stored,
           Restores(d.history), Holds(c, d.history)
    PROVE  Restores(Written(c, d).history)
<1> DEFINE h == d.history
           g == Written(c, d).history
           n == Len(d.history)
<1>1. /\ \A i \in 1..n : g[i] = h[i]
      /\ n \in Nat /\ DOMAIN h = 1..n /\ DOMAIN g = 1..(n + 1)
      /\ g[n + 1] = EntryOf(c)
  BY WriteAppends
<1>2. SUFFICES ASSUME NEW j \in 1..(n + 1), g[j].target > 0
               PROVE  \E i \in 1..(j - 1) : g[i].version = g[j].target /\ g[i].config = g[j].config
  BY <1>1 DEF Restores
<1>3. CASE j # n + 1
  <2>1. j \in 1..n
    BY <1>1, <1>3
  <2>2. PICK i \in 1..(j - 1) : h[i].version = h[j].target /\ h[i].config = h[j].config
    BY <1>1, <1>2, <2>1 DEF Restores
  <2>3. i \in 1..n
    BY <1>1, <2>1
  <2> QED  BY <1>1, <2>1, <2>2, <2>3
<1>4. CASE j = n + 1
  <2>1. g[j].target = c.target /\ g[j].config = c.config
    BY <1>1, <1>4 DEF EntryOf
  <2>2. PICK i \in 1..n : h[i].version = c.target /\ h[i].config = c.config
    BY <1>1, <1>2, <2>1 DEF Holds
  <2> QED  BY <1>1, <1>4, <2>1, <2>2
<1> QED  BY <1>3, <1>4

LEMMA StepRestoring == IInv /\ IInv' /\ Restoring /\ [Next]_vars => Restoring'
<1> SUFFICES ASSUME IInv, IInv', Restoring, [Next]_vars PROVE Restoring'
  OBVIOUS
<1>1. Traceable'
  BY StepTraceable DEF Restoring
<1>2. db' \in {db, draft} => Restores(db'.history)
  BY DEF Restoring
<1>3. draft' \in {db, draft} => Restores(draft'.history)
  BY DEF Restoring
<1>4. ASSUME NEW w \in Workers, pc[w] = "write", draft = View(w),
             call[w] \in Calls, call[w].config \in Stored,
             draft' = Written(call[w], draft)
      PROVE  Restores(draft'.history)
  <2>1. draft \in Databases /\ Restores(draft.history)
    BY DEF IInv, TypeOK, Restoring
  <2>2. Holds(call[w], draft.history)
    BY <1>4 DEF Restoring, Traceable
  <2> QED  BY <1>4, <2>1, <2>2, WriteRestores
<1> QED  BY <1>1, <1>2, <1>3, <1>4, DataSteps DEF Restoring

\* However many processes commit, fail and restart during a rollback, the config that
\* it installs is one that the history has under the version asked for.
THEOREM RollbacksAreTrue == Spec => []RollbacksRestore
<1>1. Init => Restoring
  BY DEF Init, Restoring, Traceable, Restores
<1>2. Restoring => RollbacksRestore
  BY DEF Restoring, RollbacksRestore
<1> QED  BY <1>1, <1>2, StepRestoring, Invariant, PTL DEF Spec
=============================================================================
