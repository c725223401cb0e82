------------------------- MODULE AlertMonitoringProofs -------------------------
(***************************************************************************)
(* AlertMonitoring is well typed, a waiting alert is let through by the    *)
(* first check after its wait, and messages on the same alert keep the     *)
(* repeat interval, for every set of alerts and all intervals.             *)
(*                                                                         *)
(* The store is not the only memory of a decision: it may have forgotten   *)
(* the entry of an alert that was told, or that is still to be told.  The  *)
(* invariant says, of each decision d on an alert that counts, that the    *)
(* store either remembers one at least as late or is right not to.         *)
(***************************************************************************)
EXTENDS AlertMonitoring, FiniteSetTheorems, TLAPS

\* The store will not let a through again too soon after a decision at time d.
Settled(a, d) ==
    IF a \in DOMAIN store /\ store[a].last_notified # None
      THEN d <= store[a].last_notified
      ELSE d + RepeatInterval <= now

\* An entry is notified only when it is seen.
SeenInv ==
    \A a \in DOMAIN store :
        /\ store[a].last_seen <= now
        /\ store[a].last_notified # None => store[a].last_notified <= store[a].last_seen

\* What was told is settled.
ToldInv == \A a \in Alerts : told[a] # None => Settled(a, told[a])

\* What is still to be told is settled too, is not checked again in this call, and
\* keeps the interval.
OwedInv ==
    \A a \in DOMAIN to_notify :
        /\ a \notin batch
        /\ Settled(a, to_notify[a])
        /\ told[a] # None => told[a] + RepeatInterval <= to_notify[a]

IInv == TypeOK /\ EveryAlertIsRoutedOnce /\ SeenInv /\ ToldInv /\ OwedInv

-----------------------------------------------------------------------------
LEMMA InitIInv == Init => IInv
  BY AlertAssumption
  DEF Init, IInv, TypeOK, EveryAlertIsRoutedOnce, SeenInv, ToldInv, OwedInv, IsPartial, Nothing

\* Mapping one alert more, or fewer alerts, gives a partial function again.
LEMMA PutPartial ==
    ASSUME NEW S, NEW f, IsPartial(f, S), NEW a \in Alerts, NEW v \in S
    PROVE  /\ IsPartial(Put(f, a, v), S)
           /\ DOMAIN Put(f, a, v) = DOMAIN f \cup {a}
           /\ Put(f, a, v)[a] = v
           /\ \A b \in DOMAIN f \ {a} : Put(f, a, v)[b] = f[b]
  BY DEF IsPartial, Put

LEMMA DropPartial ==
    ASSUME NEW S, NEW f, IsPartial(f, S), NEW A
    PROVE  /\ IsPartial(Drop(f, A), S)
           /\ DOMAIN Drop(f, A) = DOMAIN f \ A
           /\ \A b \in DOMAIN f \ A : Drop(f, A)[b] = f[b]
  BY DEF IsPartial, Drop, Restrict

\* The cleanup takes entries that were last seen long ago, and leaves the others
\* as they are.
LEMMA KeptFacts ==
    ASSUME TypeOK
    PROVE  /\ IsPartial(Kept, Entries)
           /\ DOMAIN Kept \subseteq DOMAIN store
           /\ \A b \in DOMAIN Kept : Kept[b] = store[b]
           /\ \A b \in DOMAIN store \ DOMAIN Kept :
                 store[b].last_seen < now - RepeatInterval * 2
<1>1. IsPartial(store, Entries)
  BY DEF TypeOK
<1>2. CASE CleanupIsDue
  <2>1. Kept = Drop(store, Stale)
    BY <1>2 DEF Kept
  <2>2. Stale \subseteq DOMAIN store
        /\ \A b \in Stale : store[b].last_seen < now - RepeatInterval * 2
    BY DEF Stale
  <2>3. /\ IsPartial(Drop(store, Stale), Entries)
        /\ DOMAIN Drop(store, Stale) = DOMAIN store \ Stale
        /\ \A b \in DOMAIN store \ Stale : Drop(store, Stale)[b] = store[b]
    BY <1>1, DropPartial, Zenon
  <2> HIDE DEF Stale
  <2> QED
    BY <2>1, <2>2, <2>3
<1>3. CASE ~CleanupIsDue
  <2>1. Kept = store
    BY <1>3 DEF Kept
  <2> QED
    BY <1>1, <2>1
<1> QED
  BY <1>2, <1>3

\* The entry that a check sees.
LEMMA SeenFacts ==
    ASSUME TypeOK, NEW a \in Alerts, NEW start \in 0 .. now
    PROVE  /\ Seen(a, start) \in Entries
           /\ Seen(a, start).last_seen = now
           /\ a \in DOMAIN Kept =>
                 /\ Seen(a, start).last_notified = store[a].last_notified
                 /\ Seen(a, start).first_seen = store[a].first_seen
           /\ a \notin DOMAIN Kept => Seen(a, start).last_notified = None
<1>1. now \in Nat /\ start \in Nat
  BY DEF TypeOK
<1>2. CASE a \in DOMAIN Kept
  <2>1. Kept[a] = store[a] /\ Kept[a] \in Entries
    BY <1>2, KeptFacts DEF IsPartial
  <2> QED
    BY <1>1, <1>2, <2>1 DEF Seen, Entries
<1>3. CASE a \notin DOMAIN Kept
  BY <1>1, <1>3 DEF Seen, Entries
<1> QED
  BY <1>2, <1>3

\* The store after a check.
LEMMA CheckFacts ==
    ASSUME TypeOK, NEW a \in Alerts, NEW start \in 0 .. now, CheckAndUpdate(a, start)
    PROVE  /\ IsPartial(store', Entries)
           /\ DOMAIN store' = DOMAIN Kept \cup {a}
           /\ \A b \in DOMAIN Kept \ {a} : store'[b] = store[b]
           /\ store'[a].last_seen = now
           /\ store'[a].first_seen = Seen(a, start).first_seen
           /\ store'[a].last_notified = IF ShouldNotify(Seen(a, start)) THEN now
                                          ELSE Seen(a, start).last_notified
<1> DEFINE e == Seen(a, start)
           new == IF ShouldNotify(e) THEN [e EXCEPT !.last_notified = now] ELSE e
<1>1. now \in Nat
  BY DEF TypeOK
<1>2. e \in Entries /\ e.last_seen = now
  BY SeenFacts
<1>3. store' = Put(Kept, a, new)
  BY DEF CheckAndUpdate
<1>4. /\ new \in Entries
      /\ new.last_seen = now
      /\ new.first_seen = e.first_seen
      /\ new.last_notified = IF ShouldNotify(e) THEN now ELSE e.last_notified
  <2> HIDE DEF e
  <2> QED
    BY <1>1, <1>2 DEF Entries
<1> HIDE DEF new
<1>5. /\ IsPartial(store', Entries)
      /\ DOMAIN store' = DOMAIN Kept \cup {a}
      /\ store'[a] = new
      /\ \A b \in DOMAIN Kept \ {a} : store'[b] = Kept[b]
  <2>1. IsPartial(Kept, Entries) /\ new \in Entries /\ a \in Alerts
    BY <1>4, KeptFacts
  <2> HIDE DEF e
  <2>2. /\ IsPartial(Put(Kept, a, new), Entries)
        /\ DOMAIN Put(Kept, a, new) = DOMAIN Kept \cup {a}
        /\ Put(Kept, a, new)[a] = new
        /\ \A b \in DOMAIN Kept \ {a} : Put(Kept, a, new)[b] = Kept[b]
    BY <2>1 DEF Put, IsPartial
  <2> QED
    BY <1>3, <2>2
<1> QED
  BY <1>4, <1>5, KeptFacts

-----------------------------------------------------------------------------
\* A check leaves every decision settled: what the store forgets is older than two
\* repeat intervals.
LEMMA CheckSettles ==
    ASSUME TypeOK, SeenInv, NEW a \in Alerts, NEW start \in 0 .. now,
           CheckAndUpdate(a, start), now' = now,
           NEW b \in Alerts, NEW d \in Nat, Settled(b, d)
    PROVE  Settled(b, d)'
<1>1. now \in Nat /\ RepeatInterval \in Nat /\ RepeatInterval > 0 /\ None \notin Nat
  BY AlertAssumption DEF TypeOK
<1>2. /\ \A c \in DOMAIN store : store[c] \in Entries
      /\ \A c \in DOMAIN store' : store'[c] \in Entries
  BY CheckFacts DEF TypeOK, IsPartial
<1>3. b \in DOMAIN store => /\ store[b].last_seen \in Nat
                            /\ store[b].last_notified \in Nat \cup {None}
                            /\ store[b].last_seen <= now
                            /\ store[b].last_notified # None =>
                                  store[b].last_notified <= store[b].last_seen
  BY <1>2 DEF Entries, SeenInv
<1>4. CASE b \in DOMAIN store /\ b \notin DOMAIN Kept /\ store[b].last_notified # None
  <2>1. store[b].last_seen < now - RepeatInterval * 2
    BY <1>4, KeptFacts
  <2>2. d <= store[b].last_notified
    BY <1>4 DEF Settled
  <2>3. d + RepeatInterval <= now
    BY <1>1, <1>3, <1>4, <2>1, <2>2
  <2>4. b \in DOMAIN store' => store'[b].last_notified \in {None, now}
    <3>1. b = a => Seen(a, start).last_notified = None
      BY <1>4, SeenFacts
    <3> QED
      BY <1>4, <3>1, CheckFacts
  <2> QED
    BY <1>1, <2>3, <2>4 DEF Settled
<1>5. CASE ~(b \in DOMAIN store /\ store[b].last_notified # None)
  <2>1. d + RepeatInterval <= now
    BY <1>5 DEF Settled
  <2>2. b \in DOMAIN store' => store'[b].last_notified \in {None, now}
    <3>1. b = a => Seen(a, start).last_notified = None
      BY <1>5, SeenFacts, KeptFacts
    <3>2. CASE b = a
      BY <3>1, <3>2, CheckFacts
    <3>3. CASE b # a
      <4>1. b \in DOMAIN store' => b \in DOMAIN Kept /\ store'[b] = store[b]
        BY <3>3, CheckFacts
      <4>2. b \in DOMAIN Kept => b \in DOMAIN store
        BY KeptFacts
      <4> QED
        BY <1>5, <4>1, <4>2
    <3> QED
      BY <3>2, <3>3
  <2> QED
    BY <1>1, <2>1, <2>2 DEF Settled
<1>6. CASE b \in DOMAIN Kept /\ store[b].last_notified # None
  <2>1. b \in DOMAIN store /\ d <= store[b].last_notified
    BY <1>6, KeptFacts DEF Settled
  <2>2. b \in DOMAIN store' /\ store'[b].last_notified \in {store[b].last_notified, now}
    <3>1. b = a => Seen(a, start).last_notified = store[b].last_notified
      BY <1>6, SeenFacts
    <3> QED
      BY <1>6, <3>1, CheckFacts
  <2> QED
    BY <1>1, <1>3, <1>6, <2>1, <2>2 DEF Settled
<1> QED
  BY <1>4, <1>5, <1>6

\* The store lets an alert through only when the interval since every settled
\* decision on it is over.
LEMMA NoticeIsSpaced ==
    ASSUME TypeOK, SeenInv, NEW a \in Alerts, NEW start \in 0 .. now,
           ShouldNotify(Seen(a, start)), NEW d \in Nat, Settled(a, d)
    PROVE  d + RepeatInterval <= now
<1>1. now \in Nat /\ RepeatInterval \in Nat /\ RepeatInterval > 0 /\ None \notin Nat
  BY AlertAssumption DEF TypeOK
<1>2. a \in DOMAIN store => /\ store[a].last_seen \in Nat
                            /\ store[a].last_notified \in Nat \cup {None}
                            /\ store[a].last_notified # None =>
                                  store[a].last_notified <= store[a].last_seen
  BY DEF TypeOK, IsPartial, Entries, SeenInv
<1>3. CASE ~(a \in DOMAIN store /\ store[a].last_notified # None)
  BY <1>3 DEF Settled
<1>4. CASE a \in DOMAIN Kept /\ a \in DOMAIN store /\ store[a].last_notified # None
  <2>1. Seen(a, start).last_notified = store[a].last_notified
    BY <1>4, SeenFacts
  <2>2. now - store[a].last_notified >= RepeatInterval
    BY <1>4, <2>1 DEF ShouldNotify
  <2>3. d <= store[a].last_notified
    BY <1>4 DEF Settled
  <2> QED
    BY <1>1, <1>2, <1>4, <2>2, <2>3
<1>5. CASE a \notin DOMAIN Kept /\ a \in DOMAIN store /\ store[a].last_notified # None
  <2>1. store[a].last_seen < now - RepeatInterval * 2
    BY <1>5, KeptFacts
  <2>2. d <= store[a].last_notified
    BY <1>5 DEF Settled
  <2> QED
    BY <1>1, <1>2, <1>5, <2>1, <2>2
<1> QED
  BY <1>3, <1>4, <1>5

-----------------------------------------------------------------------------
LEMMA TypeStep == TypeOK /\ EveryAlertIsRoutedOnce /\ [Next]_vars => TypeOK'
<1> SUFFICES ASSUME TypeOK, EveryAlertIsRoutedOnce, [Next]_vars PROVE TypeOK'
  OBVIOUS
<1>0. now \in Nat /\ None \notin Nat /\ MaxPerMinute \in Nat
  BY AlertAssumption DEF TypeOK
<1>1. CASE Tick
  BY <1>0, <1>1 DEF Tick, process, TypeOK, IsPartial
<1>2. ASSUME NEW firing \in SUBSET Alerts, Fetch(firing) PROVE TypeOK'
  BY <1>2 DEF Fetch, TypeOK, IsPartial
<1>3. ASSUME NEW a \in Alerts, NEW start \in 0 .. now, Check(a, start) PROVE TypeOK'
  <2> USE <1>3 DEF Check
  <2>1. IsPartial(store', Entries)
    BY CheckFacts
  <2>2. /\ count' \in 0 .. MaxPerMinute
        /\ last_reset' \in Nat
        /\ recent' \subseteq Nat \X Alerts
    <3>1. CountNow \in 0 .. MaxPerMinute
      BY <1>0 DEF CountNow, TypeOK
    <3>2. CASE CheckQuiet(a, start)
      BY <3>2 DEF CheckQuiet, TypeOK
    <3>3. CASE CheckNotify(a, start)
      BY <1>0, <3>1, <3>3 DEF CheckNotify, RateAllows, TypeOK
    <3> QED
      BY <3>2, <3>3
  <2>3. IsPartial(to_notify', Nat)
    <3>1. IsPartial(to_notify, Nat)
      BY DEF TypeOK
    <3>2. IsPartial(Put(to_notify, a, now), Nat)
      BY <1>0, <3>1, PutPartial, Zenon
    <3> QED
      BY <3>1, <3>2 DEF CheckQuiet, CheckNotify
  <2> QED
    BY <1>0, <2>1, <2>2, <2>3 DEF TypeOK
<1>4. ASSUME NEW min \in 1 .. 3 \cup {None}, NEW group_alerts \in BOOLEAN,
             Filter(min, group_alerts)
      PROVE  TypeOK'
  <2> DEFINE A == {a \in DOMAIN to_notify : min # None /\ Severity[a] >= min}
  <2>1. /\ pc = "checking" /\ batch = {}
        /\ to_notify' = Restrict(to_notify, A)
        /\ messages' = (IF group_alerts THEN GroupMessages(A) ELSE AlertMessages(A)) \ {{}}
        /\ pc' = IF A = {} THEN "idle" ELSE "routing"
        /\ UNCHANGED <<now, store, last_cleanup, count, last_reset, batch, told, recent>>
    BY <1>4 DEF Filter
  <2>2. A \subseteq DOMAIN to_notify /\ A \subseteq Alerts
    BY DEF TypeOK, IsPartial
  <2> HIDE DEF A
  <2>3. messages' \subseteq SUBSET Alerts
    BY <2>1, <2>2 DEF GroupMessages, GroupOf, AlertMessages
  <2>4. IsPartial(to_notify', Nat) /\ (A = {} => to_notify' = Nothing)
    BY <2>1, <2>2 DEF TypeOK, IsPartial, Restrict, Nothing
  <2> QED
    BY <2>1, <2>3, <2>4 DEF TypeOK, IsPartial
<1>5. ASSUME NEW m \in messages, NEW kakao \in BOOLEAN, NEW eventbridge \in BOOLEAN,
             Send(m, kakao, eventbridge)
      PROVE  TypeOK'
  <2> USE <1>5 DEF Send
  <2>1. IsPartial(to_notify', Nat) /\ DOMAIN to_notify' = DOMAIN to_notify \ m
    <3>1. IsPartial(to_notify, Nat)
      BY DEF TypeOK
    <3>2. /\ IsPartial(Drop(to_notify, m), Nat)
          /\ DOMAIN Drop(to_notify, m) = DOMAIN to_notify \ m
      BY <3>1, DropPartial, Zenon
    <3> QED
      BY <3>2
  <2>2. m \subseteq DOMAIN to_notify /\ (messages' = {} => DOMAIN to_notify \subseteq m)
    BY DEF EveryAlertIsRoutedOnce
  <2>3. pc' = "idle" => to_notify' = Nothing
    BY <2>1, <2>2 DEF IsPartial, Nothing, Drop, Restrict
  <2>4. told' \in [Alerts -> Nat \cup {None}]
    BY <2>2 DEF TypeOK, IsPartial
  <2> QED
    BY <2>1, <2>3, <2>4 DEF TypeOK, IsPartial
<1>6. CASE Restart
  BY <1>0, <1>6 DEF Restart, TypeOK, IsPartial, Nothing
<1>7. CASE UNCHANGED vars
  BY <1>7 DEF vars, process, TypeOK, IsPartial
<1> QED
  BY <1>1, <1>2, <1>3, <1>4, <1>5, <1>6, <1>7 DEF Next

-----------------------------------------------------------------------------
\* Messages share out a set of alerts.
Shares(M, A) == UNION M = A /\ \A m, n \in M : m # n => m \cap n = {}

LEMMA GroupsShareOut == ASSUME NEW A PROVE Shares(GroupMessages(A), A)
<1> DEFINE G == {GroupOf(a, A) : a \in A}
           U == {g \in G : Urgent(g)}
<1>1. \A g, h \in G : g # h => g \cap h = {}
  <2> SUFFICES ASSUME NEW g \in G, NEW h \in G, NEW c \in g \cap h PROVE g = h
    OBVIOUS
  <2>1. PICK a \in A : g = GroupOf(a, A)
    OBVIOUS
  <2>2. PICK b \in A : h = GroupOf(b, A)
    OBVIOUS
  <2>3. GroupKey[c] = GroupKey[a] /\ GroupKey[c] = GroupKey[b]
    BY <2>1, <2>2 DEF GroupOf
  <2> QED
    BY <2>1, <2>2, <2>3 DEF GroupOf
<1>2. U \subseteq G /\ UNION U \subseteq A
  BY DEF GroupOf
<1>3. GroupMessages(A) = U \cup {A \ UNION U}
  BY DEF GroupMessages
<1> HIDE DEF G, U
<1>4. UNION (U \cup {A \ UNION U}) = A
  BY <1>2
<1>5. ASSUME NEW m \in U \cup {A \ UNION U}, NEW n \in U \cup {A \ UNION U}, m # n
      PROVE  m \cap n = {}
  <2>1. CASE m \in U /\ n \in U
    BY <1>1, <1>2, <1>5, <2>1
  <2>2. CASE m \in U /\ n = A \ UNION U
    BY <2>2
  <2>3. CASE n \in U /\ m = A \ UNION U
    BY <2>3
  <2> QED
    BY <1>5, <2>1, <2>2, <2>3
<1> QED
  BY <1>3, <1>4, <1>5 DEF Shares

LEMMA AlertsShareOut ==
    ASSUME NEW A, A \subseteq Alerts PROVE Shares(AlertMessages(A), A)
<1>1. \A a \in A : Severity[a] \in 1 .. 3
  BY AlertAssumption
<1>2. \A a \in A : Severity[a] >= 2 \/ Severity[a] = 1
  BY <1>1
<1>3. \A a \in A : ~(Severity[a] >= 2 /\ Severity[a] = 1)
  BY <1>1
<1>4. \A a : a \in UNION AlertMessages(A) <=> a \in A
  BY <1>2 DEF AlertMessages
<1>5. \A m, n \in AlertMessages(A) : m # n => m \cap n = {}
  BY <1>3 DEF AlertMessages
<1> QED
  BY <1>4, <1>5 DEF Shares

LEMMA RoutingStep ==
    TypeOK /\ EveryAlertIsRoutedOnce /\ [Next]_vars => EveryAlertIsRoutedOnce'
<1> SUFFICES ASSUME TypeOK, EveryAlertIsRoutedOnce, [Next]_vars
             PROVE  EveryAlertIsRoutedOnce'
  OBVIOUS
<1>1. CASE Tick
  BY <1>1 DEF Tick, process, EveryAlertIsRoutedOnce
<1>2. ASSUME NEW firing \in SUBSET Alerts, Fetch(firing) PROVE EveryAlertIsRoutedOnce'
  BY <1>2 DEF Fetch, EveryAlertIsRoutedOnce
<1>3. ASSUME NEW a \in Alerts, NEW start \in 0 .. now, Check(a, start)
      PROVE  EveryAlertIsRoutedOnce'
  BY <1>3 DEF Check, EveryAlertIsRoutedOnce
<1>4. ASSUME NEW min \in 1 .. 3 \cup {None}, NEW group_alerts \in BOOLEAN,
             Filter(min, group_alerts)
      PROVE  EveryAlertIsRoutedOnce'
  <2> DEFINE A == {a \in DOMAIN to_notify : min # None /\ Severity[a] >= min}
             M == IF group_alerts THEN GroupMessages(A) ELSE AlertMessages(A)
  <2>1. messages' = M \ {{}} /\ to_notify' = Restrict(to_notify, A)
    BY <1>4 DEF Filter
  <2>2. A \subseteq Alerts
    BY DEF TypeOK, IsPartial
  <2>3. DOMAIN to_notify' = A
    BY <2>1 DEF Restrict
  <2> HIDE DEF A
  <2>4. Shares(GroupMessages(A), A) /\ Shares(AlertMessages(A), A)
    BY <2>2, GroupsShareOut, AlertsShareOut
  <2>5. Shares(M, A)
    BY <2>4
  <2> HIDE DEF M
  <2>6. UNION (M \ {{}}) = UNION M
    OBVIOUS
  <2> QED
    BY <2>1, <2>3, <2>5, <2>6 DEF Shares, EveryAlertIsRoutedOnce
<1>5. ASSUME NEW m \in messages, NEW kakao \in BOOLEAN, NEW eventbridge \in BOOLEAN,
             Send(m, kakao, eventbridge)
      PROVE  EveryAlertIsRoutedOnce'
  <2>1. Shares(messages, DOMAIN to_notify)
    BY <1>5 DEF Send, EveryAlertIsRoutedOnce, Shares
  <2>2. messages' = messages \ {m} /\ DOMAIN to_notify' = DOMAIN to_notify \ m
    BY <1>5 DEF Send, Drop, Restrict
  <2>3. UNION (messages \ {m}) = DOMAIN to_notify \ m
    BY <2>1 DEF Shares
  <2> QED
    BY <2>1, <2>2, <2>3 DEF Shares, EveryAlertIsRoutedOnce
<1>6. CASE Restart
  BY <1>6 DEF Restart, EveryAlertIsRoutedOnce
<1>7. CASE UNCHANGED vars
  BY <1>7 DEF vars, process, EveryAlertIsRoutedOnce
<1> QED
  BY <1>1, <1>2, <1>3, <1>4, <1>5, <1>6, <1>7 DEF Next

-----------------------------------------------------------------------------
\* Time only makes decisions more settled.
LEMMA TickSettles ==
    ASSUME TypeOK, Tick, NEW b \in Alerts, NEW d \in Nat, Settled(b, d)
    PROVE  Settled(b, d)'
<1>1. now \in Nat /\ RepeatInterval \in Nat /\ now' = now + 1 /\ store' = store
  BY AlertAssumption DEF Tick, TypeOK, process
<1>2. CASE b \in DOMAIN store /\ store[b].last_notified # None
  BY <1>1, <1>2 DEF Settled
<1>3. CASE ~(b \in DOMAIN store /\ store[b].last_notified # None)
  BY <1>1, <1>3 DEF Settled
<1> QED
  BY <1>2, <1>3

\* What a check lets through is settled by the mark it leaves.
LEMMA NoticeIsSettled ==
    ASSUME TypeOK, NEW a \in Alerts, NEW start \in 0 .. now,
           CheckAndUpdate(a, start), ShouldNotify(Seen(a, start)), now' = now
    PROVE  Settled(a, now)'
<1>1. now \in Nat /\ None \notin Nat
  BY AlertAssumption DEF TypeOK
<1>2. a \in DOMAIN store' /\ store'[a].last_notified = now
  BY CheckFacts
<1> QED
  BY <1>1, <1>2 DEF Settled

LEMMA SeenStep == TypeOK /\ SeenInv /\ [Next]_vars => SeenInv'
<1> SUFFICES ASSUME TypeOK, SeenInv, [Next]_vars PROVE SeenInv'
  OBVIOUS
<1>0. now \in Nat /\ \A a \in DOMAIN store : store[a] \in Entries
  BY DEF TypeOK, IsPartial
<1>1. CASE Tick
  BY <1>0, <1>1 DEF Tick, process, SeenInv, Entries
<1>2. ASSUME NEW a \in Alerts, NEW start \in 0 .. now, Check(a, start) PROVE SeenInv'
  <2>0. CheckAndUpdate(a, start) /\ now' = now
    BY <1>2 DEF Check
  <2> SUFFICES ASSUME NEW b \in DOMAIN store'
               PROVE  /\ store'[b].last_seen <= now
                      /\ store'[b].last_notified # None =>
                            store'[b].last_notified <= store'[b].last_seen
    BY <2>0 DEF SeenInv
  <2>1. CASE b # a
    <3>1. b \in DOMAIN Kept /\ b \in DOMAIN store /\ store'[b] = store[b]
      BY <2>0, <2>1, CheckFacts, KeptFacts
    <3> QED
      BY <3>1 DEF SeenInv
  <2>2. CASE b = a
    <3>1. store'[a].last_seen = now
      BY <2>0, CheckFacts
    <3>2. store'[a].last_notified = now
             \/ store'[a].last_notified = Seen(a, start).last_notified
      BY <2>0, CheckFacts
    <3>3. Seen(a, start).last_notified = None \/
             (a \in DOMAIN store /\ Seen(a, start).last_notified = store[a].last_notified)
      BY SeenFacts, KeptFacts
    <3>4. a \in DOMAIN store =>
             /\ store[a].last_seen \in Nat
             /\ store[a].last_notified \in Nat \cup {None}
             /\ store[a].last_seen <= now
             /\ store[a].last_notified # None =>
                   store[a].last_notified <= store[a].last_seen
      BY <1>0 DEF Entries, SeenInv
    <3> QED
      BY <1>0, <2>2, <3>1, <3>2, <3>3, <3>4
  <2> QED
    BY <2>1, <2>2
<1>3. ASSUME store' = store, now' = now PROVE SeenInv'
  BY <1>3 DEF SeenInv
<1>4. CASE Restart
  BY <1>4 DEF Restart, SeenInv, Nothing
<1> QED
  BY <1>1, <1>2, <1>3, <1>4 DEF Next, Fetch, Filter, Send, vars, process

\* What any step but a restart does to the time and the store.
StoreStep ==
    \/ Tick
    \/ \E a \in Alerts, start \in 0 .. now : Check(a, start)
    \/ store' = store /\ now' = now

\* A decision stays settled whatever happens, but for a restart.
LEMMA StaysSettled ==
    ASSUME TypeOK, SeenInv, StoreStep, NEW b \in Alerts
    PROVE  \A d \in Nat : Settled(b, d) => Settled(b, d)'
<1> SUFFICES ASSUME NEW d \in Nat, Settled(b, d) PROVE Settled(b, d)'
  OBVIOUS
<1>1. CASE Tick
  BY <1>1, TickSettles
<1>2. ASSUME NEW a \in Alerts, NEW start \in 0 .. now, Check(a, start)
      PROVE  Settled(b, d)'
  BY <1>2, CheckSettles DEF Check
<1>3. CASE store' = store /\ now' = now
  BY <1>3 DEF Settled
<1> QED
  BY <1>1, <1>2, <1>3 DEF StoreStep

\* A step that sends nothing leaves what was told settled.
LEMMA ToldKept == IInv /\ StoreStep /\ told' = told => ToldInv'
<1> SUFFICES ASSUME IInv, StoreStep, told' = told, NEW b \in Alerts, told[b] # None
             PROVE  Settled(b, told[b])'
  BY DEF ToldInv
<1>1. told[b] \in Nat /\ Settled(b, told[b]) /\ TypeOK /\ SeenInv
  BY DEF IInv, TypeOK, ToldInv
<1>2. \A d \in Nat : Settled(b, d) => Settled(b, d)'
  BY <1>1, StaysSettled
<1> QED
  BY <1>1, <1>2 DEF Settled

\* A step that lets no alert through leaves what is owed in order, if it checks none
\* of these alerts again and tells of none that it still owes.
LEMMA OwedKept ==
    ASSUME IInv, StoreStep, NEW b \in DOMAIN to_notify, b \notin batch',
           told'[b] = told[b], to_notify'[b] = to_notify[b]
    PROVE  /\ b \notin batch'
           /\ Settled(b, to_notify[b])'
           /\ told'[b] # None => told'[b] + RepeatInterval <= to_notify'[b]
<1>1. /\ TypeOK /\ SeenInv /\ b \in Alerts
      /\ to_notify[b] \in Nat /\ Settled(b, to_notify[b])
      /\ told[b] # None => told[b] + RepeatInterval <= to_notify[b]
  BY DEF IInv, TypeOK, IsPartial, OwedInv
<1>2. \A d \in Nat : Settled(b, d) => Settled(b, d)'
  BY <1>1, StaysSettled
<1> QED
  BY <1>1, <1>2 DEF Settled

LEMMA StepIInv == IInv /\ [Next]_vars => IInv'
<1> SUFFICES ASSUME IInv, [Next]_vars PROVE ToldInv' /\ OwedInv'
  BY TypeStep, RoutingStep, SeenStep DEF IInv
<1>0. /\ TypeOK /\ SeenInv /\ None \notin Nat /\ now \in Nat
      /\ DOMAIN to_notify \subseteq Alerts
  BY AlertAssumption DEF IInv, TypeOK, IsPartial
<1>1. CASE Tick
  <2>1. StoreStep /\ told' = told /\ batch' = batch /\ to_notify' = to_notify
    BY <1>1 DEF StoreStep, Tick, process
  <2>2. \A b \in DOMAIN to_notify : b \notin batch
    BY DEF IInv, OwedInv
  <2> QED
    BY <2>1, <2>2, ToldKept, OwedKept DEF OwedInv
<1>2. ASSUME NEW firing \in SUBSET Alerts, Fetch(firing) PROVE ToldInv' /\ OwedInv'
  <2>1. StoreStep /\ told' = told /\ to_notify' = to_notify /\ DOMAIN to_notify = {}
    BY <1>0, <1>2 DEF StoreStep, Fetch, TypeOK, Nothing
  <2> QED
    BY <2>1, ToldKept DEF OwedInv
<1>3. ASSUME NEW a \in Alerts, NEW start \in 0 .. now, Check(a, start)
      PROVE  ToldInv' /\ OwedInv'
  <2>1. /\ StoreStep /\ CheckAndUpdate(a, start)
        /\ now' = now /\ told' = told /\ batch' = batch \ {a} /\ a \in batch
    BY <1>3 DEF StoreStep, Check
  <2>2. a \notin DOMAIN to_notify /\ \A b \in DOMAIN to_notify : b \notin batch'
    BY <2>1 DEF IInv, OwedInv
  <2>3. ASSUME to_notify' = to_notify PROVE OwedInv'
    BY <2>1, <2>2, <2>3, OwedKept DEF OwedInv
  <2>4. ASSUME to_notify' = Put(to_notify, a, now), ShouldNotify(Seen(a, start))
        PROVE  OwedInv'
    <3> SUFFICES ASSUME NEW b \in DOMAIN to_notify'
                 PROVE  /\ b \notin batch'
                        /\ Settled(b, to_notify[b])'
                        /\ told'[b] # None =>
                              told'[b] + RepeatInterval <= to_notify'[b]
      BY DEF OwedInv
    <3>1. CASE b = a
      <4>1. to_notify'[b] = now
        BY <2>4, <3>1 DEF Put
      <4>2. Settled(a, now)'
        BY <1>0, <2>1, <2>4, NoticeIsSettled
      <4>3. told[a] # None => told[a] \in Nat /\ Settled(a, told[a])
        BY DEF IInv, TypeOK, ToldInv
      <4>4. told[a] # None => told[a] + RepeatInterval <= now
        BY <1>0, <2>4, <4>3, NoticeIsSpaced
      <4> QED
        BY <2>1, <3>1, <4>1, <4>2, <4>4 DEF Settled
    <3>2. CASE b # a
      <4>1. b \in DOMAIN to_notify /\ to_notify'[b] = to_notify[b]
        BY <2>4, <3>2 DEF Put
      <4> QED
        BY <2>1, <2>2, <4>1, OwedKept
    <3> QED
      BY <3>1, <3>2
  <2> QED
    BY <1>3, <2>1, <2>3, <2>4, ToldKept DEF Check, CheckQuiet, CheckNotify
<1>4. ASSUME NEW min \in 1 .. 3 \cup {None}, NEW group_alerts \in BOOLEAN,
             Filter(min, group_alerts)
      PROVE  ToldInv' /\ OwedInv'
  <2>1. /\ StoreStep /\ told' = told /\ batch' = batch
        /\ DOMAIN to_notify' \subseteq DOMAIN to_notify
        /\ \A b \in DOMAIN to_notify' : to_notify'[b] = to_notify[b]
    BY <1>4 DEF StoreStep, Filter, Restrict
  <2>2. \A b \in DOMAIN to_notify : b \notin batch
    BY DEF IInv, OwedInv
  <2> QED
    BY <2>1, <2>2, ToldKept, OwedKept DEF OwedInv
<1>5. ASSUME NEW m \in messages, NEW kakao \in BOOLEAN, NEW eventbridge \in BOOLEAN,
             Send(m, kakao, eventbridge)
      PROVE  ToldInv' /\ OwedInv'
  <2>1. /\ store' = store /\ now' = now /\ batch' = batch /\ StoreStep
        /\ DOMAIN to_notify' = DOMAIN to_notify \ m
        /\ \A b \in DOMAIN to_notify' : to_notify'[b] = to_notify[b]
        /\ m \subseteq DOMAIN to_notify
    BY <1>5 DEF Send, Drop, Restrict, StoreStep, IInv, EveryAlertIsRoutedOnce
  <2>2. \A b \in Alerts : told'[b] = told[b] \/ (b \in m /\ told'[b] = to_notify[b])
    BY <1>5 DEF Send
  <2>3. \A b \in DOMAIN to_notify : b \notin batch /\ Settled(b, to_notify[b])
    BY DEF IInv, OwedInv
  <2>4. \A b \in DOMAIN to_notify' : b \in DOMAIN to_notify /\ told'[b] = told[b]
    BY <1>0, <2>1, <2>2
  <2>5. OwedInv'
    BY <2>1, <2>3, <2>4, OwedKept DEF OwedInv
  <2>6. ASSUME NEW b \in Alerts, told'[b] # None PROVE Settled(b, told[b])'
    <3>1. CASE told'[b] = told[b]
      BY <2>1, <2>6, <3>1 DEF IInv, ToldInv, Settled
    <3>2. CASE b \in m /\ told'[b] = to_notify[b]
      BY <2>1, <2>3, <3>2 DEF Settled
    <3> QED
      BY <2>2, <3>1, <3>2
  <2> QED
    BY <2>5, <2>6 DEF ToldInv
<1>6. CASE Restart
  BY <1>6 DEF Restart, ToldInv, OwedInv, Nothing
<1>7. CASE UNCHANGED vars
  BY <1>7 DEF vars, process, IInv, ToldInv, OwedInv, Settled
<1> QED
  BY <1>1, <1>2, <1>3, <1>4, <1>5, <1>6, <1>7 DEF Next

-----------------------------------------------------------------------------
LEMMA Invariance == Spec => []IInv
<1>1. Init => IInv
  BY InitIInv
<1>2. IInv /\ [Next]_vars => IInv'
  BY StepIInv
<1> QED
  BY <1>1, <1>2, PTL DEF Spec

\* The state of the alert monitoring is well typed, for every set of alerts; the
\* counter of the rate limit never passes max_notifications_per_minute.
THEOREM AlertTypes == Spec => []TypeOK
<1>1. IInv => TypeOK
  BY DEF IInv
<1> QED
  BY <1>1, Invariance, PTL

\* However alerts group, a call sends each alert it lets through in one message.
THEOREM AlertsAreRoutedOnce == Spec => []EveryAlertIsRoutedOnce
<1>1. IInv => EveryAlertIsRoutedOnce
  BY DEF IInv
<1> QED
  BY <1>1, Invariance, PTL

\* Messages on one alert keep the repeat interval, whatever the store has forgotten
\* in between, for all intervals: the cleanup interval does not matter.
THEOREM NoticesAreSpaced == Spec => RepeatsAreSpaced
<1> DEFINE Spaced == \A a \in Alerts :
                        told'[a] # told[a] /\ told[a] # None /\ told'[a] # None =>
                            told'[a] - told[a] >= RepeatInterval
<1>1. IInv /\ [Next]_vars => [Spaced]_vars
  <2> SUFFICES ASSUME IInv, [Next]_vars, NEW a \in Alerts,
                      told'[a] # told[a], told[a] # None, told'[a] # None
               PROVE  told'[a] - told[a] >= RepeatInterval
    OBVIOUS
  <2>1. told' # told
    OBVIOUS
  <2>2. PICK m \in messages, kakao \in BOOLEAN, eventbridge \in BOOLEAN :
           Send(m, kakao, eventbridge)
    <3>1. CASE Restart
      BY <3>1 DEF Restart
    <3> QED
      BY <2>1, <3>1 DEF Next, Tick, Fetch, Check, Filter, vars, process
  <2>3. a \in m /\ told'[a] = to_notify[a]
    BY <2>2 DEF Send
  <2>4. m \subseteq DOMAIN to_notify
    BY <2>2 DEF Send, IInv, EveryAlertIsRoutedOnce
  <2>5. told[a] + RepeatInterval <= to_notify[a]
    BY <2>3, <2>4 DEF IInv, OwedInv
  <2>6. told[a] \in Nat /\ to_notify[a] \in Nat /\ RepeatInterval \in Nat
    BY <2>3, <2>4, AlertAssumption DEF IInv, TypeOK, IsPartial
  <2> QED
    BY <2>3, <2>5, <2>6
<1> QED
  BY <1>1, Invariance, PTL DEF Spec, RepeatsAreSpaced

-----------------------------------------------------------------------------
LEMMA PromptStep ==
    TypeOK /\ FirstNoticeIsPrompt /\ [Next]_vars => FirstNoticeIsPrompt'
<1> SUFFICES ASSUME TypeOK, FirstNoticeIsPrompt, [Next]_vars PROVE FirstNoticeIsPrompt'
  OBVIOUS
<1>1. ASSUME NEW a \in Alerts, NEW start \in 0 .. now, Check(a, start)
      PROVE  FirstNoticeIsPrompt'
  <2>0. CheckAndUpdate(a, start) /\ now \in Nat /\ GroupWait \in Nat /\ None \notin Nat
    BY <1>1, AlertAssumption DEF Check, TypeOK
  <2> SUFFICES ASSUME NEW b \in DOMAIN store', store'[b].last_notified = None
               PROVE  store'[b].last_seen - store'[b].first_seen < GroupWait
    BY DEF FirstNoticeIsPrompt
  <2>1. CASE b # a
    <3>1. b \in DOMAIN store /\ store'[b] = store[b]
      BY <2>0, <2>1, CheckFacts, KeptFacts
    <3> QED
      BY <3>1 DEF FirstNoticeIsPrompt
  <2>2. CASE b = a
    <3>1. /\ store'[a].last_seen = now
          /\ store'[a].first_seen = Seen(a, start).first_seen
          /\ store'[a].last_notified = IF ShouldNotify(Seen(a, start)) THEN now
                                         ELSE Seen(a, start).last_notified
      BY <2>0, CheckFacts
    <3>2. ~ShouldNotify(Seen(a, start)) /\ Seen(a, start).last_notified = None
      BY <2>0, <2>2, <3>1
    <3>3. Seen(a, start).first_seen \in Nat
      BY SeenFacts DEF Entries
    <3>4. ~(now - Seen(a, start).first_seen >= GroupWait)
      BY <3>2 DEF ShouldNotify
    <3> QED
      BY <2>0, <2>2, <3>1, <3>3, <3>4
  <2> QED
    BY <2>1, <2>2
<1>2. ASSUME store' = store PROVE FirstNoticeIsPrompt'
  BY <1>2 DEF FirstNoticeIsPrompt
<1>3. CASE Restart
  BY <1>3 DEF Restart, FirstNoticeIsPrompt, Nothing
<1> QED
  BY <1>1, <1>2, <1>3 DEF Next, Tick, Fetch, Filter, Send, vars, process

\* The first check after the wait lets an alert through, for any wait.
THEOREM FirstNotices == Spec => []FirstNoticeIsPrompt
<1>1. Init => FirstNoticeIsPrompt
  BY DEF Init, FirstNoticeIsPrompt, Nothing
<1> QED
  BY <1>1, PromptStep, AlertTypes, PTL DEF Spec

-----------------------------------------------------------------------------
\* No entry was last seen more than two repeat intervals before the last cleanup.
CleanInv ==
    /\ last_cleanup <= now
    /\ \A a \in DOMAIN store : store[a].last_seen >= last_cleanup - 2 * RepeatInterval

\* A check keeps that, and leaves only entries that are recent enough.
LEMMA CheckCleans ==
    ASSUME TypeOK, CleanInv, NEW a \in Alerts, NEW start \in 0 .. now, Check(a, start)
    PROVE  /\ CleanInv'
           /\ \A b \in DOMAIN store' :
                 store'[b].last_seen >= now - 2 * RepeatInterval - CleanupInterval
<1>1. /\ CheckAndUpdate(a, start) /\ now' = now
      /\ last_cleanup' = IF CleanupIsDue THEN now ELSE last_cleanup
      /\ now \in Nat /\ last_cleanup \in Nat /\ last_cleanup <= now
      /\ RepeatInterval \in Nat /\ CleanupInterval \in Nat
  BY AlertAssumption DEF Check, TypeOK, CleanInv
<1>2. \A b \in DOMAIN Kept :
         /\ b \in DOMAIN store /\ store[b].last_seen \in Nat
         /\ store[b].last_seen >= last_cleanup - 2 * RepeatInterval
  BY KeptFacts DEF TypeOK, IsPartial, Entries, CleanInv
<1>3. ASSUME CleanupIsDue, NEW b \in DOMAIN Kept
      PROVE  store[b].last_seen >= now - 2 * RepeatInterval
  <2>1. b \in DOMAIN store /\ b \notin Stale
    BY <1>3 DEF Kept, Drop, Restrict
  <2>2. ~(store[b].last_seen < now - RepeatInterval * 2)
    BY <2>1 DEF Stale
  <2> QED
    BY <1>1, <1>2, <1>3, <2>2
<1>4. ~CleanupIsDue => last_cleanup > now - CleanupInterval
  BY <1>1 DEF CleanupIsDue
<1>5. ASSUME NEW b \in DOMAIN store'
      PROVE  /\ store'[b].last_seen >= last_cleanup' - 2 * RepeatInterval
             /\ store'[b].last_seen >= now - 2 * RepeatInterval - CleanupInterval
  <2>1. CASE b = a
    <3>1. store'[b].last_seen = now
      BY <1>1, <2>1, CheckFacts
    <3> QED
      BY <1>1, <3>1
  <2>2. CASE b # a
    <3>1. b \in DOMAIN Kept /\ store'[b] = store[b]
      BY <1>1, <2>2, CheckFacts
    <3> QED
      BY <1>1, <1>2, <1>3, <1>4, <3>1
  <2> QED
    BY <2>1, <2>2
<1> QED
  BY <1>1, <1>5 DEF CleanInv

LEMMA CleanStep == TypeOK /\ CleanInv /\ [Next]_vars => CleanInv'
<1> SUFFICES ASSUME TypeOK, CleanInv, [Next]_vars PROVE CleanInv'
  OBVIOUS
<1>1. CASE Tick
  BY <1>1 DEF Tick, process, TypeOK, CleanInv
<1>2. ASSUME NEW a \in Alerts, NEW start \in 0 .. now, Check(a, start) PROVE CleanInv'
  BY <1>2, CheckCleans
<1>3. ASSUME store' = store, now' = now, last_cleanup' = last_cleanup PROVE CleanInv'
  BY <1>3 DEF CleanInv
<1>4. CASE Restart
  BY <1>4 DEF Restart, CleanInv, Nothing, TypeOK
<1> QED
  BY <1>1, <1>2, <1>3, <1>4 DEF Next, Fetch, Filter, Send, vars, process

\* The store holds nothing that was last seen longer ago than two repeat intervals
\* and one between cleanups, for all intervals.
THEOREM StoreIsBounded == Spec => StoreForgets
<1> DEFINE Forgets == store' # store =>
                         \A a \in DOMAIN store' :
                            store'[a].last_seen
                               >= now - 2 * RepeatInterval - CleanupInterval
<1>1. Init => CleanInv
  BY DEF Init, CleanInv, Nothing
<1>2. TypeOK /\ CleanInv /\ [Next]_vars => [Forgets]_vars
  <2> SUFFICES ASSUME TypeOK, CleanInv, [Next]_vars, store' # store PROVE Forgets
    OBVIOUS
  <2>1. CASE Restart
    BY <2>1 DEF Restart, Nothing
  <2>2. CASE \E a \in Alerts, start \in 0 .. now : Check(a, start)
    BY <2>2, CheckCleans
  <2> QED
    BY <2>1, <2>2 DEF Next, Tick, Fetch, Filter, Send, vars, process
<1> QED
  BY <1>1, <1>2, CleanStep, AlertTypes, PTL DEF Spec, StoreForgets

-----------------------------------------------------------------------------
(* The rate limit.                                                         *)

\* The decisions since the counter was reset, and those before.
InWindow(R, reset) == {r \in R : r[1] >= reset}
Before(R, reset) == {r \in R : r[1] < reset}

\* The counter is at least the number of the recent decisions of its window;
\* those of the window before are no more than the limit.  Decisions of a
\* window are made before its end, and only those of the last minute count.
RateInv ==
    /\ last_reset <= now
    /\ IsFiniteSet(recent)
    /\ \A r \in recent : /\ r[1] <= now /\ r[1] > now - RateWindow
                         /\ r[1] < last_reset + RateWindow
    /\ Cardinality(InWindow(recent, last_reset)) <= count
    /\ Cardinality(Before(recent, last_reset)) <= MaxPerMinute

\* No more decisions than the two windows have.
LEMMA RateBound == TypeOK /\ RateInv => RateBounded
<1> SUFFICES ASSUME TypeOK, RateInv PROVE RateBounded
  OBVIOUS
<1> DEFINE A == InWindow(recent, last_reset)
           B == Before(recent, last_reset)
<1>1. recent = A \cup B /\ A \cap B = {} /\ A \subseteq recent /\ B \subseteq recent
  BY DEF InWindow, Before, TypeOK
<1>2. IsFiniteSet(A) /\ IsFiniteSet(B)
  BY <1>1, FS_Subset DEF RateInv
<1>3. Cardinality(A \cup B) = Cardinality(A) + Cardinality(B) - Cardinality(A \cap B)
  BY <1>2, FS_Union
<1>4. /\ Cardinality(A) \in Nat /\ Cardinality(B) \in Nat
      /\ Cardinality(A \cap B) = 0
  BY <1>1, <1>2, FS_CardinalityType, FS_EmptySet
<1>5. /\ Cardinality(A) <= MaxPerMinute /\ Cardinality(B) <= MaxPerMinute
      /\ MaxPerMinute \in Nat
  BY <1>4, AlertAssumption DEF RateInv, TypeOK
<1> HIDE DEF A, B
<1>6. Cardinality(recent) = Cardinality(A) + Cardinality(B)
  BY <1>1, <1>3, <1>4
<1> QED
  BY <1>4, <1>5, <1>6 DEF RateBounded

\* With fewer decisions, or none, and the same counter, nothing is exceeded.
LEMMA FewerDecisions ==
    ASSUME TypeOK, RateInv, recent' \subseteq recent, last_reset' = last_reset,
           count' = count, now' \in Nat, now' >= now,
           \A r \in recent' : r[1] > now' - RateWindow
    PROVE  RateInv'
<1>1. /\ InWindow(recent', last_reset') \subseteq InWindow(recent, last_reset)
      /\ Before(recent', last_reset') \subseteq Before(recent, last_reset)
  BY DEF InWindow, Before
<1>2. /\ IsFiniteSet(InWindow(recent, last_reset))
      /\ IsFiniteSet(Before(recent, last_reset))
      /\ IsFiniteSet(recent')
  BY FS_Subset DEF InWindow, Before, RateInv
<1>3. /\ Cardinality(InWindow(recent', last_reset'))
           <= Cardinality(InWindow(recent, last_reset))
      /\ Cardinality(Before(recent', last_reset'))
           <= Cardinality(Before(recent, last_reset))
  BY <1>1, <1>2, FS_Subset
<1>4. /\ Cardinality(InWindow(recent, last_reset)) \in Nat
      /\ Cardinality(Before(recent, last_reset)) \in Nat
      /\ Cardinality(InWindow(recent', last_reset')) \in Nat
      /\ Cardinality(Before(recent', last_reset')) \in Nat
  BY <1>1, <1>2, FS_Subset, FS_CardinalityType
<1>5. /\ Cardinality(InWindow(recent', last_reset')) <= count'
      /\ Cardinality(Before(recent', last_reset')) <= MaxPerMinute
  BY <1>3, <1>4, AlertAssumption DEF RateInv, TypeOK
<1>6. \A r \in recent' : /\ r[1] <= now' /\ r[1] > now' - RateWindow
                         /\ r[1] < last_reset' + RateWindow
  BY AlertAssumption DEF RateInv, TypeOK
<1> QED
  BY <1>2, <1>5, <1>6 DEF RateInv, TypeOK

\* A decision that the rate limit lets through.
LEMMA CheckCounts ==
    ASSUME TypeOK, RateInv, NEW a \in Alerts, NEW start \in 0 .. now,
           Check(a, start), CheckNotify(a, start)
    PROVE  RateInv'
<1>1. /\ now' = now /\ now \in Nat /\ last_reset \in Nat /\ count \in Nat
      /\ RateWindow \in Nat \ {0} /\ MaxPerMinute \in Nat /\ count <= MaxPerMinute
      /\ recent \subseteq Nat \X Alerts
  BY AlertAssumption DEF Check, TypeOK
<1>2. \A R : \A t : /\ InWindow(R, t) \subseteq R /\ Before(R, t) \subseteq R
  BY DEF InWindow, Before
<1>3. /\ IsFiniteSet(InWindow(recent, last_reset'))
      /\ IsFiniteSet(Before(recent, last_reset'))
  BY <1>2, FS_Subset DEF RateInv
<1>4. /\ last_reset' \in Nat /\ last_reset' <= now
      /\ now < last_reset' + RateWindow
      /\ Cardinality(InWindow(recent, last_reset')) <= CountNow
      /\ Cardinality(Before(recent, last_reset')) <= MaxPerMinute
      /\ \A r \in recent : r[1] < last_reset' + RateWindow
      /\ CountNow \in 0 .. MaxPerMinute
  <2>1. CASE now - last_reset >= RateWindow
    <3>1. last_reset' = now /\ CountNow = 0
      BY <2>1 DEF CheckNotify, CountNow
    <3>2. \A r \in recent : r[1] \in Nat /\ r[1] < now /\ r[1] >= last_reset
      BY <1>1, <2>1 DEF RateInv
    <3>3. InWindow(recent, now) = {} /\ Before(recent, now) = InWindow(recent, last_reset)
      BY <1>1, <3>2 DEF InWindow, Before
    <3>4. /\ Cardinality(InWindow(recent, now)) = 0
          /\ Cardinality(Before(recent, now)) <= count
      BY <3>3, FS_EmptySet DEF RateInv
    <3>5. Cardinality(Before(recent, now)) \in Nat
      BY <1>3, <3>1, FS_CardinalityType
    <3> QED
      BY <1>1, <3>1, <3>2, <3>4, <3>5
  <2>2. CASE ~(now - last_reset >= RateWindow)
    <3>1. last_reset' = last_reset /\ CountNow = count
      BY <2>2 DEF CheckNotify, CountNow
    <3> QED
      BY <1>1, <2>2, <3>1 DEF RateInv
  <2> QED
    BY <2>1, <2>2
<1>5. CASE RateAllows
  <2>1. count' = CountNow + 1 /\ recent' = recent \cup {<<now, a>>}
    BY <1>5 DEF CheckNotify
  <2>2. /\ InWindow(recent', last_reset')
             = InWindow(recent, last_reset') \cup {<<now, a>>}
        /\ Before(recent', last_reset') = Before(recent, last_reset')
    BY <1>1, <1>4, <2>1 DEF InWindow, Before
  <2>3. /\ IsFiniteSet(recent')
        /\ Cardinality(InWindow(recent', last_reset'))
             <= Cardinality(InWindow(recent, last_reset')) + 1
        /\ Cardinality(InWindow(recent, last_reset')) \in Nat
        /\ Cardinality(InWindow(recent', last_reset')) \in Nat
    <3>1. IsFiniteSet(recent')
      BY <2>1, FS_AddElement DEF RateInv
    <3> DEFINE W == InWindow(recent, last_reset')
    <3>2. IsFiniteSet(W) /\ Cardinality(W) \in Nat
      BY <1>3, FS_CardinalityType
    <3> HIDE DEF W
    <3>3. /\ IsFiniteSet(W \cup {<<now, a>>})
          /\ Cardinality(W \cup {<<now, a>>}) \in
               {Cardinality(W), Cardinality(W) + 1}
      BY <3>2, FS_AddElement
    <3>4. InWindow(recent', last_reset') = W \cup {<<now, a>>}
      BY <2>2 DEF W
    <3> QED
      BY <3>1, <3>2, <3>3, <3>4 DEF W
  <2>4. ASSUME NEW r \in recent'
        PROVE  /\ r[1] <= now /\ r[1] > now - RateWindow
               /\ r[1] < last_reset' + RateWindow
    <3>1. CASE r \in recent
      BY <1>4, <3>1 DEF RateInv
    <3>2. CASE r = <<now, a>>
      <4>1. r[1] = now /\ now > now - RateWindow
        BY <1>1, <3>2
      <4>2. now < last_reset' + RateWindow
        BY <1>4
      <4>3. now \in Nat
        BY <1>1
      <4> QED
        BY <4>1, <4>2, <4>3
    <3> QED
      BY <2>1, <3>1, <3>2
  <2> QED
    BY <1>1, <1>4, <2>1, <2>2, <2>3, <2>4 DEF RateInv
<1>6. CASE ~RateAllows
  <2>1. count' = CountNow /\ recent' = recent
    BY <1>6 DEF CheckNotify
  <2> QED
    BY <1>1, <1>4, <2>1 DEF RateInv
<1> QED
  BY <1>5, <1>6

LEMMA RateStep == TypeOK /\ RateInv /\ [Next]_vars => RateInv'
<1> SUFFICES ASSUME TypeOK, RateInv, [Next]_vars PROVE RateInv'
  OBVIOUS
<1>1. CASE Tick
  <2>1. /\ recent' = {r \in recent : r[1] > now' - RateWindow}
        /\ now' = now + 1 /\ last_reset' = last_reset /\ count' = count
    BY <1>1 DEF Tick, process
  <2> QED
    BY <2>1, FewerDecisions DEF TypeOK
<1>2. ASSUME NEW a \in Alerts, NEW start \in 0 .. now, Check(a, start)
      PROVE  RateInv'
  <2>1. CASE CheckQuiet(a, start)
    <3>1. UNCHANGED <<now, count, last_reset, recent>>
      BY <1>2, <2>1 DEF Check, CheckQuiet
    <3> QED
      BY <3>1 DEF RateInv
  <2>2. CASE CheckNotify(a, start)
    BY <1>2, <2>2, CheckCounts
  <2> QED
    BY <1>2, <2>1, <2>2 DEF Check
<1>3. ASSUME UNCHANGED <<now, count, last_reset, recent>> PROVE RateInv'
  BY <1>3 DEF RateInv
<1>4. CASE Restart
  <2>1. /\ recent' = {} /\ last_reset' = now /\ now' = now /\ count' = 0
    BY <1>4 DEF Restart
  <2>2. InWindow({}, now) = {} /\ Before({}, now) = {}
    BY DEF InWindow, Before
  <2>3. /\ IsFiniteSet(recent')
        /\ Cardinality(InWindow(recent', last_reset')) = 0
        /\ Cardinality(Before(recent', last_reset')) = 0
    <3>1. IsFiniteSet({}) /\ Cardinality({}) = 0
      BY FS_EmptySet
    <3> QED
      BY <2>1, <2>2, <3>1
  <2>4. last_reset' <= now'
    <3>1. now \in Nat
      BY DEF TypeOK
    <3> QED
      BY <2>1, <3>1
  <2> QED
    <3>1. \A r \in recent' : FALSE
      BY <2>1
    <3>2. count' = 0 /\ MaxPerMinute \in Nat
      BY <2>1, AlertAssumption
    <3> QED
      BY <2>3, <2>4, <3>1, <3>2 DEF RateInv
<1>5. CASE UNCHANGED vars
  BY <1>3, <1>5 DEF vars, process
<1>6. ASSUME NEW firing, Fetch(firing) PROVE RateInv'
  BY <1>3, <1>6 DEF Fetch
<1>7. ASSUME NEW min, NEW group_alerts, Filter(min, group_alerts) PROVE RateInv'
  BY <1>3, <1>7 DEF Filter
<1>8. ASSUME NEW m, NEW kakao, NEW eventbridge, Send(m, kakao, eventbridge)
      PROVE  RateInv'
  BY <1>3, <1>8 DEF Send
<1> QED
  BY <1>1, <1>2, <1>4, <1>5, <1>6, <1>7, <1>8 DEF Next

\* Within a minute no more than twice the limit is let through, for any limit
\* and any minute: the counter's windows may share it, but no three of them do.
THEOREM RateIsBounded == Spec => []RateBounded
<1>1. Init => RateInv
  <2> SUFFICES ASSUME Init PROVE RateInv
    OBVIOUS
  <2>1. recent = {} /\ last_reset = 0 /\ now = 0 /\ count = 0
    BY DEF Init
  <2>2. InWindow({}, 0) = {} /\ Before({}, 0) = {}
    BY DEF InWindow, Before
  <2> QED
    BY <2>1, <2>2, FS_EmptySet, AlertAssumption DEF RateInv
<1> QED
  BY <1>1, RateStep, RateBound, AlertTypes, PTL DEF Spec

=============================================================================
