---------------------------- MODULE AlertMonitoring ----------------------------
(***************************************************************************)
(* The HDSP alert monitoring agent (agents/hdsp_monitoring): each call     *)
(* fetches the firing alerts from the Alertmanager, lets through those     *)
(* that the deduplication store and the rate limit allow, filters them by  *)
(* severity and sends them.  Calls run one after another in one process;   *)
(* the store and the counter are in its memory.                            *)
(*                                                                         *)
(* Time is discrete, and passes between any two steps of a call.  Alerts   *)
(* of namespaces that are excluded are not among Alerts.                   *)
(***************************************************************************)
EXTENDS Integers, FiniteSets, Functions

CONSTANTS Alerts,            \* fingerprints of alerts
          Severity,          \* _severity_order: 1 medium, 2 high, 3 critical
          GroupKey,          \* namespace and name, by which alerts are grouped
          KakaoEnabled,      \* kakao_enabled
          EventBridgeEnabled,\* eventbridge_enabled
          None,              \* never
          GroupWait,         \* how long a new alert waits
          RateWindow,        \* the minute of the rate limit
          MaxPerMinute,      \* max_notifications_per_minute
          RepeatInterval,    \* repeat_interval_seconds
          CleanupInterval    \* cleanup_interval_seconds

ASSUME AlertAssumption ==
    /\ Severity \in [Alerts -> 1 .. 3]
    /\ KakaoEnabled \in BOOLEAN /\ EventBridgeEnabled \in BOOLEAN
    /\ None \notin Nat
    /\ GroupWait \in Nat /\ RateWindow \in Nat \ {0} /\ MaxPerMinute \in Nat
    /\ RepeatInterval \in Nat \ {0} /\ CleanupInterval \in Nat

VARIABLES now,            \* utcnow
          store,          \* the deduplication entries
          last_cleanup,   \* _last_cleanup
          count,          \* _notification_count
          last_reset,     \* _last_rate_limit_reset
          pc,             \* where the call in progress is
          batch,          \* the fetched alerts it has not checked yet
          to_notify,      \* alerts to send, with the time this was decided
          messages,       \* the sets of alerts that are still to be sent
          told,           \* the decision that the last message on an alert carried
          recent          \* the decisions let through in the last minute

process == <<store, last_cleanup, count, last_reset, pc, batch,
             to_notify, messages>>
vars == <<now, process, told, recent>>

Entries == [first_seen : Nat, last_seen : Nat, last_notified : Nat \cup {None}]
IsPartial(f, S) == DOMAIN f \subseteq Alerts /\ \A a \in DOMAIN f : f[a] \in S
Nothing == [a \in {} |-> None]

TypeOK ==
    /\ now \in Nat
    /\ IsPartial(store, Entries)
    /\ last_cleanup \in Nat /\ last_reset \in Nat
    /\ count \in 0 .. MaxPerMinute
    /\ pc \in {"idle", "checking", "routing"}
    /\ batch \subseteq Alerts /\ (pc # "checking" => batch = {})
    /\ IsPartial(to_notify, Nat) /\ (pc = "idle" => to_notify = Nothing)
    /\ messages \subseteq SUBSET Alerts
    /\ told \in [Alerts -> Nat \cup {None}]
    /\ recent \subseteq Nat \X Alerts

Init ==
    /\ now = 0
    /\ store = Nothing
    /\ last_cleanup = 0
    /\ count = 0
    /\ last_reset = 0
    /\ pc = "idle"
    /\ batch = {}
    /\ to_notify = Nothing
    /\ messages = {}
    /\ told = [a \in Alerts |-> None]
    /\ recent = {}

-----------------------------------------------------------------------------
(* One call.                                                               *)

Put(f, a, v) == [b \in DOMAIN f \cup {a} |-> IF b = a THEN v ELSE f[b]]
Drop(f, S) == Restrict(f, DOMAIN f \ S)

\* Time passes, also within a call.
Tick ==
    /\ now' = now + 1
    /\ recent' = {r \in recent : r[1] > now' - RateWindow}
    /\ UNCHANGED <<process, told>>

\* fetch_firing_alerts: the alerts that fire, without those that cannot be parsed;
\* none when the request fails.
Fetch(firing) ==
    /\ pc = "idle"
    /\ batch' = firing
    /\ pc' = "checking"
    /\ UNCHANGED <<now, store, last_cleanup, count, last_reset, to_notify, messages,
                   told, recent>>

\* Mutant: what was first seen long ago is stale.
StaleByAge == {a \in DOMAIN store : store[a].first_seen < now - RepeatInterval * 2}

\* Mutant: what has not been notified for long is stale.
StaleByNotice ==
    {a \in DOMAIN store : /\ store[a].last_notified # None
                          /\ store[a].last_notified < now - RepeatInterval * 2}

\* The entries _cleanup removes.
Stale == {a \in DOMAIN store : store[a].last_seen < now - RepeatInterval * 2}

CleanupIsDue == now - last_cleanup >= CleanupInterval

\* The entries after _maybe_cleanup.
Kept == IF CleanupIsDue THEN Drop(store, Stale) ELSE store

\* The entry of a as it has just been seen; the alert says when it started.
Seen(a, start) ==
    IF a \in DOMAIN Kept
      THEN [Kept[a] EXCEPT !.last_seen = now]
      ELSE [first_seen |-> start, last_seen |-> now, last_notified |-> None]

\* Mutant: the first wait is one too long.
ShouldNotifyLater(e) ==
    IF e.last_notified = None
      THEN now - e.first_seen > GroupWait
      ELSE now - e.last_notified >= RepeatInterval

\* should_notify
ShouldNotify(e) ==
    IF e.last_notified = None
      THEN now - e.first_seen >= GroupWait
      ELSE now - e.last_notified >= RepeatInterval

\* check_and_update; an entry is marked as notified at once.
CheckAndUpdate(a, start) ==
    LET e == Seen(a, start)
    IN  store' = Put(Kept, a, IF ShouldNotify(e)
                                THEN [e EXCEPT !.last_notified = now] ELSE e)

\* Mutant: the counter is reset whenever the clock has moved.
CountResetOften == IF now # last_reset THEN 0 ELSE count

\* _notification_count after the reset that is due every minute.
CountNow == IF now - last_reset >= RateWindow THEN 0 ELSE count

RateAllows == CountNow < MaxPerMinute

\* An alert that is no news, or waits.
CheckQuiet(a, start) ==
    /\ ~ShouldNotify(Seen(a, start))
    /\ UNCHANGED <<count, last_reset, to_notify, recent>>

\* _check_rate_limit lets an alert through, or drops it though it has been marked.
CheckNotify(a, start) ==
    /\ ShouldNotify(Seen(a, start))
    /\ last_reset' = IF now - last_reset >= RateWindow THEN now ELSE last_reset
    /\ IF RateAllows
         THEN /\ count' = CountNow + 1
              /\ to_notify' = Put(to_notify, a, now)
              /\ recent' = recent \cup {<<now, a>>}
         ELSE /\ count' = CountNow
              /\ UNCHANGED <<to_notify, recent>>

\* _check_rate_limit is asked only for an alert that passes the store.
Check(a, start) ==
    /\ pc = "checking"
    /\ a \in batch
    /\ CheckAndUpdate(a, start)
    /\ last_cleanup' = IF CleanupIsDue THEN now ELSE last_cleanup
    /\ CheckQuiet(a, start) \/ CheckNotify(a, start)
    /\ batch' = batch \ {a}
    /\ UNCHANGED <<now, pc, messages, told>>

\* group_alerts: a group is urgent if one of its alerts is.
Urgent(A) == \E a \in A : Severity[a] >= 2
GroupOf(a, A) == {b \in A : GroupKey[b] = GroupKey[a]}

\* Mutant: the common message takes every alert that is not urgent itself.
GroupMessagesTwice(A) ==
    {g \in {GroupOf(a, A) : a \in A} : Urgent(g)} \cup {{a \in A : Severity[a] = 1}}

\* route_alert_groups: a message for each urgent group, and one for all others.
GroupMessages(A) ==
    LET urgent == {g \in {GroupOf(a, A) : a \in A} : Urgent(g)}
    IN  urgent \cup {A \ UNION urgent}

\* route_alerts: a message for the urgent alerts and one for the others.
AlertMessages(A) == {{a \in A : Severity[a] >= 2}, {a \in A : Severity[a] = 1}}

\* filter_by_severity and the split into messages.  None: the caller wants nothing
\* published, or names a severity there is not, which ends the call with an error.
Filter(min, group_alerts) ==
    LET A == {a \in DOMAIN to_notify : min # None /\ Severity[a] >= min}
    IN  /\ pc = "checking"
        /\ batch = {}
        /\ to_notify' = Restrict(to_notify, A)
        /\ messages' = (IF group_alerts THEN GroupMessages(A) ELSE AlertMessages(A)) \ {{}}
        /\ pc' = IF A = {} THEN "idle" ELSE "routing"
        /\ UNCHANGED <<now, store, last_cleanup, count, last_reset, batch,
                       told, recent>>

\* A message is sent, the urgent ones first: these to KakaoTalk, and to EventBridge
\* if that fails or is off; the other to EventBridge.  What fails is not tried again.
Send(m, kakao, eventbridge) ==
    /\ pc = "routing"
    /\ m \in messages
    /\ Urgent(m) \/ \A n \in messages : ~Urgent(n)
    /\ messages' = messages \ {m}
    /\ to_notify' = Drop(to_notify, m)
    /\ told' = IF \/ Urgent(m) /\ KakaoEnabled /\ kakao
                  \/ EventBridgeEnabled /\ eventbridge
                 THEN [a \in Alerts |-> IF a \in m THEN to_notify[a] ELSE told[a]]
                 ELSE told
    /\ pc' = IF messages' = {} THEN "idle" ELSE "routing"
    /\ UNCHANGED <<now, store, last_cleanup, count, last_reset, batch, recent>>

\* The process is replaced.  Nothing is persisted, so what it owes and what it has
\* told are forgotten.
Restart ==
    /\ store' = Nothing
    /\ last_cleanup' = now
    /\ count' = 0
    /\ last_reset' = now
    /\ pc' = "idle"
    /\ batch' = {}
    /\ to_notify' = Nothing
    /\ messages' = {}
    /\ told' = [a \in Alerts |-> None]
    /\ recent' = {}
    /\ UNCHANGED now

-----------------------------------------------------------------------------
Next ==
    \/ Tick
    \/ \E firing \in SUBSET Alerts : Fetch(firing)
    \/ \E a \in Alerts, start \in 0 .. now : Check(a, start)
    \/ \E min \in 1 .. 3 \cup {None}, group_alerts \in BOOLEAN : Filter(min, group_alerts)
    \/ \E m \in messages, kakao \in BOOLEAN, eventbridge \in BOOLEAN :
          Send(m, kakao, eventbridge)
    \/ Restart

Spec == Init /\ [][Next]_vars

-----------------------------------------------------------------------------
\* Two messages on the same alert carry decisions at least the repeat interval
\* apart, as long as the process lives.  The store forgets stale entries, also of
\* alerts that are still to be sent, and a call may be slow or fail to send: none
\* of it shortens the interval.
RepeatsAreSpaced ==
    [][\A a \in Alerts :
          told'[a] # told[a] /\ told[a] # None /\ told'[a] # None =>
              told'[a] - told[a] >= RepeatInterval]_vars

\* The rate limit counts in windows that follow each other, so that a burst at the
\* end of one and at the start of the next can double it; nothing exceeds that.
RateBounded == Cardinality(recent) <= 2 * MaxPerMinute

\* The memory of the store is bounded in time: when a check has changed it, no
\* entry has been idle for longer than two repeat intervals and the interval
\* between two cleanups, though entries are removed only then.
StoreForgets ==
    [][store' # store =>
          \A a \in DOMAIN store' :
              store'[a].last_seen >= now - 2 * RepeatInterval - CleanupInterval]_vars

\* An entry that waits for its first notice has been seen only within the wait for
\* grouping: the first check after that lets it through, however often it was seen
\* and whenever the store forgot it.
FirstNoticeIsPrompt ==
    \A a \in DOMAIN store :
        store[a].last_notified = None =>
            store[a].last_seen - store[a].first_seen < GroupWait

\* The messages of a call share out the alerts it lets through, each to one of them,
\* though a group of mixed severities belongs to neither rule of the router alone.
EveryAlertIsRoutedOnce ==
    pc = "routing" =>
        /\ UNION messages = DOMAIN to_notify
        /\ \A m, n \in messages : m # n => m \cap n = {}

=============================================================================
