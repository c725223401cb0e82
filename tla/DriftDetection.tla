---------------------------- MODULE DriftDetection ----------------------------
(***************************************************************************)
(* A detection of the drift agent: DriftDetector (drift_detector.py) and   *)
(* BDPDriftHandler.process (agents/bdp_drift/handler.py).  A run lists the *)
(* baselines, reads each one again, fetches the resource's configuration,  *)
(* compares the two, and raises what it has found.  Meanwhile the API      *)
(* changes baselines and the resources change.                             *)
(*                                                                         *)
(* A configuration maps keys to values.  A value is a scalar, a list of    *)
(* scalars, a list of records, or a dict; the dicts inside a dict are left *)
(* out (the comparison treats every level alike).                          *)
(***************************************************************************)
EXTENDS Naturals, Sequences

CONSTANTS
  Resources,  \* the resources that have, have had, or will have a baseline
  Keys,       \* the keys of the configurations
  Ignored,    \* IGNORE_FIELDS: times and checksums
  Severity,   \* get_field_severity: from each key to its severity
  Configs,    \* the configurations that resources and baselines may have
  None        \* no baseline, no resource

Severities == {"critical", "high", "medium", "low"}

IsDict(v) == v.kind = "dict"
IsList(v) == v.kind \in {"list", "records"}

\* What a value is: its kind, and what it holds.
IsValue(v) ==
  /\ v = [kind |-> v.kind, data |-> v.data]
  /\ v.kind \in {"scalar", "list", "records", "dict"}

IsConfig(c) ==
  /\ DOMAIN c \subseteq Keys
  /\ \A k \in DOMAIN c :
       /\ IsValue(c[k])
       /\ IsDict(c[k]) =>
            /\ DOMAIN c[k].data \subseteq Keys
            /\ \A l \in DOMAIN c[k].data :
                 IsValue(c[k].data[l]) /\ ~IsDict(c[k].data[l])

ASSUME DriftAssumption ==
  /\ Ignored \subseteq Keys
  /\ Severity \in [Keys -> Severities]
  /\ \A c \in Configs : IsConfig(c)
  /\ None \notin Configs

VARIABLES
  baselines,  \* the resources that have a baseline
  step,       \* where the run is
  todo,       \* the resources the run has still to detect
  reading,    \* the resource that is fetched next, and its baseline as read
  results,    \* the DriftResults so far
  alert,      \* what the alert of the run says
  compared,   \* the two configurations behind each result
  stable      \* what was asked for and has had a baseline ever since

vars == <<baselines, step, todo, reading, results, alert, compared, stable>>
found == <<results, compared>>

-----------------------------------------------------------------------------
(* The comparison of two configurations.                                   *)

Elements(l) == {l[i] : i \in DOMAIN l}

\* Lists of the same length are compared as sets; records have no hash, so
\* lists of them are compared in order.
ListDiffers(x, y) ==
  \/ Len(x.data) # Len(y.data)
  \/ IF x.kind = "list" /\ y.kind = "list"
     THEN Elements(x.data) # Elements(y.data)
     ELSE x # y

Differs(x, y) ==
  IF IsList(x) /\ IsList(y) THEN ListDiffers(x, y) ELSE x # y

Field(path, category) ==
  [path |-> path, category |-> category, severity |-> Severity[path[Len(path)]]]

\* What differs at the keys of two dicts that stand under a path, but for
\* the keys under which both of them have a dict.
FieldsAt(path, b, c) ==
  LET keys == (DOMAIN b \cup DOMAIN c) \ Ignored
      both == DOMAIN b \cap DOMAIN c
  IN  {Field(Append(path, k), "discovered") : k \in keys \ both}
        \cup
      {Field(Append(path, k), "monitored") :
         k \in {k \in keys \cap both :
                  ~(IsDict(b[k]) /\ IsDict(c[k])) /\ Differs(b[k], c[k])}}

NestedKeys(b, c) ==
  {k \in (DOMAIN b \cap DOMAIN c) \ Ignored : IsDict(b[k]) /\ IsDict(c[k])}

CompareConfigs(b, c) ==
  FieldsAt(<<>>, b, c)
    \cup UNION {FieldsAt(<<k>>, b[k].data, c[k].data) : k \in NestedKeys(b, c)}

\* The first of the severities, in this order, that a set has.
Worst(severities) ==
  IF "critical" \in severities THEN "critical"
  ELSE IF "high" \in severities THEN "high"
  ELSE IF "medium" \in severities THEN "medium"
  ELSE "low"

\* Mutant: the severity of every drift counts.
WorstOfAll(fields) == Worst({f.severity : f \in fields})

\* Added and removed fields do not count.
CalculateSeverity(fields) ==
  Worst({f.severity : f \in {f \in fields : f.category = "monitored"}})

Result(fields) ==
  [has_drift |-> fields # {}, severity |-> CalculateSeverity(fields),
   fields |-> fields]

\* The result when fetch_config returns None.
Missing ==
  [has_drift |-> TRUE, severity |-> "critical",
   fields |-> {[path |-> <<"_resource_exists">>, category |-> "monitored",
                severity |-> "critical"]}]

-----------------------------------------------------------------------------
(* The run.                                                                *)

NoAlert == [sent |-> FALSE, severity |-> "low"]
NoResults == [r \in {} |-> Missing]
NothingRead == [of |-> None, config |-> None]

Init ==
  /\ baselines \in SUBSET Resources
  /\ step = "idle"
  /\ todo = {}
  /\ reading = NothingRead
  /\ results = NoResults
  /\ alert = NoAlert
  /\ compared = [r \in {} |-> None]
  /\ stable = {}

\* The API creates and deletes baselines (BaselineStore) meanwhile.
Create(r) ==
  /\ r \notin baselines
  /\ baselines' = baselines \cup {r}
  /\ UNCHANGED <<stable, step, todo, reading, found, alert>>

Delete(r) ==
  /\ r \in baselines
  /\ baselines' = baselines \ {r}
  /\ stable' = stable \ {r}
  /\ UNCHANGED <<step, todo, reading, found, alert>>

Start(asked) ==
  /\ step = "idle"
  /\ todo' = asked
  /\ stable' = asked \cap baselines
  /\ step' = "detect"
  /\ UNCHANGED <<baselines, reading, found, alert>>

\* detect_all lists the baselines, of all types or of some; resource_ids are
\* taken as they are given.
StartAll == \E types \in SUBSET Resources : Start(baselines \cap types)
StartIds == \E ids \in SUBSET Resources : ids # {} /\ Start(ids)

\* Mutant: a baseline that is gone ends the loop.
GiveUp(r) == {}

\* Where the loop goes on when the baseline of r is gone.
Skip(r) == todo \ {r}

\* get_baseline, again for each resource: by now it may be gone, or have any
\* configuration.
ReadBaseline(r) ==
  /\ step = "detect"
  /\ r \in todo
  /\ IF r \in baselines
     THEN /\ \E b \in Configs : reading' = [of |-> r, config |-> b]
          /\ step' = "fetch"
          /\ UNCHANGED todo
     ELSE todo' = Skip(r) /\ UNCHANGED <<step, reading>>
  /\ UNCHANGED <<baselines, stable, found, alert>>

\* fetch_config: the configuration of the resource by now, and None when the
\* resource is gone, on any error, and for a type without a fetcher.
FetchConfig ==
  /\ step = "fetch"
  /\ \E c \in Configs \cup {None} :
       /\ results' = [r \in DOMAIN results \cup {reading.of} |->
                        IF r # reading.of THEN results[r]
                        ELSE IF c = None THEN Missing
                        ELSE Result(CompareConfigs(reading.config, c))]
       /\ compared' = [r \in DOMAIN results \cup {reading.of} |->
                         IF r # reading.of THEN compared[r]
                         ELSE [baseline |-> reading.config, current |-> c]]
  /\ todo' = todo \ {reading.of}
  /\ reading' = NothingRead
  /\ step' = "detect"
  /\ UNCHANGED <<baselines, stable, alert>>

-----------------------------------------------------------------------------
(* What the run raises.                                                    *)

Drifts == {r \in DOMAIN results : results[r].has_drift}

\* No drift: answered without a request and without an alert.
NothingFound ==
  /\ step = "detect"
  /\ todo = {}
  /\ Drifts = {}
  /\ step' = "done"
  /\ UNCHANGED <<baselines, stable, todo, reading, found, alert>>

\* A run that found drifts: for a critical one the handler asks for a HITL request,
\* by a method that the store does not have (the error is logged only, no request
\* is made), and then publishes its alert, unless the caller wants none or
\* EventBridge refuses it.
Publish ==
  /\ step = "detect"
  /\ todo = {}
  /\ Drifts # {}
  /\ alert' \in {NoAlert, [sent |-> TRUE,
                           severity |-> Worst({results[r].severity : r \in Drifts})]}
  /\ step' = "done"
  /\ UNCHANGED <<baselines, stable, todo, reading, found>>

\* The store raises while it lists or reads: the whole run fails.
RunFails ==
  /\ step = "idle" \/ (step = "detect" /\ todo # {})
  /\ step' = "failed"
  /\ UNCHANGED <<baselines, stable, todo, reading, found, alert>>

\* The answer is sent: the handler is ready for the next run.
Return ==
  /\ step \in {"done", "failed"}
  /\ step' = "idle"
  /\ todo' = {}
  /\ results' = NoResults
  /\ compared' = [r \in {} |-> None]
  /\ alert' = NoAlert
  /\ stable' = {}
  /\ UNCHANGED <<baselines, reading>>

Next ==
  \/ \E r \in Resources : Create(r) \/ Delete(r) \/ ReadBaseline(r)
  \/ StartAll \/ StartIds \/ FetchConfig
  \/ NothingFound \/ Publish \/ RunFails \/ Return

Spec == Init /\ [][Next]_vars

-----------------------------------------------------------------------------
(* What a configuration says, apart from the ignored keys: what stands at  *)
(* each of its paths, lists up to order and repetition.                    *)

Leaf(v) ==
  IF IsDict(v) THEN <<"dict">>
  ELSE IF v.kind = "list" THEN <<"list", Len(v.data), Elements(v.data)>>
  ELSE <<v.kind, v.data>>

NodesAt(path, c) ==
  {<<Append(path, k), Leaf(c[k])>> : k \in DOMAIN c \ Ignored}

Nodes(c) ==
  NodesAt(<<>>, c)
    \cup UNION {NodesAt(<<k>>, c[k].data) :
                  k \in {k \in DOMAIN c \ Ignored : IsDict(c[k])}}

Paths(c) == {n[1] : n \in Nodes(c)}

\* The paths at which both configurations have something, and not the same.
Altered(b, c) ==
  {p \in Paths(b) \cap Paths(c) :
     \E n \in Nodes(b) : n[1] = p /\ n \notin Nodes(c)}

LastKey(path) == path[Len(path)]

\* A result has a drift exactly when the baseline and the configuration it
\* was computed from differ at a path that is not ignored, at either level; its
\* severity is the worst one of the paths that both of them have and that
\* were altered; and each of these is among its fields
\* (drift_detector.py:196-352).
ResultsAreExact ==
  \A r \in DOMAIN results :
    LET b == compared[r].baseline
        c == compared[r].current
    IN  c # None =>
          /\ results[r].has_drift <=> Nodes(b) # Nodes(c)
          /\ results[r].severity = Worst({Severity[LastKey(p)] : p \in Altered(b, c)})
          /\ Altered(b, c) = {f.path : f \in {f \in results[r].fields :
                                               f.category = "monitored"}}

\* A run that is answered has detected every resource it was asked about that
\* has had a baseline all the time, whatever baselines come and go between
\* the listing and the single reads (drift_detector.py:151-194).
StableAreChecked ==
  step = "done" => stable \subseteq DOMAIN results

=============================================================================
