-------------------------- MODULE DriftDetectionProofs --------------------------
(***************************************************************************)
(* Proofs about the detections of the drift agent, for any resources, keys *)
(* and configurations.                                                     *)
(***************************************************************************)
EXTENDS DriftDetection, TLAPS

\* The value v stands at the path p of a configuration, and no key of the
\* path is ignored.
At(c, p, v) ==
  \/ \E k \in DOMAIN c \ Ignored : p = <<k>> /\ v = c[k]
  \/ \E k \in DOMAIN c \ Ignored : \E l \in DOMAIN c[k].data \ Ignored :
       IsDict(c[k]) /\ p = <<k, l>> /\ v = c[k].data[l]

\* The result is the one of the two configurations it was computed from.
Recorded(r) ==
  \/ compared[r].current = None
  \/ /\ compared[r].baseline \in Configs
     /\ compared[r].current \in Configs
     /\ results[r] =
          Result(CompareConfigs(compared[r].baseline, compared[r].current))

\* What a run has still to detect and what it has detected cover what has
\* kept its baseline.
IInv ==
  /\ DOMAIN compared = DOMAIN results
  /\ \A r \in DOMAIN results : Recorded(r)
  /\ step = "fetch" => reading.config \in Configs
  /\ stable \subseteq baselines
  /\ step \in {"detect", "fetch"} => stable \subseteq todo \cup DOMAIN results
  /\ step = "done" => stable \subseteq DOMAIN results

-----------------------------------------------------------------------------
\* The comparison of two values that are not both dicts tells them apart
\* exactly when they are not the same leaf (drift_detector.py:264-310).
LEMMA ValuesDiffer ==
  ASSUME NEW x, NEW y, IsValue(x), IsValue(y), ~(IsDict(x) /\ IsDict(y))
  PROVE  Differs(x, y) <=> Leaf(x) # Leaf(y)
  <1>1. Leaf(x)[1] = x.kind /\ Leaf(y)[1] = y.kind
    BY DEF Leaf, IsDict
  <1>2. CASE x.kind # y.kind
    <2>1. x # y /\ Leaf(x) # Leaf(y)
      BY <1>1, <1>2
    <2> QED
      BY <2>1, <1>2 DEF Differs, ListDiffers, IsList
  <1>3. CASE x.kind = y.kind /\ x.kind = "list"
    BY <1>3 DEF Differs, ListDiffers, IsList, Leaf, IsDict
  <1>4. CASE x.kind = y.kind /\ x.kind # "list"
    <2>1. Leaf(x) = <<x.kind, x.data>> /\ Leaf(y) = <<y.kind, y.data>>
      BY <1>4 DEF Leaf, IsDict
    <2>2. x = y <=> x.data = y.data
      BY <1>4 DEF IsValue
    <2>3. Differs(x, y) <=> x # y
      BY <1>4 DEF Differs, ListDiffers, IsList
    <2> QED
      BY <2>1, <2>2, <2>3, <1>4
  <1> QED
    BY <1>2, <1>3, <1>4

\* Two dicts are the same leaf.
LEMMA DictsAlike ==
  ASSUME NEW x, NEW y, IsDict(x), IsDict(y)
  PROVE  Leaf(x) = Leaf(y)
  BY DEF Leaf

\* At most one value stands at a path.
LEMMA OneAt ==
  ASSUME NEW c, NEW p, NEW v, NEW w, At(c, p, v), At(c, p, w)
  PROVE  v = w
  <1>1. \A k, l, m : <<k>> # <<l, m>>
    OBVIOUS
  <1>2. \A k, l, m, n : <<k, l>> = <<m, n>> => k = m /\ l = n
    OBVIOUS
  <1> QED
    BY <1>1, <1>2 DEF At

\* Paths of two keys.
LEMMA AppendTwo ==
  ASSUME NEW k, NEW l
  PROVE  Append(<<k>>, l) = <<k, l>>
  <1> DEFINE s == <<k>>
  <1>1. s \in Seq({k, l}) /\ Len(s) = 1 /\ s[1] = k
    OBVIOUS
  <1>2. Append(s, l) = [i \in 1..2 |-> IF i = 2 THEN l ELSE s[i]]
    BY <1>1
  <1>3. <<k, l>> = [i \in 1..2 |-> IF i = 2 THEN l ELSE s[i]]
    BY <1>1
  <1> QED
    BY <1>2, <1>3

\* What a configuration says is the leaves of the values at its paths.
LEMMA NodesAre ==
  ASSUME NEW c, NEW n
  PROVE  n \in Nodes(c) <=> \E p, v : At(c, p, v) /\ n = <<p, Leaf(v)>>
  <1>1. \A k : Append(<<>>, k) = <<k>>
    OBVIOUS
  <1>2. \A k, l : Append(<<k>>, l) = <<k, l>>
    BY AppendTwo
  <1>3. n \in NodesAt(<<>>, c) <=>
          \E k \in DOMAIN c \ Ignored : n = <<<<k>>, Leaf(c[k])>>
    BY <1>1 DEF NodesAt
  <1>4. ASSUME NEW k
        PROVE  n \in NodesAt(<<k>>, c[k].data) <=>
                 \E l \in DOMAIN c[k].data \ Ignored :
                   n = <<<<k, l>>, Leaf(c[k].data[l])>>
    BY <1>2 DEF NodesAt
  <1>5. n \in Nodes(c) <=>
          \/ n \in NodesAt(<<>>, c)
          \/ \E k \in DOMAIN c \ Ignored :
               IsDict(c[k]) /\ n \in NodesAt(<<k>>, c[k].data)
    BY DEF Nodes
  <1> QED
    BY <1>3, <1>4, <1>5 DEF At

\* The values of a dict.
Values(d) == \A k \in DOMAIN d : IsValue(d[k])

\* A field is the one of a key under which two dicts have other leaves.
Differing(path, b, c, f) ==
  \E k \in (DOMAIN b \cap DOMAIN c) \ Ignored :
    Leaf(b[k]) # Leaf(c[k]) /\ f = Field(Append(path, k), "monitored")

\* The monitored fields at one level.
LEMMA MonitoredAt ==
  ASSUME NEW path, NEW b, NEW c, NEW f, Values(b), Values(c)
  PROVE  f \in FieldsAt(path, b, c) /\ f.category = "monitored" <=>
           Differing(path, b, c, f)
  <1>1. ASSUME NEW k \in DOMAIN b \cap DOMAIN c
        PROVE  Leaf(b[k]) # Leaf(c[k]) <=>
                 ~(IsDict(b[k]) /\ IsDict(c[k])) /\ Differs(b[k], c[k])
    BY ValuesDiffer, DictsAlike DEF Values
  <1>2. \A p : /\ Field(p, "monitored").category = "monitored"
               /\ Field(p, "discovered").category # "monitored"
    BY DEF Field
  <1> QED
    BY <1>1, <1>2 DEF FieldsAt, Differing

\* The discovered fields at one level.
LEMMA DiscoveredAt ==
  ASSUME NEW path, NEW b, NEW c, NEW f
  PROVE  f \in FieldsAt(path, b, c) /\ f.category # "monitored" <=>
           \E k \in (DOMAIN b \cup DOMAIN c) \ Ignored :
             /\ k \notin DOMAIN b \cap DOMAIN c
             /\ f = Field(Append(path, k), "discovered")
  <1>1. \A p : /\ Field(p, "monitored").category = "monitored"
               /\ Field(p, "discovered").category # "monitored"
    BY DEF Field
  <1> QED
    BY <1>1 DEF FieldsAt

\* The fields are those of the upper level and those of the dicts that both
\* have.
LEMMA FieldsOfLevels ==
  ASSUME NEW b, NEW c, NEW f
  PROVE  f \in CompareConfigs(b, c) <=>
           \/ f \in FieldsAt(<<>>, b, c)
           \/ \E k \in NestedKeys(b, c) :
                f \in FieldsAt(<<k>>, b[k].data, c[k].data)
  BY DEF CompareConfigs

\* The monitored fields are at the paths that both have, with other leaves.
LEMMA MonitoredAre ==
  ASSUME NEW b, NEW c, IsConfig(b), IsConfig(c), NEW f
  PROVE  f \in CompareConfigs(b, c) /\ f.category = "monitored" <=>
           \E p, v, w : /\ At(b, p, v) /\ At(c, p, w) /\ Leaf(v) # Leaf(w)
                        /\ f = Field(p, "monitored")
  <1>1. \A k : Append(<<>>, k) = <<k>>
    OBVIOUS
  <1>2. \A k, l : Append(<<k>>, l) = <<k, l>>
    BY AppendTwo
  <1>3. f \in FieldsAt(<<>>, b, c) /\ f.category = "monitored" <=>
          \E k \in (DOMAIN b \cap DOMAIN c) \ Ignored :
            Leaf(b[k]) # Leaf(c[k]) /\ f = Field(<<k>>, "monitored")
    <2>1. Values(b) /\ Values(c)
      BY DEF Values, IsConfig
    <2>2. f \in FieldsAt(<<>>, b, c) /\ f.category = "monitored" <=>
            Differing(<<>>, b, c, f)
      BY <2>1, MonitoredAt
    <2>3. \A k : Field(Append(<<>>, k), "monitored") = Field(<<k>>, "monitored")
      BY <1>1
    <2> QED
      BY <2>2, <2>3 DEF Differing
  <1>4. ASSUME NEW k \in NestedKeys(b, c)
        PROVE  f \in FieldsAt(<<k>>, b[k].data, c[k].data)
                 /\ f.category = "monitored" <=>
               \E l \in (DOMAIN b[k].data \cap DOMAIN c[k].data) \ Ignored :
                 /\ Leaf(b[k].data[l]) # Leaf(c[k].data[l])
                 /\ f = Field(<<k, l>>, "monitored")
    <2>1. Values(b[k].data) /\ Values(c[k].data)
      BY DEF Values, NestedKeys, IsConfig
    <2>2. f \in FieldsAt(<<k>>, b[k].data, c[k].data)
            /\ f.category = "monitored" <=>
          Differing(<<k>>, b[k].data, c[k].data, f)
      BY <2>1, MonitoredAt
    <2>3. \A l : Field(Append(<<k>>, l), "monitored")
                = Field(<<k, l>>, "monitored")
      BY <1>2
    <2> QED
      BY <2>2, <2>3 DEF Differing
  <1>5. ASSUME f \in CompareConfigs(b, c), f.category = "monitored"
        PROVE  \E p, v, w : /\ At(b, p, v) /\ At(c, p, w) /\ Leaf(v) # Leaf(w)
                            /\ f = Field(p, "monitored")
    <2>1. CASE f \in FieldsAt(<<>>, b, c)
      BY <2>1, <1>3, <1>5 DEF At
    <2>2. CASE \E k \in NestedKeys(b, c) :
                 f \in FieldsAt(<<k>>, b[k].data, c[k].data)
      <3>1. PICK k \in NestedKeys(b, c) :
              f \in FieldsAt(<<k>>, b[k].data, c[k].data)
        BY <2>2
      <3>2. PICK l \in (DOMAIN b[k].data \cap DOMAIN c[k].data) \ Ignored :
              /\ Leaf(b[k].data[l]) # Leaf(c[k].data[l])
              /\ f = Field(<<k, l>>, "monitored")
        BY <1>4, <1>5, <3>1
      <3>3. /\ At(b, <<k, l>>, b[k].data[l])
            /\ At(c, <<k, l>>, c[k].data[l])
        BY DEF At, NestedKeys
      <3> QED
        BY <3>2, <3>3
    <2> QED
      BY <2>1, <2>2, <1>5, FieldsOfLevels
  <1>6. ASSUME NEW p, NEW v, NEW w, At(b, p, v), At(c, p, w),
               Leaf(v) # Leaf(w), f = Field(p, "monitored")
        PROVE  f \in CompareConfigs(b, c) /\ f.category = "monitored"
    <2>1. \A k, l, m : <<k>> # <<l, m>>
      OBVIOUS
    <2>2. \A k, l, m, n : <<k, l>> = <<m, n>> => k = m /\ l = n
      OBVIOUS
    <2>3. CASE \E k : p = <<k>>
      <3>1. PICK k : p = <<k>>
        BY <2>3
      <3>2. /\ k \in (DOMAIN b \cap DOMAIN c) \ Ignored
            /\ v = b[k] /\ w = c[k]
        BY <3>1, <2>1, <1>6 DEF At
      <3> QED
        BY <3>1, <3>2, <1>3, <1>6, FieldsOfLevels
    <2>4. CASE \E k, l : p = <<k, l>>
      <3>1. PICK k, l : p = <<k, l>>
        BY <2>4
      <3>2. /\ k \in NestedKeys(b, c)
            /\ l \in (DOMAIN b[k].data \cap DOMAIN c[k].data) \ Ignored
            /\ v = b[k].data[l] /\ w = c[k].data[l]
        BY <3>1, <2>1, <2>2, <1>6 DEF At, NestedKeys
      <3> QED
        BY <3>1, <3>2, <1>4, <1>6, FieldsOfLevels
    <2> QED
      BY <2>3, <2>4, <1>6 DEF At
  <1> QED
    BY <1>5, <1>6

\* A path is altered when both have other leaves there.
LEMMA AlteredAre ==
  ASSUME NEW b, NEW c, NEW p
  PROVE  p \in Altered(b, c) <=>
           \E v, w : At(b, p, v) /\ At(c, p, w) /\ Leaf(v) # Leaf(w)
  <1>1. ASSUME NEW d
        PROVE  p \in Paths(d) <=> \E v : At(d, p, v)
    <2>1. p \in Paths(d) <=> \E n \in Nodes(d) : p = n[1]
      BY DEF Paths
    <2>2. ASSUME NEW n \in Nodes(d), p = n[1] PROVE \E v : At(d, p, v)
      <3>1. PICK q, v : At(d, q, v) /\ n = <<q, Leaf(v)>>
        BY NodesAre
      <3> QED
        BY <3>1, <2>2
    <2>3. ASSUME NEW v, At(d, p, v) PROVE \E n \in Nodes(d) : p = n[1]
      <3>1. <<p, Leaf(v)>> \in Nodes(d) /\ p = <<p, Leaf(v)>>[1]
        BY <2>3, NodesAre
      <3> QED
        BY <3>1
    <2> QED
      BY <2>1, <2>2, <2>3
  <1>2. p \in Altered(b, c) <=>
          /\ p \in Paths(b) /\ p \in Paths(c)
          /\ \E n \in Nodes(b) : n[1] = p /\ n \notin Nodes(c)
    BY DEF Altered
  <1>3. ASSUME p \in Altered(b, c)
        PROVE  \E v, w : At(b, p, v) /\ At(c, p, w) /\ Leaf(v) # Leaf(w)
    <2>1. PICK n \in Nodes(b) : n[1] = p /\ n \notin Nodes(c)
      BY <1>2, <1>3
    <2>2. PICK v : At(b, p, v) /\ n = <<p, Leaf(v)>>
      BY <2>1, NodesAre
    <2>3. PICK w : At(c, p, w)
      BY <1>1, <1>2, <1>3
    <2>4. <<p, Leaf(w)>> \in Nodes(c)
      BY <2>3, NodesAre
    <2> QED
      BY <2>1, <2>2, <2>3, <2>4
  <1>4. ASSUME NEW v, NEW w, At(b, p, v), At(c, p, w), Leaf(v) # Leaf(w)
        PROVE  p \in Altered(b, c)
    <2>1. <<p, Leaf(v)>> \in Nodes(b) /\ <<p, Leaf(v)>>[1] = p
      BY <1>4, NodesAre
    <2>2. <<p, Leaf(v)>> \notin Nodes(c)
      <3>1. SUFFICES ASSUME <<p, Leaf(v)>> \in Nodes(c) PROVE FALSE
        OBVIOUS
      <3>2. PICK q, u : At(c, q, u) /\ <<p, Leaf(v)>> = <<q, Leaf(u)>>
        BY <3>1, NodesAre
      <3>3. q = p /\ Leaf(u) = Leaf(v)
        BY <3>2
      <3> QED
        BY <3>2, <3>3, <1>4, OneAt
    <2> QED
      BY <1>1, <1>2, <1>4, <2>1, <2>2
  <1> QED
    BY <1>3, <1>4

\* A path that only one of the two has leaves a field.
LEMMA OnlyInOne ==
  ASSUME NEW b, NEW c, IsConfig(b), IsConfig(c), NEW p,
         \/ (\E v : At(b, p, v)) /\ ~(\E w : At(c, p, w))
         \/ (\E v : At(c, p, v)) /\ ~(\E w : At(b, p, w))
  PROVE  CompareConfigs(b, c) # {}
  <1>1. \A k, l, m : <<k>> # <<l, m>>
    OBVIOUS
  <1>2. \A k, l, m, n : <<k, l>> = <<m, n>> => k = m /\ l = n
    OBVIOUS
  <1>3. ASSUME NEW k \in (DOMAIN b \cup DOMAIN c) \ Ignored,
               k \notin DOMAIN b \cap DOMAIN c
        PROVE  CompareConfigs(b, c) # {}
    <2>1. Field(Append(<<>>, k), "discovered") \in FieldsAt(<<>>, b, c)
      BY <1>3 DEF FieldsAt
    <2> QED
      BY <2>1 DEF CompareConfigs
  <1>4. CASE \E k : p = <<k>>
    <2>1. PICK k : p = <<k>>
      BY <1>4
    <2>2. /\ k \in (DOMAIN b \cup DOMAIN c) \ Ignored
          /\ k \notin DOMAIN b \cap DOMAIN c
      BY <2>1, <1>1 DEF At
    <2> QED
      BY <2>2, <1>3
  <1>5. CASE \E k, l : p = <<k, l>>
    <2>1. PICK k, l : p = <<k, l>>
      BY <1>5
    <2>2. k \in (DOMAIN b \cup DOMAIN c) \ Ignored
      BY <2>1, <1>1, <1>2 DEF At
    <2>3. CASE k \in NestedKeys(b, c)
      <3>1. /\ l \in (DOMAIN b[k].data \cup DOMAIN c[k].data) \ Ignored
            /\ l \notin DOMAIN b[k].data \cap DOMAIN c[k].data
        BY <2>1, <2>3, <1>1, <1>2 DEF At, NestedKeys
      <3>2. Field(Append(<<k>>, l), "discovered")
              \in FieldsAt(<<k>>, b[k].data, c[k].data)
        BY <3>1 DEF FieldsAt
      <3> QED
        BY <2>3, <3>2, FieldsOfLevels
    <2>4. CASE k \in DOMAIN b \cap DOMAIN c /\ k \notin NestedKeys(b, c)
      <3>1. IsDict(b[k]) # IsDict(c[k])
        BY <2>1, <2>2, <2>4, <1>1, <1>2 DEF At, NestedKeys, IsDict
      <3>2. Leaf(b[k]) # Leaf(c[k])
        <4>1. Leaf(b[k])[1] = b[k].kind /\ Leaf(c[k])[1] = c[k].kind
          BY DEF Leaf, IsDict
        <4> QED
          BY <4>1, <3>1 DEF IsDict
      <3>3. At(b, <<k>>, b[k]) /\ At(c, <<k>>, c[k])
        BY <2>2, <2>4 DEF At
      <3> QED
        BY <3>2, <3>3, MonitoredAre
    <2> QED
      BY <2>2, <2>3, <2>4, <1>3
  <1> QED
    BY <1>4, <1>5 DEF At

\* A field that was added or removed is at a path that only one of the two
\* has.
LEMMA DiscoveredAre ==
  ASSUME NEW b, NEW c, NEW f \in CompareConfigs(b, c), f.category # "monitored"
  PROVE  \E p : \/ (\E v : At(b, p, v)) /\ ~(\E w : At(c, p, w))
                \/ (\E v : At(c, p, v)) /\ ~(\E w : At(b, p, w))
  <1>1. \A k, l, m : <<k>> # <<l, m>>
    OBVIOUS
  <1>2. \A k, l, m, n : <<k, l>> = <<m, n>> => k = m /\ l = n
    OBVIOUS
  <1>3. CASE f \in FieldsAt(<<>>, b, c)
    <2>1. PICK k \in (DOMAIN b \cup DOMAIN c) \ Ignored :
            k \notin DOMAIN b \cap DOMAIN c
      BY <1>3, DiscoveredAt
    <2>2. /\ k \in DOMAIN b => At(b, <<k>>, b[k]) /\ ~(\E w : At(c, <<k>>, w))
          /\ k \in DOMAIN c => At(c, <<k>>, c[k]) /\ ~(\E w : At(b, <<k>>, w))
      BY <2>1, <1>1 DEF At
    <2> QED
      BY <2>1, <2>2
  <1>4. ASSUME NEW k \in NestedKeys(b, c),
               f \in FieldsAt(<<k>>, b[k].data, c[k].data)
        PROVE  \E p : \/ (\E v : At(b, p, v)) /\ ~(\E w : At(c, p, w))
                      \/ (\E v : At(c, p, v)) /\ ~(\E w : At(b, p, w))
    <2>1. PICK l \in (DOMAIN b[k].data \cup DOMAIN c[k].data) \ Ignored :
            l \notin DOMAIN b[k].data \cap DOMAIN c[k].data
      BY <1>4, DiscoveredAt
    <2>2. /\ l \in DOMAIN b[k].data =>
               /\ At(b, <<k, l>>, b[k].data[l])
               /\ ~(\E w : At(c, <<k, l>>, w))
          /\ l \in DOMAIN c[k].data =>
               /\ At(c, <<k, l>>, c[k].data[l])
               /\ ~(\E w : At(b, <<k, l>>, w))
      BY <2>1, <1>1, <1>2 DEF At, NestedKeys
    <2> QED
      BY <2>1, <2>2
  <1> QED
    BY <1>3, <1>4, FieldsOfLevels

\* There are no fields exactly when the two say the same.
LEMMA FieldsTell ==
  ASSUME NEW b, NEW c, IsConfig(b), IsConfig(c)
  PROVE  CompareConfigs(b, c) # {} <=> Nodes(b) # Nodes(c)
  <1>1. ASSUME NEW d, NEW e, NEW p, NEW v, At(d, p, v),
               \A w : At(e, p, w) => Leaf(w) # Leaf(v)
        PROVE  Nodes(d) # Nodes(e)
    <2>1. <<p, Leaf(v)>> \in Nodes(d)
      BY <1>1, NodesAre
    <2>2. SUFFICES ASSUME <<p, Leaf(v)>> \in Nodes(e) PROVE FALSE
      BY <2>1
    <2>3. PICK q, w : At(e, q, w) /\ <<p, Leaf(v)>> = <<q, Leaf(w)>>
      BY <2>2, NodesAre
    <2>4. q = p /\ Leaf(w) = Leaf(v)
      BY <2>3
    <2> QED
      BY <2>3, <2>4, <1>1
  <1>2. ASSUME NEW f \in CompareConfigs(b, c) PROVE Nodes(b) # Nodes(c)
    <2>1. CASE f.category = "monitored"
      <3>1. PICK p, v, w : At(b, p, v) /\ At(c, p, w) /\ Leaf(v) # Leaf(w)
        BY <1>2, <2>1, MonitoredAre
      <3>2. \A u : At(c, p, u) => Leaf(u) # Leaf(v)
        BY <3>1, OneAt
      <3> QED
        BY <1>1, <3>1, <3>2
    <2>2. CASE f.category # "monitored"
      <3>1. PICK p : \/ (\E v : At(b, p, v)) /\ ~(\E w : At(c, p, w))
                     \/ (\E v : At(c, p, v)) /\ ~(\E w : At(b, p, w))
        BY <1>2, <2>2, DiscoveredAre
      <3> QED
        BY <1>1, <3>1
    <2> QED
      BY <2>1, <2>2
  <1>3. ASSUME NEW d, NEW e, NEW n \in Nodes(d), n \notin Nodes(e)
        PROVE  \E p, v : /\ At(d, p, v)
                         /\ \A w : At(e, p, w) => Leaf(w) # Leaf(v)
    <2>1. PICK p, v : At(d, p, v) /\ n = <<p, Leaf(v)>>
      BY <1>3, NodesAre
    <2>2. ASSUME NEW w, At(e, p, w), Leaf(w) = Leaf(v) PROVE FALSE
      <3>1. <<p, Leaf(w)>> \in Nodes(e)
        BY <2>2, NodesAre
      <3> QED
        BY <3>1, <2>1, <2>2, <1>3
    <2> QED
      BY <2>1, <2>2
  <1>4. ASSUME Nodes(b) # Nodes(c) PROVE CompareConfigs(b, c) # {}
    <2>1. \/ \E n \in Nodes(b) : n \notin Nodes(c)
          \/ \E n \in Nodes(c) : n \notin Nodes(b)
      BY <1>4
    <2>2. PICK p, v : \/ /\ At(b, p, v)
                         /\ \A w : At(c, p, w) => Leaf(w) # Leaf(v)
                      \/ /\ At(c, p, v)
                         /\ \A w : At(b, p, w) => Leaf(w) # Leaf(v)
      BY <2>1, <1>3
    <2>3. CASE (\E w : At(b, p, w)) /\ (\E w : At(c, p, w))
      <3>1. PICK x, y : At(b, p, x) /\ At(c, p, y) /\ Leaf(x) # Leaf(y)
        BY <2>2, <2>3
      <3> QED
        BY <3>1, MonitoredAre
    <2>4. CASE ~((\E w : At(b, p, w)) /\ (\E w : At(c, p, w)))
      BY <2>2, <2>4, OnlyInOne
    <2> QED
      BY <2>3, <2>4
  <1> QED
    BY <1>2, <1>4

\* What the comparison makes of two configurations is exact.
LEMMA ComparisonIsExact ==
  ASSUME NEW b, NEW c, IsConfig(b), IsConfig(c)
  PROVE  LET result == Result(CompareConfigs(b, c))
         IN  /\ result.has_drift <=> Nodes(b) # Nodes(c)
             /\ result.severity =
                  Worst({Severity[LastKey(p)] : p \in Altered(b, c)})
             /\ Altered(b, c) = {f.path : f \in {f \in result.fields :
                                                  f.category = "monitored"}}
  <1> DEFINE F == CompareConfigs(b, c)
             M == {f \in F : f.category = "monitored"}
  <1>1. Result(F).has_drift <=> Nodes(b) # Nodes(c)
    BY FieldsTell DEF Result
  <1>2. ASSUME NEW f
        PROVE  f \in M <=> \E p \in Altered(b, c) : f = Field(p, "monitored")
    <2>1. f \in M <=> f \in F /\ f.category = "monitored"
      OBVIOUS
    <2>2. f \in M <=>
            \E p, v, w : /\ At(b, p, v) /\ At(c, p, w) /\ Leaf(v) # Leaf(w)
                         /\ f = Field(p, "monitored")
      BY <2>1, MonitoredAre
    <2> HIDE DEF M
    <2> QED
      BY <2>2, AlteredAre
  <1>3. \A p : /\ Field(p, "monitored").path = p
               /\ Field(p, "monitored").severity = Severity[LastKey(p)]
    BY DEF Field, LastKey
  <1>4. Result(F).fields = F /\ Result(F).severity = CalculateSeverity(F)
    BY DEF Result
  <1>5. CalculateSeverity(F) = Worst({f.severity : f \in M})
    BY DEF CalculateSeverity
  <1> HIDE DEF M, F
  <1>6. {f.path : f \in M} = Altered(b, c)
    BY <1>2, <1>3
  <1>7. {f.severity : f \in M} = {Severity[LastKey(p)] : p \in Altered(b, c)}
    BY <1>2, <1>3
  <1> USE DEF F
  <1>8. {f \in Result(F).fields : f.category = "monitored"} = M
    BY <1>4 DEF M
  <1> QED
    BY <1>1, <1>4, <1>5, <1>6, <1>7, <1>8

-----------------------------------------------------------------------------
\* Nothing has been detected before the first run.
LEMMA InitInv == Init => IInv
  BY DEF Init, IInv, NoResults

\* A result that nobody touches stays the one of its configurations.
LEMMA RecordedStays ==
  ASSUME NEW r, Recorded(r), results'[r] = results[r],
         compared'[r] = compared[r]
  PROVE  Recorded(r)'
  BY DEF Recorded

\* A step that leaves the results, and keeps the baselines of what is stable,
\* has only its own step to account for.
LEMMA SameResults ==
  ASSUME IInv, UNCHANGED found
  PROVE  /\ DOMAIN compared' = DOMAIN results'
         /\ \A r \in DOMAIN results' : Recorded(r)'
  BY RecordedStays DEF IInv, found

\* Every step preserves the invariant.
LEMMA NextInv == IInv /\ [Next]_vars => IInv'
  <1> SUFFICES ASSUME IInv, [Next]_vars PROVE IInv'
    OBVIOUS
  <1>1. ASSUME NEW r \in Resources, Create(r) PROVE IInv'
    <2>1. UNCHANGED found
      BY <1>1 DEF Create
    <2> QED
      BY <1>1, <2>1, SameResults DEF Create, IInv, found
  <1>2. ASSUME NEW r \in Resources, Delete(r) PROVE IInv'
    <2>1. UNCHANGED found
      BY <1>2 DEF Delete
    <2> QED
      BY <1>2, <2>1, SameResults DEF Delete, IInv, found
  <1>3. ASSUME NEW r \in Resources, ReadBaseline(r) PROVE IInv'
    <2>1. UNCHANGED found
      BY <1>3 DEF ReadBaseline
    <2>2. CASE r \in baselines
      <3>1. PICK b \in Configs : reading' = [of |-> r, config |-> b]
        BY <1>3, <2>2 DEF ReadBaseline
      <3>2. reading'.config \in Configs
        BY <3>1
      <3> QED
        BY <1>3, <2>1, <2>2, <3>2, SameResults DEF ReadBaseline, IInv, found
    <2>3. CASE r \notin baselines
      BY <1>3, <2>1, <2>3, SameResults DEF ReadBaseline, Skip, IInv, found
    <2> QED
      BY <2>2, <2>3
  <1>4. ASSUME NEW asked, Start(asked) PROVE IInv'
    <2>1. UNCHANGED found
      BY <1>4 DEF Start
    <2> QED
      BY <1>4, <2>1, SameResults DEF Start, IInv, found
  <1>5. CASE FetchConfig
    <2> DEFINE R == DOMAIN results \cup {reading.of}
    <2>1. PICK c \in Configs \cup {None} :
            /\ results' = [r \in R |->
                             IF r # reading.of THEN results[r]
                             ELSE IF c = None THEN Missing
                             ELSE Result(CompareConfigs(reading.config, c))]
            /\ compared' = [r \in R |->
                              IF r # reading.of THEN compared[r]
                              ELSE [baseline |-> reading.config, current |-> c]]
      BY <1>5 DEF FetchConfig
    <2>2. DOMAIN compared' = R /\ DOMAIN results' = R
      BY <2>1
    <2>3. ASSUME NEW r \in R PROVE Recorded(r)'
      <3>1. CASE r # reading.of
        <4>1. results'[r] = results[r] /\ compared'[r] = compared[r]
          BY <2>1, <3>1
        <4> QED
          BY <3>1, <4>1, RecordedStays DEF IInv
      <3>2. CASE r = reading.of /\ c = None
        <4>1. compared'[r].current = None
          BY <2>1, <3>2
        <4> QED
          BY <4>1 DEF Recorded
      <3>3. CASE r = reading.of /\ c # None
        <4>1. /\ compared'[r].baseline = reading.config
              /\ compared'[r].current = c
              /\ results'[r] = Result(CompareConfigs(reading.config, c))
          BY <2>1, <3>3
        <4>2. reading.config \in Configs /\ c \in Configs
          BY <1>5, <3>3 DEF FetchConfig, IInv
        <4> QED
          BY <4>1, <4>2 DEF Recorded
      <3> QED
        BY <3>1, <3>2, <3>3
    <2>4. /\ stable' = stable /\ baselines' = baselines /\ step' = "detect"
          /\ todo' = todo \ {reading.of} /\ step = "fetch"
      BY <1>5 DEF FetchConfig
    <2>5. stable' \subseteq todo' \cup DOMAIN results'
      BY <2>2, <2>4 DEF IInv
    <2> QED
      BY <2>2, <2>3, <2>4, <2>5 DEF IInv
  <1>6. CASE NothingFound
    <2>1. UNCHANGED found
      BY <1>6 DEF NothingFound
    <2> QED
      BY <1>6, <2>1, SameResults DEF NothingFound, IInv, found
  <1>7. CASE Publish
    <2>1. UNCHANGED found
      BY <1>7 DEF Publish
    <2> QED
      BY <1>7, <2>1, SameResults DEF Publish, IInv, found
  <1>8. CASE RunFails
    <2>1. UNCHANGED found
      BY <1>8 DEF RunFails
    <2> QED
      BY <1>8, <2>1, SameResults DEF RunFails, IInv, found
  <1>9. CASE Return
    BY <1>9 DEF Return, IInv, NoResults
  <1>10. CASE UNCHANGED vars
    <2>1. UNCHANGED found
      BY <1>10 DEF vars, found
    <2> QED
      BY <1>10, <2>1, SameResults DEF IInv, vars, found
  <1> QED
    BY <1>1, <1>2, <1>3, <1>4, <1>5, <1>6, <1>7, <1>8, <1>9, <1>10
    DEF Next, StartAll, StartIds

\* The invariant implies what a result says of its two configurations.
LEMMA InvExact == IInv => ResultsAreExact
  <1> SUFFICES ASSUME IInv, NEW r \in DOMAIN results,
                      compared[r].current # None
               PROVE  LET b == compared[r].baseline
                          c == compared[r].current
                      IN  /\ results[r].has_drift <=> Nodes(b) # Nodes(c)
                          /\ results[r].severity =
                               Worst({Severity[LastKey(p)] : p \in Altered(b, c)})
                          /\ Altered(b, c) =
                               {f.path : f \in {f \in results[r].fields :
                                                 f.category = "monitored"}}
    BY DEF ResultsAreExact
  <1>1. /\ compared[r].baseline \in Configs
        /\ compared[r].current \in Configs
        /\ results[r] =
             Result(CompareConfigs(compared[r].baseline, compared[r].current))
    BY DEF IInv, Recorded
  <1>2. IsConfig(compared[r].baseline) /\ IsConfig(compared[r].current)
    BY <1>1, DriftAssumption
  <1> DEFINE b == compared[r].baseline
             c == compared[r].current
             F == Result(CompareConfigs(b, c))
  <1> HIDE DEF b, c
  <1>3. /\ F.has_drift <=> Nodes(b) # Nodes(c)
        /\ F.severity = Worst({Severity[LastKey(p)] : p \in Altered(b, c)})
        /\ Altered(b, c) = {f.path : f \in {f \in F.fields :
                                             f.category = "monitored"}}
    BY <1>2, ComparisonIsExact DEF b, c
  <1>4. results[r] = F
    BY <1>1 DEF b, c
  <1> HIDE DEF F
  <1> QED
    BY <1>3, <1>4 DEF b, c

\* Whatever configurations a resource and its baseline have, a detection finds
\* a drift exactly when they differ, reports every altered path, and rates the
\* worst of them.
THEOREM ExactResults == Spec => []ResultsAreExact
  BY InitInv, NextInv, InvExact, PTL DEF Spec

\* Whatever baselines come and go during a run, it detects every resource it
\* was asked about that keeps its baseline.
THEOREM StableResources == Spec => []StableAreChecked
  <1>1. IInv => StableAreChecked
    BY DEF IInv, StableAreChecked
  <1> QED
    BY <1>1, InitInv, NextInv, PTL DEF Spec

=============================================================================
