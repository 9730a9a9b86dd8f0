------------------------ MODULE MetricsRecorderProofs ------------------------
(***************************************************************************)
(* For any finite set of Addons, the gauges of the Recorder count the      *)
(* entries of its map, and an Addon has one health series.                 *)
(***************************************************************************)
EXTENDS MetricsRecorder, FiniteSetTheorems, TLAPS

IInv == TypeOK /\ GaugesMatchMap /\ OneHealthSeries

\* The sets behind the gauges are finite, and so have a cardinality.
LEMMA CountedFinite ==
    ASSUME NEW l
    PROVE  IsFiniteSet(CountedUnder(l)) /\ Cardinality(CountedUnder(l)) \in Nat
<1>1. CountedUnder(l) \in SUBSET UIDs
  BY DEF CountedUnder
<1> QED
  BY <1>1, RecorderAssumption, FS_Subset, FS_CardinalityType

\* countAddon changes the set behind a gauge by one Addon at most, and the
\* gauge by as much.
LEMMA CountAddonCorrect ==
    ASSUME IInv, NEW u \in UIDs, NEW curr \in Conditions, NEW deleting \in BOOLEAN,
           countAddon(u, curr, deleting)
    PROVE  /\ conditionMap' \in [UIDs -> Conditions \cup {NotRecorded}]
           /\ addonsCount' \in [Labels -> Int]
           /\ GaugesMatchMap'
<1> DEFINE old == conditionMap[u]
           new == IF old # NotRecorded /\ deleting THEN NotRecorded ELSE curr
           In(c, l) == c # NotRecorded /\ (l = "total" \/ l \in c)
<1>1. conditionMap' = [conditionMap EXCEPT ![u] = new]
  BY DEF countAddon
<1>2. conditionMap' \in [UIDs -> Conditions \cup {NotRecorded}]
  BY <1>1 DEF IInv, TypeOK
<1>3. ASSUME NEW l \in Labels
      PROVE  /\ addonsCount'[l] \in Int
             /\ addonsCount'[l] = Cardinality(CountedUnder(l)')
  <2> DEFINE S == CountedUnder(l)
  <2>1. addonsCount[l] = Cardinality(S) /\ IsFiniteSet(S) /\ Cardinality(S) \in Nat
    BY CountedFinite DEF IInv, GaugesMatchMap
  <2>2. u \in S <=> In(old, l)
    BY DEF CountedUnder
  <2>3. CountedUnder(l)' = IF In(new, l) THEN S \cup {u} ELSE S \ {u}
    BY <1>1, <1>2 DEF CountedUnder, IInv, TypeOK
  <2>4. addonsCount'[l] = addonsCount[l] + One(In(new, l)) - One(In(old, l))
    <3> HIDE DEF S
    <3>1. addonsCount[l] \in Int
      BY <2>1
    <3>2. curr # NotRecorded /\ (l = "total" => l \notin curr)
      BY RecorderAssumption DEF Conditions
    <3>3. CASE old = NotRecorded
      BY <3>1, <3>2, <3>3 DEF countAddon, One
    <3>4. CASE old # NotRecorded
      <4>1. addonsCount'[l] = IF l = "total" THEN addonsCount[l] - One(deleting)
                              ELSE addonsCount[l] + One(l \in curr) - One(l \in old)
                                                  - One(deleting /\ l \in curr)
        BY <3>4 DEF countAddon
      <4> QED
        BY <3>1, <3>2, <3>4, <4>1 DEF One
    <3> QED
      BY <3>3, <3>4
  <2>5. CASE In(new, l)
    <3>1. Cardinality(CountedUnder(l)') = IF u \in S THEN Cardinality(S) ELSE Cardinality(S) + 1
      <4> HIDE DEF S, In, new
      <4> QED BY <2>1, <2>3, <2>5, FS_AddElement
    <3> HIDE DEF S, In, new, old
    <3> QED
      BY <2>1, <2>2, <2>4, <2>5, <3>1 DEF One
  <2>6. CASE ~In(new, l)
    <3>1. Cardinality(CountedUnder(l)') = IF u \in S THEN Cardinality(S) - 1 ELSE Cardinality(S)
      <4> HIDE DEF S, In, new
      <4> QED BY <2>1, <2>3, <2>6, FS_RemoveElement
    <3> HIDE DEF S, In, new, old
    <3> QED
      BY <2>1, <2>2, <2>4, <2>6, <3>1 DEF One
  <2> QED
    BY <2>5, <2>6
<1>4. \E f : addonsCount' = [l \in Labels |-> f[l]]
  BY DEF countAddon
<1> QED
  BY <1>2, <1>3, <1>4 DEF GaugesMatchMap

\* recordAddonHealthInfo leaves one series for the name, and the others alone.
LEMMA HealthInfoCorrect ==
    ASSUME IInv, NEW n \in Names, NEW v \in Versions, NEW curr \in Conditions,
           NEW h \in Health(curr), recordAddonHealthInfo(n, v, h[2], h[1])
    PROVE  /\ healthInfo' \in SUBSET [name: Names, version: Versions, reason: Reasons, value: 0..2]
           /\ OneHealthSeries'
<1>1. h[1] \in 0..2 /\ h[2] \in Reasons
  BY DEF Health, Reasons
<1> QED
  BY <1>1 DEF recordAddonHealthInfo, IInv, TypeOK, OneHealthSeries

\* What a pass records, or does not, preserves the invariant of the Recorder.
LEMMA RecordCorrect ==
    ASSUME IInv, NEW u \in UIDs, NEW curr \in Conditions, NEW deleting \in BOOLEAN,
           recordAddonMetrics(u, curr, deleting)
    PROVE  /\ conditionMap' \in [UIDs -> Conditions \cup {NotRecorded}]
           /\ addonsCount' \in [Labels -> Int]
           /\ healthInfo' \in SUBSET [name: Names, version: Versions, reason: Reasons, value: 0..2]
           /\ GaugesMatchMap'
           /\ OneHealthSeries'
<1>1. CASE RecordAddonMetrics(u, curr, deleting)
  <2>1. u[1] \in Names
    BY DEF UIDs
  <2>2. PICK h \in Health(curr), v \in Versions: recordAddonHealthInfo(u[1], v, h[2], h[1])
    BY <1>1 DEF RecordAddonMetrics
  <2> QED
    BY <1>1, <2>1, <2>2, CountAddonCorrect, HealthInfoCorrect DEF RecordAddonMetrics
<1>2. CASE UNCHANGED recorder
  BY <1>2 DEF recorder, IInv, TypeOK, GaugesMatchMap, CountedUnder, OneHealthSeries
<1> QED
  BY <1>1, <1>2 DEF recordAddonMetrics

\* The Recorder starts with an empty map and zero gauges.
LEMMA EmptyCorrect ==
    ASSUME NEW m, m = [u \in UIDs |-> NotRecorded]
    PROVE  \A l : Cardinality({u \in UIDs: m[u] # NotRecorded /\ (l = "total" \/ l \in m[u])}) = 0
<1> TAKE l
<1>1. {u \in UIDs: m[u] # NotRecorded /\ (l = "total" \/ l \in m[u])} = {}
  OBVIOUS
<1> QED
  BY <1>1, FS_EmptySet

\* The initial states satisfy the inductive invariant.
LEMMA InitIInv == Init => IInv
<1> SUFFICES ASSUME Init PROVE IInv
  OBVIOUS
<1>1. TypeOK
  BY RecorderAssumption DEF Init, TypeOK, Life, Conditions, Labels
<1>2. GaugesMatchMap
  BY EmptyCorrect DEF Init, GaugesMatchMap, CountedUnder
<1>3. OneHealthSeries
  BY DEF Init, OneHealthSeries
<1> QED
  BY <1>1, <1>2, <1>3 DEF IInv

\* Every step preserves the inductive invariant.
LEMMA NextIInv == IInv /\ [Next]_vars => IInv'
<1> SUFFICES ASSUME IInv, [Next]_vars PROVE IInv'
  OBVIOUS
<1>1. ASSUME UNCHANGED recorder,
             life' \in [UIDs -> Life], cache' \in [UIDs -> Life], finalizer' \in SUBSET UIDs,
             conditions' \in [UIDs -> Conditions], restarts' \in 0..MaxRestarts
      PROVE  IInv'
  BY <1>1 DEF IInv, TypeOK, recorder, GaugesMatchMap, CountedUnder, OneHealthSeries
<1>2. ASSUME NEW u \in UIDs, CreateAddon(u) PROVE IInv'
  BY <1>1, <1>2 DEF CreateAddon, IInv, TypeOK, Life
<1>3. ASSUME NEW u \in UIDs, DeleteAddon(u) PROVE IInv'
  BY <1>1, <1>3 DEF DeleteAddon, IInv, TypeOK, Life
<1>4. ASSUME NEW u \in UIDs, Sync(u) PROVE IInv'
  BY <1>1, <1>4 DEF Sync, IInv, TypeOK
<1>5. ASSUME NEW u \in UIDs, Reconcile(u) PROVE IInv'
  <2>1. PICK c \in Conditions:
            /\ conditions' = [conditions EXCEPT ![u] = c]
            /\ recordAddonMetrics(u, c, FALSE)
    BY <1>5 DEF Reconcile
  <2>2. finalizer' \in SUBSET UIDs
    BY <1>5 DEF Reconcile, IInv, TypeOK
  <2> QED
    BY <1>5, <2>1, <2>2, RecordCorrect DEF Reconcile, IInv, TypeOK
<1>6. ASSUME NEW u \in UIDs, handleAddonCRDeletion(u) PROVE IInv'
  <2> DEFINE c == conditions[u] \ {"available"}
  <2>1. c \in Conditions
    BY DEF IInv, TypeOK, Conditions
  <2>2. life' \in [UIDs -> Life]
    BY <1>6 DEF handleAddonCRDeletion, IInv, TypeOK, Life
  <2> QED
    BY <1>6, <2>1, <2>2, RecordCorrect DEF handleAddonCRDeletion, IInv, TypeOK
<1>7. CASE Restart
  <2>1. TypeOK'
    BY <1>7, RecorderAssumption DEF Restart, IInv, TypeOK, Labels
  <2>2. GaugesMatchMap'
    BY <1>7, EmptyCorrect DEF Restart, GaugesMatchMap, CountedUnder
  <2>3. OneHealthSeries'
    BY <1>7 DEF Restart, OneHealthSeries
  <2> QED
    BY <2>1, <2>2, <2>3 DEF IInv
<1>8. CASE UNCHANGED vars
  BY <1>1, <1>8 DEF vars, recorder, IInv, TypeOK
<1> QED
  BY <1>2, <1>3, <1>4, <1>5, <1>6, <1>7, <1>8 DEF Next

-----------------------------------------------------------------------------
\* The Recorder's map, gauges and series have the types the model gives them.
THEOREM TypeCorrect == Spec => []TypeOK
<1>1. IInv => TypeOK
  BY DEF IInv
<1> QED
  BY <1>1, InitIInv, NextIInv, PTL DEF Spec

\* RecordAddonMetrics never lets a gauge of addon_operator_addons_count drift
\* from the map, whatever the order of passes, deletions and restarts.
THEOREM GaugesStayExact == Spec => []GaugesMatchMap
<1>1. IInv => GaugesMatchMap
  BY DEF IInv
<1> QED
  BY <1>1, InitIInv, NextIInv, PTL DEF Spec

\* recordAddonHealthInfo keeps one series per Addon name.
THEOREM HealthSeriesUnique == Spec => []OneHealthSeries
<1>1. IInv => OneHealthSeries
  BY DEF IInv
<1> QED
  BY <1>1, InitIInv, NextIInv, PTL DEF Spec
==============================================================================
