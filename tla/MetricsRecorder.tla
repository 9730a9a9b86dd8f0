--------------------------- MODULE MetricsRecorder ---------------------------
(***************************************************************************)
(* The metrics Recorder: the gauges addon_operator_addons_count, kept in   *)
(* step with an in-memory map from an Addon's UID to its conditions, and   *)
(* addon_operator_addon_health_info. The Addon controller's worker records *)
(* every pass, on the copy of the Addon its cache held when it began.      *)
(***************************************************************************)
EXTENDS Integers, FiniteSets

CONSTANTS
    Names,             \* names of Addon objects
    Incarnations,      \* an Addon is deleted and created again under its name
    NotRecorded,       \* no entry in conditionMap
    MaxRestarts        \* bound: restarts of the operator's process

UIDs == Names \X Incarnations

Conditions == SUBSET {"available", "paused"}

ASSUME RecorderAssumption ==
    /\ IsFiniteSet(UIDs)
    /\ \A c \in Conditions: NotRecorded # c
    /\ MaxRestarts \in Nat

VARIABLES
    life,              \* "unborn", "live", "deleting" or "gone", for each UID
    cache,             \* the same, as the informer's cache has it
    finalizer,         \* UIDs of Addons that got the cacheFinalizer
    conditions,        \* what is True of the Addon: "available", "paused"
    conditionMap,      \* Recorder.addonState.conditionMap
    addonsCount,       \* Recorder.addonsCount
    healthInfo,        \* the series of Recorder.addonHealthInfo
    restarts

vars == <<life, cache, finalizer, conditions, conditionMap, addonsCount, healthInfo, restarts>>

Life == {"unborn", "live", "deleting", "gone"}
Labels == {"available", "paused", "total"}
Versions == {"0.0.0", "1.0.0"}
Reasons == {"Unknown", "FullyReconciled", "Pending", "UnschedulablePods"}

TypeOK ==
    /\ life \in [UIDs -> Life]
    /\ cache \in [UIDs -> Life]
    /\ finalizer \in SUBSET UIDs
    /\ conditions \in [UIDs -> Conditions]
    /\ conditionMap \in [UIDs -> Conditions \cup {NotRecorded}]
    /\ addonsCount \in [Labels -> Int]
    /\ healthInfo \in SUBSET [name: Names, version: Versions, reason: Reasons, value: 0..2]
    /\ restarts \in 0..MaxRestarts

Init ==
    /\ life = [u \in UIDs |-> "unborn"]
    /\ cache = [u \in UIDs |-> "unborn"]
    /\ finalizer = {}
    /\ conditions = [u \in UIDs |-> {}]
    /\ conditionMap = [u \in UIDs |-> NotRecorded]
    /\ addonsCount = [l \in Labels |-> 0]
    /\ healthInfo = {}
    /\ restarts = 0

-----------------------------------------------------------------------------
(* The cluster.                                                            *)

recorder == <<conditionMap, addonsCount, healthInfo>>

CreateAddon(u) ==
    /\ life[u] = "unborn"
    /\ \A i \in Incarnations: life[<<u[1], i>>] \in {"unborn", "gone"}
    /\ life' = [life EXCEPT ![u] = "live"]
    /\ UNCHANGED <<cache, finalizer, conditions, recorder, restarts>>

\* Without the finalizer it is gone at once.
DeleteAddon(u) ==
    /\ life[u] = "live"
    /\ life' = [life EXCEPT ![u] = IF u \in finalizer THEN "deleting" ELSE "gone"]
    /\ UNCHANGED <<cache, finalizer, conditions, recorder, restarts>>

Sync(u) ==
    /\ cache[u] # life[u]
    /\ cache' = [cache EXCEPT ![u] = life[u]]
    /\ UNCHANGED <<life, finalizer, conditions, recorder, restarts>>

Restart ==
    /\ restarts < MaxRestarts
    /\ restarts' = restarts + 1
    /\ cache' = life
    /\ conditionMap' = [u \in UIDs |-> NotRecorded]
    /\ addonsCount' = [l \in Labels |-> 0]
    /\ healthInfo' = {}
    /\ UNCHANGED <<life, finalizer, conditions>>

-----------------------------------------------------------------------------
(* The Recorder.                                                           *)

One(b) == IF b THEN 1 ELSE 0

\* Mutant: the series of the Addon's earlier states stay.
recordWithoutDelete(name, version, reason, value) ==
    healthInfo' = healthInfo \cup
        {[name |-> name, version |-> version, reason |-> reason, value |-> value]}

\* Drop the Addon's series, whatever their labels, and set the new one.
recordAddonHealthInfo(name, version, reason, value) ==
    healthInfo' = {s \in healthInfo: s.name # name} \cup
        {[name |-> name, version |-> version, reason |-> reason, value |-> value]}

\* Mutant: a deleted Addon only leaves the total.
recordForgetsConditions(u, curr, deleting) ==
    LET old == conditionMap[u] IN
    IF old = NotRecorded
    THEN /\ conditionMap' = [conditionMap EXCEPT ![u] = curr]
         /\ addonsCount' = [l \in Labels |-> addonsCount[l] + One(l = "total" \/ l \in curr)]
    ELSE /\ conditionMap' = [conditionMap EXCEPT ![u] = IF deleting THEN NotRecorded ELSE curr]
         /\ addonsCount' = [l \in Labels |->
                IF l = "total" THEN addonsCount[l] - One(deleting)
                ELSE addonsCount[l] + One(l \in curr) - One(l \in old)]

\* An unknown UID is counted; a known one is moved from the labels it had to
\* those it has, and when it is being deleted, dropped from these and the map.
countAddon(u, curr, deleting) ==
    LET old == conditionMap[u] IN
    IF old = NotRecorded
    THEN /\ conditionMap' = [conditionMap EXCEPT ![u] = curr]
         /\ addonsCount' = [l \in Labels |-> addonsCount[l] + One(l = "total" \/ l \in curr)]
    ELSE /\ conditionMap' = [conditionMap EXCEPT ![u] = IF deleting THEN NotRecorded ELSE curr]
         /\ addonsCount' = [l \in Labels |->
                IF l = "total" THEN addonsCount[l] - One(deleting)
                ELSE addonsCount[l] + One(l \in curr) - One(l \in old)
                                    - One(deleting /\ l \in curr)]

\* Mutant: without an Available condition there is no reason.
HealthUnset(curr) ==
    IF "available" \in curr THEN {<<1, "FullyReconciled">>}
    ELSE {<<2, "">>, <<0, "Pending">>, <<0, "UnschedulablePods">>}

\* The value and reason the Available condition gives: it may be missing, and
\* an unavailable Addon with unschedulable pods has that for a reason.
Health(curr) ==
    IF "available" \in curr THEN {<<1, "FullyReconciled">>}
    ELSE {<<2, "Unknown">>, <<0, "Pending">>, <<0, "UnschedulablePods">>}

RecordAddonMetrics(u, curr, deleting) ==
    /\ countAddon(u, curr, deleting)
    /\ \E h \in Health(curr), v \in Versions: recordAddonHealthInfo(u[1], v, h[2], h[1])

-----------------------------------------------------------------------------
(* The worker's passes.                                                    *)

\* recordAddonMetrics gives up when the pods of an unavailable Addon cannot be listed.
recordAddonMetrics(u, curr, deleting) ==
    \/ RecordAddonMetrics(u, curr, deleting)
    \/ "available" \notin curr /\ UNCHANGED recorder

\* A pass over an Addon that is not deleted leaves it in any condition; unless
\* it is paused or fails, it gives it the finalizer.
Reconcile(u) ==
    /\ cache[u] = "live"
    /\ \E c \in Conditions:
           /\ conditions' = [conditions EXCEPT ![u] = c]
           /\ \/ "paused" \notin c /\ life[u] = "live" /\ finalizer' = finalizer \cup {u}
              \/ UNCHANGED finalizer
           /\ recordAddonMetrics(u, c, FALSE)
    /\ UNCHANGED <<life, cache, restarts>>

\* A pass over a deleted one: Available is False, Paused stays. It waits for
\* the ClusterObjectTemplate, fails, or removes the finalizer.
handleAddonCRDeletion(u) ==
    /\ cache[u] = "deleting"
    /\ \/ life' = [life EXCEPT ![u] = "gone"]
       \/ UNCHANGED life
    /\ LET c == conditions[u] \ {"available"}
       IN  /\ conditions' = [conditions EXCEPT ![u] = c]
           /\ recordAddonMetrics(u, c, TRUE)
    /\ UNCHANGED <<cache, finalizer, restarts>>

Next ==
    \/ \E u \in UIDs:
          \/ CreateAddon(u)
          \/ DeleteAddon(u)
          \/ Sync(u)
          \/ Reconcile(u)
          \/ handleAddonCRDeletion(u)
    \/ Restart

Spec == Init /\ [][Next]_vars

-----------------------------------------------------------------------------
(* Properties.                                                             *)

\* The UIDs counted under a label, as conditionMap has it.
CountedUnder(l) ==
    {u \in UIDs: conditionMap[u] # NotRecorded /\ (l = "total" \/ l \in conditionMap[u])}

\* Each gauge is the number of map entries under its label, so the gauges
\* never drift from the map and never turn negative.
GaugesMatchMap ==
    \A l \in Labels: addonsCount[l] = Cardinality(CountedUnder(l))

\* An Addon has at most one health series: its earlier state is not reported
\* beside the new one.
OneHealthSeries ==
    \A s, t \in healthInfo: s.name = t.name => s = t

\* When no Addon is left whose deletion was seen through, and the cache knows,
\* the total is zero: it is the "Total number of Addon installations"
\* (recorder.go:68). The code does not keep it: a second pass over an Addon that is being
\* deleted counts it again. No run checks it.
NoAddonNoTotal ==
    (\A u \in UIDs: /\ cache[u] = life[u]
                    /\ life[u] = "unborn" \/ (life[u] = "gone" /\ u \in finalizer))
        => addonsCount["total"] = 0
==============================================================================
