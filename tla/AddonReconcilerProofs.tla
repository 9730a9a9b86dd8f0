----------------------- MODULE AddonReconcilerProofs -----------------------
(***************************************************************************)
(* For any versions and CSVs, any number of edits and of troubles, with    *)
(* and without the feature toggle: AddonReconciler implements AddonLife,   *)
(* leaves nothing behind, and saves upgrade conditions that are exclusive, *)
(* announced and concluded.                                                *)
(***************************************************************************)
EXTENDS AddonReconciler, TLAPS

Deleting == {"terminate", "deleteCOT", "removeFinalizer"}
Owning == {"package", "olm", "monitoring"}
Unreported == {"finalizer", "package", "olm"} \cup Deleting

\* A current copy is the object, as far as the pass has not changed it; a copy that shows
\* a held object is not outlived by the finalizer, since a pass that removes it has seen
\* the deletion, and so has the cache that pass read from.
Copies ==
    /\ "cache" \in current => cache = obj
    /\ obj.exists \/ obj = NoAddon
    /\ pc \notin {"idle", "status"} /\ "snap" \in current =>
           /\ snap.exists = obj.exists
           /\ snap.deleting = obj.deleting
           /\ snap.finalizer = obj.finalizer
           /\ snap.version = obj.version
    /\ pc \in Deleting => snap.deleting
    /\ pc = "finalizer" => snap.exists /\ ~snap.deleting
    /\ cache.exists /\ cache.finalizer /\ ~cache.deleting => obj.finalizer
    /\ pc \in Deleting /\ "snap" \in current => cache.deleting

\* Whatever needs cleaning up is held by the finalizer.
Resources ==
    /\ pc \in Owning => obj.finalizer
    /\ pc = "removeFinalizer" => cot = "none"
    /\ cot # "none" \/ mapped => obj.finalizer

Fresh == "snap" \in current /\ obj.exists

Exclusive(st) == ~(st.started /\ st.succeeded)

\* No upgrade goes unnoticed by the pass.
NoJump ==
    \/ 0 \in {snap.version, obj.status.observedVersion}
    \/ snap.version = obj.status.observedVersion

\* How the status in hand may differ from the saved one.
Reports ==
    /\ Exclusive(obj.status) /\ Exclusive(cache.status) /\ Exclusive(snap.status)
    /\ Fresh /\ pc \in Unreported =>
           /\ snap.status.started = obj.status.started
           /\ snap.status.succeeded = obj.status.succeeded
           /\ snap.status.observedVersion = obj.status.observedVersion
           /\ snap.status.lastCSV = obj.status.lastCSV
    /\ Fresh /\ pc \in {"monitoring", "status"} =>
           \/ /\ snap.status.started = obj.status.started
              /\ snap.status.succeeded = obj.status.succeeded
           \/ snap.status.started
           \/ /\ obj.status.started /\ snap.status.succeeded
              /\ snap.status.lastCSV \notin {0, obj.status.lastCSV}
    /\ Fresh /\ pc \in Owning \cup {"finalizer"} => NoJump
    /\ Fresh /\ pc = "status" =>
           NoJump \/ snap.status.started \/ snap.status.paused \/ obj.deleting

\* The conjuncts of TypeOK, by the kind of value.
Records ==
    /\ obj \in Addon /\ cache \in Addon /\ snap \in Addon
    /\ obj.deleting => obj.finalizer
    /\ obj.finalizer => obj.exists

Flags == globalPause \in BOOLEAN /\ mapped \in BOOLEAN /\ queue \in BOOLEAN /\ again \in BOOLEAN

Places ==
    /\ cluster \in Cluster
    /\ cot \in {"none", "unready", "available", "deleting"}
    /\ current \subseteq {"cache", "snap"}
    /\ pc \in PC
    /\ edits \in 0..MaxEdits /\ troubles \in 0..MaxTroubles

IInv == Records /\ Flags /\ Places /\ Copies /\ Resources /\ Reports

-----------------------------------------------------------------------------
USE AddonReconcilerAssumption DEF objVars, passVars, worldVars, bounds

\* TypeOK is the conjunction of its three kinds.
LEMMA Kinds == TypeOK <=> Records /\ Flags /\ Places
  BY DEF TypeOK, Records, Flags, Places

\* Every report on a status yields a status.
LEMMA StatusTypes ==
    ASSUME NEW st \in Status
    PROVE  /\ reportAddonPauseStatus(st) \in Status
           /\ removeAddonPauseCondition(st) \in Status
           /\ reportAddonUpgradeStarted(st) \in Status
           /\ reportAddonUpgradeSucceeded(st) \in Status
           /\ reportInstalledConditionFalse(st) \in Status
           /\ reportUninstalledCondition(st) \in Status
           /\ reportInstalledCondition(st) \in Status
           /\ reportPendingStatus(st) \in Status
           /\ reportTerminationStatus(st) \in Status
           /\ \A c \in 0..MaxCSV: [st EXCEPT !.lastCSV = c] \in Status
           /\ \A server \in Status: Decode(st, server) \in Status
  BY DEF reportAddonPauseStatus, removeAddonPauseCondition, reportAddonUpgradeStarted,
         reportAddonUpgradeSucceeded, reportInstalledConditionFalse, reportUninstalledCondition,
         reportInstalledCondition, reportPendingStatus, reportTerminationStatus, Decode, Status, Ternary

\* An update of one field of an Addon yields an Addon.
LEMMA AddonTypes ==
    ASSUME NEW a \in Addon, NEW st \in Status
    PROVE  /\ a.status \in Status
           /\ [a EXCEPT !.status = st] \in Addon
           /\ [a EXCEPT !.finalizer = TRUE] \in Addon
           /\ [a EXCEPT !.deleting = TRUE] \in Addon
           /\ [a EXCEPT !.paused = ~@] \in Addon
           /\ [a EXCEPT !.package = ~@] \in Addon
           /\ \A v \in 0..MaxVersion: [a EXCEPT !.version = v] \in Addon
  BY DEF Addon

\* So do the two reports that copy .spec.version.
LEMMA VersionTypes ==
    ASSUME NEW a \in Addon
    PROVE  reportReadinessStatus(a) \in Status /\ reportObservedVersion(a) \in Status
<1>1. a.status \in Status /\ a.version \in 0..MaxVersion
  BY DEF Addon
<1>. QED
  BY <1>1 DEF Status, Ternary, reportReadinessStatus, reportObservedVersion

\* a and b agree on all that Reports speaks of, but the pause.
Same(a, b) ==
    /\ a.started = b.started /\ a.succeeded = b.succeeded
    /\ a.observedVersion = b.observedVersion /\ a.lastCSV = b.lastCSV

\* Most reports leave the upgrade alone.
LEMMA SameReports ==
    ASSUME NEW st \in Status
    PROVE  /\ Same(reportAddonPauseStatus(st), st) /\ reportAddonPauseStatus(st).paused
           /\ Same(removeAddonPauseCondition(st), st)
           /\ Same(reportInstalledConditionFalse(st), st)
           /\ Same(reportUninstalledCondition(st), st)
           /\ Same(reportInstalledCondition(st), st)
           /\ Same(reportPendingStatus(st), st)
           /\ Same(reportTerminationStatus(st), st)
  BY DEF reportAddonPauseStatus, removeAddonPauseCondition, reportInstalledConditionFalse,
         reportUninstalledCondition, reportInstalledCondition, reportPendingStatus,
         reportTerminationStatus, Same, Status

\* The two reports of an upgrade exclude each other.
LEMMA UpgradeReports ==
    ASSUME NEW st \in Status
    PROVE  /\ reportAddonUpgradeStarted(st).started /\ ~reportAddonUpgradeStarted(st).succeeded
           /\ ~reportAddonUpgradeSucceeded(st).started /\ reportAddonUpgradeSucceeded(st).succeeded
  BY DEF reportAddonUpgradeStarted, reportAddonUpgradeSucceeded, Status

\* A step that changes only the status in hand keeps the type of the copy.
LEMMA PassTypes ==
    ASSUME snap \in Addon, NEW st \in Status, snap' = [snap EXCEPT !.status = st]
    PROVE  snap' \in Addon
  BY AddonTypes

\* The values of absent objects are typed.
LEMMA Empty == NoStatus \in Status /\ NoAddon \in Addon
  BY DEF NoStatus, Status, NoAddon, Addon, Ternary

\* The initial states satisfy the inductive invariant.
LEMMA Initially == Init => IInv
<1>. SUFFICES ASSUME Init PROVE IInv
  OBVIOUS
<1>1. Records /\ Flags
  BY Empty DEF Init, Records, Flags, NoAddon
<1>2. Places
  BY DEF Init, Places, Cluster, Phases, PC
<1>3. Copies /\ Resources
  BY DEF Init, Copies, Resources, Deleting, Owning, NoAddon
<1>4. Reports
  BY DEF Init, Reports, Exclusive, Fresh, NoAddon, NoStatus, Owning, Unreported, Deleting
<1>. QED
  BY <1>1, <1>2, <1>3, <1>4 DEF IInv

\* Every action keeps the inductive invariant, conjunct by conjunct.
LEMMA Step == IInv /\ [Next]_vars => IInv'
<1>. SUFFICES ASSUME IInv, [Next]_vars PROVE IInv'
  OBVIOUS
<1>. USE DEF IInv
<1>1. CASE reconcile
  <2>1. Records'
    <3>1. PICK st \in Status: snap' = [cache EXCEPT !.status = st]
      <4>1. cache.status \in Status
        BY AddonTypes, Empty DEF Records
      <4>. DEFINE unpaused == removeAddonPauseCondition(cache.status)
      <4>2. unpaused \in Status
        BY <4>1, StatusTypes
      <4>3. /\ reportAddonPauseStatus(cache.status) \in Status
            /\ reportAddonUpgradeStarted(unpaused) \in Status
            /\ reportInstalledConditionFalse(unpaused) \in Status
        BY <4>1, <4>2, StatusTypes
      <4>. QED
        BY <1>1, <4>1, <4>3 DEF reconcile
    <3>2. snap' \in Addon
      BY <3>1, AddonTypes DEF Records
    <3>. QED
      BY <1>1, <3>2 DEF reconcile, Records
  <2>2. Flags'
    BY <1>1 DEF reconcile, Flags
  <2>3. Places'
    BY <1>1 DEF reconcile, Places, PC
  <2>4. Copies'
    BY <1>1 DEF reconcile, removeAddonPauseCondition, reportAddonPauseStatus,
       reportAddonUpgradeStarted, reportInstalledConditionFalse, addonIsBeingUpgraded, Records,
       Addon, Copies, Deleting
  <2>5. Resources'
    BY <1>1 DEF reconcile, removeAddonPauseCondition, reportAddonPauseStatus,
       reportAddonUpgradeStarted, reportInstalledConditionFalse, addonIsBeingUpgraded, Records,
       Addon, Copies, Resources, Owning, Deleting
  <2>6. Reports'
    <3>. DEFINE st == cache.status
                unpaused == removeAddonPauseCondition(st)
    <3>1. st \in Status /\ unpaused \in Status /\ Same(unpaused, st)
      BY AddonTypes, StatusTypes, SameReports, Empty DEF Records
    <3>2. /\ UNCHANGED <<obj, cache>>
          /\ "snap" \in current' => cache = obj
      BY <1>1 DEF reconcile, Copies
    <3>3. CASE pc' = "terminate" /\ snap' = [cache EXCEPT !.status = st]
      <4>1. snap'.status = st
        BY <3>3 DEF Records, Addon
      <4>. QED
        BY <3>2, <3>3, <4>1 DEF Reports, Exclusive, Fresh, NoJump, Owning, Deleting, Unreported
    <3>4. CASE pc' = "status" /\ snap' = [cache EXCEPT !.status = reportAddonPauseStatus(st)]
      <4>1. snap'.status = reportAddonPauseStatus(st)
        BY <3>4 DEF Records, Addon
      <4>2. Same(snap'.status, st) /\ snap'.status.paused
        BY <3>1, <4>1, SameReports
      <4>. QED
        BY <3>2, <3>4, <4>2 DEF Reports, Exclusive, Fresh, NoJump, Owning, Deleting, Unreported,
           Same
    <3>5. CASE pc' = "status" /\ snap' = [cache EXCEPT !.status = reportAddonUpgradeStarted(unpaused)]
      <4>1. snap'.status = reportAddonUpgradeStarted(unpaused)
        BY <3>5 DEF Records, Addon
      <4>2. snap'.status.started /\ ~snap'.status.succeeded
        BY <3>1, <4>1, UpgradeReports
      <4>. QED
        BY <3>2, <3>5, <4>2 DEF Reports, Exclusive, Fresh, NoJump, Owning, Deleting, Unreported
    <3>6. CASE /\ pc' \in {"package", "finalizer"} /\ ~addonIsBeingUpgraded(cache)
               /\ snap' = [cache EXCEPT !.status = reportInstalledConditionFalse(unpaused)]
      <4>1. snap'.status = reportInstalledConditionFalse(unpaused) /\ snap'.version = cache.version
        BY <3>6 DEF Records, Addon
      <4>2. Same(snap'.status, st)
        BY <3>1, <4>1, SameReports DEF Same
      <4>. QED
        BY <3>2, <3>6, <4>1, <4>2 DEF addonIsBeingUpgraded, Reports, Exclusive, Fresh, NoJump,
           Owning, Deleting, Unreported, Same
    <3>. QED
      BY <1>1, <3>3, <3>4, <3>5, <3>6 DEF reconcile
  <2>. QED
    BY <2>1, <2>2, <2>3, <2>4, <2>5, <2>6
<1>2. CASE NotFound
  <2>1. Records'
    BY <1>2, StatusTypes, AddonTypes, VersionTypes, Empty DEF NotFound, Records
  <2>2. Flags'
    BY <1>2 DEF NotFound, Flags
  <2>3. Places'
    BY <1>2 DEF NotFound, Places, PC
  <2>4. Copies'
    BY <1>2 DEF NotFound, Records, Addon, Copies, Deleting
  <2>5. Resources'
    BY <1>2 DEF NotFound, Records, Addon, Copies, Resources, Owning, Deleting
  <2>6. Reports'
    BY <1>2 DEF NotFound, Records, Addon, Copies, Reports, Exclusive, Fresh, NoJump, Owning,
       Deleting, Unreported
  <2>. QED
    BY <2>1, <2>2, <2>3, <2>4, <2>5, <2>6
<1>3. CASE addFinalizer
  <2>1. Records'
    <3>1. CASE "snap" \in current
      <4>1. obj' \in Addon /\ obj' = [obj EXCEPT !.finalizer = TRUE]
        BY <1>3, <3>1, AddonTypes, Empty DEF addFinalizer, Records
      <4>2. Decode(snap.status, obj.status) \in Status
        BY StatusTypes, AddonTypes, Empty DEF Records
      <4>3. snap' \in Addon
        BY <1>3, <3>1, <4>1, <4>2, AddonTypes DEF addFinalizer
      <4>4. obj.exists /\ obj'.exists = obj.exists /\ obj'.finalizer
        BY <1>3, <3>1, <4>1 DEF addFinalizer, Records, Copies, Addon
      <4>. QED
        BY <1>3, <3>1, <4>1, <4>3, <4>4 DEF addFinalizer, Records
    <3>2. CASE "snap" \notin current
      <4>1. snap' \in Addon
        BY <1>3, <3>2, PassTypes, AddonTypes, Empty DEF addFinalizer, Return, Continue, Records
      <4>. QED
        BY <1>3, <3>2, <4>1 DEF addFinalizer, Records
    <3>. QED
      BY <3>1, <3>2
  <2>2. Flags'
    BY <1>3 DEF addFinalizer, Return, Continue, Flags
  <2>3. Places'
    BY <1>3 DEF addFinalizer, Return, Continue, Places, PC
  <2>4. Copies'
    BY <1>3 DEF addFinalizer, Decode, Return, Continue, Records, Addon, Copies, Deleting
  <2>5. Resources'
    BY <1>3 DEF addFinalizer, Decode, Return, Continue, Records, Addon, Copies, Resources,
       Owning, Deleting
  <2>6. Reports'
    <3>1. CASE "snap" \in current
      <4>. DEFINE st == Decode(snap.status, obj.status)
      <4>1. obj' = [obj EXCEPT !.finalizer = TRUE] /\ snap' = [obj' EXCEPT !.status = st] /\ pc' = "package" /\ cache' = cache
        BY <1>3, <3>1 DEF addFinalizer
      <4>2. obj'.status = obj.status /\ obj'.exists = obj.exists /\ obj'.version = obj.version
        BY <4>1 DEF Records, Addon
      <4>3. snap'.status = st /\ snap'.version = obj'.version
        BY <4>1 DEF Records, Addon
      <4>4. obj.exists /\ Same(snap.status, obj.status) /\ NoJump /\ snap.version = obj.version
        BY <1>3, <3>1 DEF addFinalizer, Copies, Reports, Fresh, Same, Unreported
      <4>5. Same(st, obj.status)
        BY <4>4, AddonTypes, Empty DEF Decode, Same, Records, Status
      <4>. QED
        BY <4>1, <4>2, <4>3, <4>4, <4>5 DEF Reports, Exclusive, Fresh, NoJump, Owning, Deleting,
           Unreported, Same
    <3>2. CASE "snap" \notin current
      <4>1. snap'.status = snap.status
        BY <1>3, <3>2 DEF addFinalizer, Return, Continue, Records, Addon
      <4>. QED
        BY <1>3, <3>2, <4>1 DEF addFinalizer, Return, Continue, Reports, Exclusive, Fresh,
           NoJump, Owning, Deleting, Unreported
    <3>. QED
      BY <3>1, <3>2
  <2>. QED
    BY <2>1, <2>2, <2>3, <2>4, <2>5, <2>6
<1>4. CASE PackageOperatorReconciler
  <2>1. Records'
    <3>1. PICK st \in {snap.status, reportPendingStatus(snap.status)}: snap' = [snap EXCEPT !.status = st]
      BY <1>4 DEF PackageOperatorReconciler, Continue
    <3>2. snap' \in Addon
      BY <3>1, PassTypes, AddonTypes, StatusTypes, Empty DEF Records
    <3>. QED
      BY <1>4, <3>2 DEF PackageOperatorReconciler, Records
  <2>2. Flags'
    BY <1>4 DEF PackageOperatorReconciler, Continue, Flags
  <2>3. Places'
    BY <1>4 DEF PackageOperatorReconciler, Continue, Places, PC
  <2>4. Copies'
    BY <1>4 DEF PackageOperatorReconciler, Continue, reportPendingStatus, Records, Addon, Status,
       Copies, Deleting
  <2>5. Resources'
    BY <1>4 DEF PackageOperatorReconciler, Continue, reportPendingStatus, Records, Addon, Status,
       Copies, Resources, Owning, Deleting
  <2>6. Reports'
    BY <1>4 DEF PackageOperatorReconciler, Continue, reportPendingStatus, Records, Addon, Status,
       Copies, Reports, Exclusive, Fresh, NoJump, Owning, Deleting, Unreported
  <2>. QED
    BY <2>1, <2>2, <2>3, <2>4, <2>5, <2>6
<1>5. CASE olmReconciler
  <2>1. Records'
    <3>. DEFINE installed == reportInstalledCondition(snap.status)
                 concluded == IF addonUpgradeConcluded(installed)
                              THEN reportAddonUpgradeSucceeded(installed) ELSE installed
    <3>1. snap.status \in Status /\ reportPendingStatus(snap.status) \in Status
      BY AddonTypes, StatusTypes, Empty DEF Records
    <3>2. /\ reportUninstalledCondition(reportPendingStatus(snap.status)) \in Status
          /\ installed \in Status
      BY <3>1, StatusTypes
    <3>3. concluded \in Status
      BY <3>2, StatusTypes
    <3>4. cluster.csv \in 0..MaxCSV
      BY DEF Places, Cluster
    <3>5. [concluded EXCEPT !.lastCSV = cluster.csv] \in Status
      BY <3>3, <3>4, StatusTypes
    <3>. HIDE DEF installed, concluded
    <3>6. snap' = [snap EXCEPT !.status = snap.status]
          \/ snap' = [snap EXCEPT !.status = reportPendingStatus(snap.status)]
          \/ snap' = [snap EXCEPT !.status = reportUninstalledCondition(reportPendingStatus(snap.status))]
          \/ snap' = [snap EXCEPT !.status = [concluded EXCEPT !.lastCSV = cluster.csv]]
      BY <1>5 DEF olmReconciler, observeOperatorResource, handleMissingCSV, handleSucceededCSV,
         Return, Continue, installed, concluded
    <3>7. snap' \in Addon
      BY <3>1, <3>2, <3>5, <3>6, PassTypes DEF Records
    <3>. QED
      BY <1>5, <3>7 DEF olmReconciler, Records
  <2>2. Flags'
    BY <1>5 DEF olmReconciler, observeOperatorResource, handleMissingCSV, handleSucceededCSV,
       Return, Continue, Flags
  <2>3. Places'
    BY <1>5 DEF olmReconciler, observeOperatorResource, handleMissingCSV, handleSucceededCSV,
       Return, Continue, Places, PC
  <2>4. Copies'
    BY <1>5 DEF olmReconciler, observeOperatorResource, handleMissingCSV, handleSucceededCSV,
       addonUpgradeConcluded, reportAddonUpgradeSucceeded, reportInstalledCondition,
       reportUninstalledCondition, reportPendingStatus, Return, Continue, Records, Addon, Copies,
       Deleting
  <2>5. Resources'
    BY <1>5 DEF olmReconciler, observeOperatorResource, handleMissingCSV, handleSucceededCSV,
       addonUpgradeConcluded, reportAddonUpgradeSucceeded, reportInstalledCondition,
       reportUninstalledCondition, reportPendingStatus, Return, Continue, Records, Addon, Copies,
       Resources, Owning, Deleting
  <2>6. Reports'
    <3>. DEFINE installed == reportInstalledCondition(snap.status)
                concluded == IF addonUpgradeConcluded(installed)
                             THEN reportAddonUpgradeSucceeded(installed) ELSE installed
                available == [concluded EXCEPT !.lastCSV = cluster.csv]
    <3>1. snap.status \in Status /\ reportPendingStatus(snap.status) \in Status /\ installed \in Status
      BY AddonTypes, StatusTypes, Empty DEF Records
    <3>2. concluded \in Status
      BY <3>1, StatusTypes
    <3>3. /\ UNCHANGED <<obj, cache, current>> /\ pc = "olm"
          /\ \/ /\ pc' = "status"
                /\ \E st \in {snap.status, reportPendingStatus(snap.status),
                             reportUninstalledCondition(reportPendingStatus(snap.status))}:
                       snap' = [snap EXCEPT !.status = st]
             \/ /\ pc' = "monitoring"
                /\ snap' = [snap EXCEPT !.status = available]
      BY <1>5 DEF olmReconciler, observeOperatorResource, handleMissingCSV, handleSucceededCSV,
         Return, Continue
    <3>4. CASE pc' = "status"
      <4>1. Same(snap'.status, snap.status) /\ snap'.version = snap.version
        BY <3>1, <3>3, <3>4, SameReports DEF Same, Records, Addon
      <4>. QED
        BY <3>3, <3>4, <4>1 DEF Reports, Exclusive, Fresh, NoJump, Owning, Deleting, Unreported,
           Same
    <3>5. CASE pc' = "monitoring"
      <4>1. snap'.status = available /\ snap'.version = snap.version
        BY <3>3, <3>5 DEF Records, Addon
      <4>2. /\ snap'.status.started = concluded.started /\ snap'.status.succeeded = concluded.succeeded
            /\ snap'.status.lastCSV = cluster.csv
        BY <3>2, <4>1 DEF Status
      <4>3. Same(installed, snap.status)
        BY <3>1, SameReports
      <4>4. CASE addonUpgradeConcluded(installed)
        <5>1. concluded = reportAddonUpgradeSucceeded(installed)
          BY <4>4
        <5>2. ~concluded.started /\ concluded.succeeded
          BY <3>1, <5>1, UpgradeReports
        <5>3. snap.status.started /\ cluster.csv \notin {0, snap.status.lastCSV}
          BY <4>3, <4>4 DEF addonUpgradeConcluded, Same, Places, Cluster
        <5>. HIDE DEF concluded
        <5>. QED
          BY <3>3, <3>5, <4>1, <4>2, <5>2, <5>3 DEF Reports, Exclusive, Fresh, NoJump, Owning,
             Deleting, Unreported
      <4>5. CASE ~addonUpgradeConcluded(installed)
        <5>1. concluded = installed
          BY <4>5
        <5>2. concluded.started = snap.status.started /\ concluded.succeeded = snap.status.succeeded
          BY <4>3, <5>1 DEF Same
        <5>. HIDE DEF concluded
        <5>. QED
          BY <3>3, <3>5, <4>1, <4>2, <5>2 DEF Reports, Exclusive, Fresh, NoJump, Owning,
             Deleting, Unreported
      <4>. QED
        BY <4>4, <4>5
    <3>. QED
      BY <3>3, <3>4, <3>5
  <2>. QED
    BY <2>1, <2>2, <2>3, <2>4, <2>5, <2>6
<1>6. CASE monitoringReconcilers
  <2>1. Records'
    <3>1. PICK st \in {snap.status, reportPendingStatus(snap.status), reportReadinessStatus(snap)}:
              snap' = [snap EXCEPT !.status = st]
      BY <1>6 DEF monitoringReconcilers, setAddonCRStatus, Return, Continue
    <3>2. snap' \in Addon
      BY <3>1, PassTypes, AddonTypes, VersionTypes, StatusTypes, Empty DEF Records
    <3>. QED
      BY <1>6, <3>2 DEF monitoringReconcilers, Records
  <2>2. Flags'
    BY <1>6 DEF monitoringReconcilers, setAddonCRStatus, Return, Continue, Flags
  <2>3. Places'
    BY <1>6 DEF monitoringReconcilers, setAddonCRStatus, Return, Continue, Places, PC
  <2>4. Copies'
    BY <1>6 DEF monitoringReconcilers, setAddonCRStatus, IsReconciliationSuccessful,
       reportReadinessStatus, reportPendingStatus, Return, Continue, Records, Addon, Copies,
       Deleting
  <2>5. Resources'
    BY <1>6 DEF monitoringReconcilers, setAddonCRStatus, IsReconciliationSuccessful,
       reportReadinessStatus, reportPendingStatus, Return, Continue, Records, Addon, Copies,
       Resources, Owning, Deleting
  <2>6. Reports'
    <3>1. UNCHANGED <<obj, cache, current>> /\ pc = "monitoring" /\ pc' = "status"
      BY <1>6 DEF monitoringReconcilers, setAddonCRStatus, Return, Continue
    <3>0. PICK st \in {snap.status, reportPendingStatus(snap.status), reportReadinessStatus(snap)}:
              snap' = [snap EXCEPT !.status = st]
      BY <1>6 DEF monitoringReconcilers, setAddonCRStatus, Return, Continue
    <3>2. snap.status \in Status
      BY AddonTypes, Empty DEF Records
    <3>3. /\ snap'.status.started = snap.status.started
          /\ snap'.status.succeeded = snap.status.succeeded
          /\ snap'.status.lastCSV = snap.status.lastCSV
          /\ snap'.version = snap.version
      BY <3>0, <3>2 DEF reportPendingStatus, reportReadinessStatus, Records, Addon, Status
    <3>. QED
      BY <3>1, <3>3 DEF Reports, Exclusive, Fresh, NoJump, Owning, Deleting, Unreported
  <2>. QED
    BY <2>1, <2>2, <2>3, <2>4, <2>5, <2>6
<1>7. CASE reportTermination
  <2>1. Records'
    <3>. DEFINE st == reportTerminationStatus(snap.status)
    <3>1. st \in Status
      BY AddonTypes, StatusTypes, Empty DEF Records
    <3>2. snap' \in Addon
      BY <1>7, <3>1, PassTypes DEF reportTermination, Return, Continue, Records
    <3>3. obj' \in Addon /\ obj'.exists = obj.exists /\ obj'.deleting = obj.deleting /\ obj'.finalizer = obj.finalizer
      BY <1>7, <3>1, AddonTypes DEF reportTermination, SaveStatus, Records, Addon
    <3>. QED
      BY <1>7, <3>2, <3>3 DEF reportTermination, Records
  <2>2. Flags'
    BY <1>7 DEF reportTermination, SaveStatus, Saves, Return, Continue, Flags
  <2>3. Places'
    BY <1>7 DEF reportTermination, SaveStatus, Saves, Return, Continue, Places, PC
  <2>4. Copies'
    BY <1>7 DEF reportTermination, SaveStatus, Saves, reportTerminationStatus, Return, Continue,
       Records, Addon, Status, Copies, Deleting
  <2>5. Resources'
    BY <1>7 DEF reportTermination, SaveStatus, Saves, reportTerminationStatus, Return, Continue,
       Records, Addon, Status, Copies, Resources, Owning, Deleting
  <2>6. Reports'
    BY <1>7 DEF reportTermination, SaveStatus, Saves, reportTerminationStatus, Return, Continue,
       Records, Addon, Status, Copies, Reports, Exclusive, Fresh, NoJump, Owning, Deleting,
       Unreported
  <2>. QED
    BY <2>1, <2>2, <2>3, <2>4, <2>5, <2>6
<1>8. CASE ensureClusterPackageDeletion
  <2>1. Records'
    BY <1>8, StatusTypes, AddonTypes, VersionTypes, Empty DEF ensureClusterPackageDeletion,
       Return, Continue, Records
  <2>2. Flags'
    BY <1>8 DEF ensureClusterPackageDeletion, Return, Continue, Flags
  <2>3. Places'
    BY <1>8 DEF ensureClusterPackageDeletion, Return, Continue, Places, PC
  <2>4. Copies'
    BY <1>8 DEF ensureClusterPackageDeletion, Return, Continue, Records, Addon, Copies, Deleting
  <2>5. Resources'
    BY <1>8 DEF ensureClusterPackageDeletion, Return, Continue, Records, Addon, Copies,
       Resources, Owning, Deleting
  <2>6. Reports'
    BY <1>8 DEF ensureClusterPackageDeletion, Return, Continue, Records, Addon, Copies, Reports,
       Exclusive, Fresh, NoJump, Owning, Deleting, Unreported
  <2>. QED
    BY <2>1, <2>2, <2>3, <2>4, <2>5, <2>6
<1>9. CASE handleAddonCRDeletion
  <2>1. Records'
    <3>1. snap' \in Addon
      BY <1>9, PassTypes, AddonTypes, Empty DEF handleAddonCRDeletion, Return, Continue, Records
    <3>. QED
      BY <1>9, <3>1, Empty DEF handleAddonCRDeletion, Records, NoAddon
  <2>2. Flags'
    BY <1>9 DEF handleAddonCRDeletion, Return, Continue, Flags
  <2>3. Places'
    BY <1>9 DEF handleAddonCRDeletion, Return, Continue, Places, PC
  <2>4. Copies'
    BY <1>9 DEF handleAddonCRDeletion, Return, Continue, Records, Addon, NoAddon, NoStatus,
       Copies, Deleting
  <2>5. Resources'
    BY <1>9 DEF handleAddonCRDeletion, Return, Continue, Records, Addon, NoAddon, NoStatus,
       Copies, Resources, Owning, Deleting
  <2>6. Reports'
    BY <1>9 DEF handleAddonCRDeletion, Return, Continue, Records, Addon, NoAddon, NoStatus,
       Copies, Reports, Exclusive, Fresh, NoJump, Owning, Deleting, Unreported
  <2>. QED
    BY <2>1, <2>2, <2>3, <2>4, <2>5, <2>6
<1>10. CASE updateStatus
  <2>1. Records'
    <3>1. reportObservedVersion(snap) \in Status
      BY VersionTypes DEF Records
    <3>2. obj' \in Addon /\ obj'.exists = obj.exists /\ obj'.deleting = obj.deleting /\ obj'.finalizer = obj.finalizer
      BY <1>10, <3>1, AddonTypes DEF updateStatus, SaveStatus, Records, Addon
    <3>. QED
      BY <1>10, <3>2, Empty DEF updateStatus, Records
  <2>2. Flags'
    BY <1>10 DEF updateStatus, SaveStatus, Saves, Flags
  <2>3. Places'
    BY <1>10 DEF updateStatus, SaveStatus, Saves, Places, PC
  <2>4. Copies'
    BY <1>10 DEF updateStatus, SaveStatus, Saves, reportObservedVersion, Records, Addon, Status,
       NoAddon, NoStatus, Copies, Deleting
  <2>5. Resources'
    BY <1>10 DEF updateStatus, SaveStatus, Saves, reportObservedVersion, Records, Addon, Status,
       NoAddon, NoStatus, Copies, Resources, Owning, Deleting
  <2>6. Reports'
    BY <1>10 DEF updateStatus, SaveStatus, Saves, reportObservedVersion, Records, Addon, Status,
       NoAddon, NoStatus, Copies, Reports, Exclusive, Fresh, NoJump, Owning, Deleting, Unreported
  <2>. QED
    BY <2>1, <2>2, <2>3, <2>4, <2>5, <2>6
<1>11. CASE CreateAddon
  <2>1. Records'
    <3>1. obj' \in Addon /\ obj'.exists /\ ~obj'.deleting
      BY <1>11, Empty DEF CreateAddon, UserWrites, Addon, NoAddon
    <3>. QED
      BY <1>11, <3>1 DEF CreateAddon, UserWrites, Records
  <2>2. Flags'
    BY <1>11 DEF CreateAddon, UserWrites, Flags
  <2>3. Places'
    BY <1>11 DEF CreateAddon, UserWrites, Places, PC
  <2>4. Copies'
    BY <1>11 DEF CreateAddon, UserWrites, Records, Addon, NoAddon, NoStatus, Copies, Deleting
  <2>5. Resources'
    BY <1>11 DEF CreateAddon, UserWrites, Records, Addon, NoAddon, NoStatus, Copies, Resources,
       Owning, Deleting
  <2>6. Reports'
    BY <1>11 DEF CreateAddon, UserWrites, Records, Addon, NoAddon, NoStatus, Copies, Reports,
       Exclusive, Fresh, NoJump, Owning, Deleting, Unreported
  <2>. QED
    BY <2>1, <2>2, <2>3, <2>4, <2>5, <2>6
<1>12. CASE EditAddon
  <2>1. Records'
    <3>1. /\ [obj EXCEPT !.paused = ~@] \in Addon
          /\ [obj EXCEPT !.package = ~@] \in Addon
          /\ \A v \in 0..MaxVersion: [obj EXCEPT !.version = v] \in Addon
      BY AddonTypes, Empty DEF Records
    <3>2. obj' \in Addon
      BY <1>12, <3>1 DEF EditAddon, UserWrites
    <3>3. obj'.exists = obj.exists /\ obj'.deleting = obj.deleting /\ obj'.finalizer = obj.finalizer
      BY <1>12 DEF EditAddon, UserWrites, Records, Addon
    <3>. QED
      BY <1>12, <3>2, <3>3 DEF EditAddon, UserWrites, Records
  <2>2. Flags'
    BY <1>12 DEF EditAddon, UserWrites, Flags
  <2>3. Places'
    BY <1>12 DEF EditAddon, UserWrites, Places, PC
  <2>4. Copies'
    BY <1>12 DEF EditAddon, UserWrites, Records, Addon, Copies, Deleting
  <2>5. Resources'
    BY <1>12 DEF EditAddon, UserWrites, Records, Addon, Copies, Resources, Owning, Deleting
  <2>6. Reports'
    BY <1>12 DEF EditAddon, UserWrites, Records, Addon, Copies, Reports, Exclusive, Fresh,
       NoJump, Owning, Deleting, Unreported
  <2>. QED
    BY <2>1, <2>2, <2>3, <2>4, <2>5, <2>6
<1>13. CASE DeleteAddon
  <2>1. Records'
    <3>1. obj' \in Addon
      BY <1>13, AddonTypes, Empty DEF DeleteAddon, UserWrites, Records
    <3>2. (obj'.deleting => obj'.finalizer) /\ (obj'.finalizer => obj'.exists)
      BY <1>13 DEF DeleteAddon, UserWrites, Records, Addon, NoAddon
    <3>. QED
      BY <1>13, <3>1, <3>2 DEF DeleteAddon, UserWrites, Records
  <2>2. Flags'
    BY <1>13 DEF DeleteAddon, UserWrites, Flags
  <2>3. Places'
    BY <1>13 DEF DeleteAddon, UserWrites, Places, PC
  <2>4. Copies'
    BY <1>13 DEF DeleteAddon, UserWrites, Records, Addon, NoAddon, NoStatus, Copies, Deleting
  <2>5. Resources'
    BY <1>13 DEF DeleteAddon, UserWrites, Records, Addon, NoAddon, NoStatus, Copies, Resources,
       Owning, Deleting
  <2>6. Reports'
    BY <1>13 DEF DeleteAddon, UserWrites, Records, Addon, NoAddon, NoStatus, Copies, Reports,
       Exclusive, Fresh, NoJump, Owning, Deleting, Unreported
  <2>. QED
    BY <2>1, <2>2, <2>3, <2>4, <2>5, <2>6
<1>14. CASE SetGlobalPause
  <2>1. Records'
    BY <1>14, StatusTypes, AddonTypes, VersionTypes, Empty DEF SetGlobalPause, Records
  <2>2. Flags'
    BY <1>14 DEF SetGlobalPause, Flags
  <2>3. Places'
    BY <1>14 DEF SetGlobalPause, Places, PC
  <2>4. Copies'
    BY <1>14 DEF SetGlobalPause, Records, Addon, Copies, Deleting
  <2>5. Resources'
    BY <1>14 DEF SetGlobalPause, Records, Addon, Copies, Resources, Owning, Deleting
  <2>6. Reports'
    BY <1>14 DEF SetGlobalPause, Records, Addon, Copies, Reports, Exclusive, Fresh, NoJump,
       Owning, Deleting, Unreported
  <2>. QED
    BY <2>1, <2>2, <2>3, <2>4, <2>5, <2>6
<1>15. CASE ClusterMoves
  <2>1. Records'
    BY <1>15, StatusTypes, AddonTypes, VersionTypes, Empty DEF ClusterMoves, Move, Records
  <2>2. Flags'
    BY <1>15 DEF ClusterMoves, Move, Flags
  <2>3. Places'
    <3>1. cluster \in Cluster
      BY DEF Places
    <3>2. cluster' \in Cluster
      <4>1. /\ [cluster EXCEPT !.monitoring = ~@] \in Cluster
            /\ [cluster EXCEPT !.acked = ~@] \in Cluster
            /\ \A p \in Phases: [cluster EXCEPT !.phase = p] \in Cluster
        BY <3>1 DEF Cluster
      <4>2. cluster.csv < MaxCSV => cluster.csv + 1 \in 1..MaxCSV
        BY <3>1 DEF Cluster
      <4>3. \A n \in 1..MaxCSV, p \in Phases: [cluster EXCEPT !.csv = n, !.phase = p] \in Cluster
        BY <3>1 DEF Cluster
      <4>4. {"missing", "pending", "succeeded"} \subseteq Phases
        BY DEF Phases
      <4>5. CASE \E p \in {"missing", "pending", "succeeded"}:
                     cluster.csv < MaxCSV /\ cluster' = [cluster EXCEPT !.csv = @ + 1, !.phase = p]
        <5>1. cluster.csv + 1 \in 1..MaxCSV
          BY <4>2, <4>5
        <5>2. PICK p \in Phases: cluster' = [cluster EXCEPT !.csv = cluster.csv + 1, !.phase = p]
          BY <4>4, <4>5
        <5>3. [cluster EXCEPT !.csv = cluster.csv + 1, !.phase = p] \in Cluster
          BY <4>3, <5>1, <5>2, Zenon
        <5>. QED
          BY <5>2, <5>3
      <4>6. CASE \/ cluster' \in {[cluster EXCEPT !.monitoring = ~@], [cluster EXCEPT !.acked = ~@]}
                 \/ \E p \in Phases: cluster' = [cluster EXCEPT !.phase = p]
        BY <4>1, <4>6
      <4>. QED
        BY <1>15, <4>5, <4>6 DEF ClusterMoves, Move
    <3>. QED
      BY <1>15, <3>2 DEF ClusterMoves, Move, Places
  <2>4. Copies'
    BY <1>15 DEF ClusterMoves, Move, Records, Addon, Copies, Deleting
  <2>5. Resources'
    BY <1>15 DEF ClusterMoves, Move, Records, Addon, Copies, Resources, Owning, Deleting
  <2>6. Reports'
    BY <1>15 DEF ClusterMoves, Move, Records, Addon, Copies, Reports, Exclusive, Fresh, NoJump,
       Owning, Deleting, Unreported
  <2>. QED
    BY <2>1, <2>2, <2>3, <2>4, <2>5, <2>6
<1>16. CASE PackageOperator
  <2>1. Records'
    BY <1>16, StatusTypes, AddonTypes, VersionTypes, Empty DEF PackageOperator, Records
  <2>2. Flags'
    BY <1>16 DEF PackageOperator, Flags
  <2>3. Places'
    BY <1>16 DEF PackageOperator, Places, PC
  <2>4. Copies'
    BY <1>16 DEF PackageOperator, Records, Addon, Copies, Deleting
  <2>5. Resources'
    BY <1>16 DEF PackageOperator, Records, Addon, Copies, Resources, Owning, Deleting
  <2>6. Reports'
    BY <1>16 DEF PackageOperator, Records, Addon, Copies, Reports, Exclusive, Fresh, NoJump,
       Owning, Deleting, Unreported
  <2>. QED
    BY <2>1, <2>2, <2>3, <2>4, <2>5, <2>6
<1>17. CASE Sync
  <2>1. Records'
    BY <1>17, StatusTypes, AddonTypes, VersionTypes, Empty DEF Sync, Records
  <2>2. Flags'
    BY <1>17 DEF Sync, Flags
  <2>3. Places'
    BY <1>17 DEF Sync, Places, PC
  <2>4. Copies'
    BY <1>17 DEF Sync, Records, Addon, Copies, Deleting
  <2>5. Resources'
    BY <1>17 DEF Sync, Records, Addon, Copies, Resources, Owning, Deleting
  <2>6. Reports'
    BY <1>17 DEF Sync, Records, Addon, Copies, Reports, Exclusive, Fresh, NoJump, Owning,
       Deleting, Unreported
  <2>. QED
    BY <2>1, <2>2, <2>3, <2>4, <2>5, <2>6
<1>18. CASE Restart
  <2>1. Records'
    BY <1>18, StatusTypes, AddonTypes, VersionTypes, Empty DEF Restart, Records
  <2>2. Flags'
    <3>1. obj.exists \in BOOLEAN
      BY DEF Records, Addon
    <3>. QED
      BY <1>18, <3>1 DEF Restart, Flags
  <2>3. Places'
    BY <1>18 DEF Restart, Places, PC
  <2>4. Copies'
    BY <1>18 DEF Restart, Records, Addon, Status, NoAddon, NoStatus, Copies, Deleting
  <2>5. Resources'
    BY <1>18 DEF Restart, Records, Addon, Status, NoAddon, NoStatus, Copies, Resources, Owning,
       Deleting
  <2>6. Reports'
    BY <1>18 DEF Restart, Records, Addon, Status, NoAddon, NoStatus, Copies, Reports, Exclusive,
       Fresh, NoJump, Owning, Deleting, Unreported
  <2>. QED
    BY <2>1, <2>2, <2>3, <2>4, <2>5, <2>6
<1>19. CASE Fault
  <2>1. Records'
    BY <1>19, StatusTypes, AddonTypes, VersionTypes, Empty DEF Fault, Return, Continue, Records
  <2>2. Flags'
    BY <1>19 DEF Fault, Return, Continue, Flags
  <2>3. Places'
    BY <1>19 DEF Fault, Return, Continue, Places, PC
  <2>4. Copies'
    BY <1>19 DEF Fault, Return, Continue, Records, Places, PC, Addon, Copies, Deleting
  <2>5. Resources'
    BY <1>19 DEF Fault, Return, Continue, Records, Places, PC, Addon, Copies, Resources, Owning,
       Deleting
  <2>6. Reports'
    BY <1>19 DEF Fault, Return, Continue, Records, Places, PC, Addon, Copies, Reports, Exclusive,
       Fresh, NoJump, Owning, Deleting, Unreported
  <2>. QED
    BY <2>1, <2>2, <2>3, <2>4, <2>5, <2>6
<1>20. CASE updateStatusFails
  <2>1. Records'
    BY <1>20, StatusTypes, AddonTypes, VersionTypes, Empty DEF updateStatusFails, Records
  <2>2. Flags'
    BY <1>20 DEF updateStatusFails, Flags
  <2>3. Places'
    BY <1>20 DEF updateStatusFails, Places, PC
  <2>4. Copies'
    BY <1>20 DEF updateStatusFails, Records, Addon, NoAddon, NoStatus, Copies, Deleting
  <2>5. Resources'
    BY <1>20 DEF updateStatusFails, Records, Addon, NoAddon, NoStatus, Copies, Resources, Owning,
       Deleting
  <2>6. Reports'
    BY <1>20 DEF updateStatusFails, Records, Addon, NoAddon, NoStatus, Copies, Reports,
       Exclusive, Fresh, NoJump, Owning, Deleting, Unreported
  <2>. QED
    BY <2>1, <2>2, <2>3, <2>4, <2>5, <2>6
<1>21. CASE UNCHANGED vars
  BY <1>21 DEF vars, Records, Flags, Places, Copies, Resources, Reports, Fresh, NoJump
<1>. QED
  BY <1>1, <1>2, <1>3, <1>4, <1>5, <1>6, <1>7, <1>8, <1>9, <1>10, <1>11, <1>12, <1>13, <1>14,
     <1>15, <1>16, <1>17, <1>18, <1>19, <1>20, <1>21 DEF Next, Worker, Environment

-----------------------------------------------------------------------------
(* Theorems.                                                               *)

\* The steps that write the object.
LEMMA Saved ==
    ASSUME Next
    PROVE  \/ updateStatus \/ reportTermination \/ addFinalizer \/ handleAddonCRDeletion
           \/ CreateAddon \/ EditAddon \/ DeleteAddon
           \/ UNCHANGED obj
  BY DEF Next, Worker, Environment, reconcile, NotFound, PackageOperatorReconciler, olmReconciler,
         monitoringReconcilers, ensureClusterPackageDeletion, SetGlobalPause, ClusterMoves, Move,
         PackageOperator, Sync, Restart, Fault, updateStatusFails

\* What the writes of the object do to the parts that AddonLife and the reports speak of.
LEMMA EditKeeps ==
    ASSUME IInv, EditAddon
    PROVE  /\ obj'.status = obj.status /\ obj'.exists = obj.exists
           /\ obj'.deleting = obj.deleting /\ obj'.finalizer = obj.finalizer
           /\ UNCHANGED <<cot, mapped>>
  BY DEF IInv, EditAddon, UserWrites, Records, Addon

\* addFinalizer writes the finalizer of a live object only.
LEMMA FinalizerAdded ==
    ASSUME IInv, addFinalizer
    PROVE  /\ obj'.status = obj.status /\ obj'.exists = obj.exists /\ obj'.deleting = obj.deleting
           /\ UNCHANGED <<cot, mapped>>
           /\ obj' = obj \/ (obj.exists /\ ~obj.deleting /\ obj'.finalizer)
  BY DEF IInv, addFinalizer, Return, Continue, Records, Addon, Copies

\* updateStatus saves what the pass has in hand.
LEMMA StatusSaved ==
    ASSUME IInv, updateStatus, Saves
    PROVE  /\ obj'.exists = obj.exists /\ obj'.deleting = obj.deleting /\ obj'.finalizer = obj.finalizer
           /\ obj'.status.observedVersion = snap.version
           /\ obj'.status.started = snap.status.started
           /\ obj'.status.succeeded = snap.status.succeeded
           /\ obj'.status.paused = snap.status.paused
           /\ obj'.status.lastCSV = snap.status.lastCSV
           /\ UNCHANGED <<cot, mapped>>
<1>1. obj' = [obj EXCEPT !.status = reportObservedVersion(snap)] /\ UNCHANGED <<cot, mapped>>
  BY DEF updateStatus, SaveStatus
<1>2. snap.status \in Status
  BY AddonTypes, Empty DEF IInv, Records
<1>. QED
  BY <1>1, <1>2 DEF reportObservedVersion, IInv, Records, Addon, Status

\* reportTermination leaves the upgrade as it was saved.
LEMMA TerminationSaved ==
    ASSUME IInv, reportTermination
    PROVE  /\ obj'.exists = obj.exists /\ obj'.deleting = obj.deleting /\ obj'.finalizer = obj.finalizer
           /\ obj'.status = obj.status \/ Same(obj'.status, obj.status)
           /\ UNCHANGED <<cot, mapped>>
<1>1. snap.status \in Status
  BY AddonTypes, Empty DEF IInv, Records
<1>2. Same(reportTerminationStatus(snap.status), snap.status)
  BY <1>1, SameReports
<1>3. CASE Saves
  <2>1. obj' = [obj EXCEPT !.status = reportTerminationStatus(snap.status)] /\ UNCHANGED <<cot, mapped>>
    BY <1>3 DEF reportTermination, SaveStatus
  <2>2. Same(snap.status, obj.status)
    BY <1>3 DEF reportTermination, Saves, IInv, Reports, Fresh, Unreported, Deleting, Same
  <2>. QED
    BY <1>2, <2>1, <2>2 DEF IInv, Records, Addon, Same
<1>. QED
  BY <1>3 DEF reportTermination, SaveStatus

\* The inductive invariant: copies, resources and reports of the reconciler agree with the
\* object as far as its resourceVersion says so.
THEOREM Invariance == Spec => []IInv
  BY Initially, Step, PTL DEF Spec

\* Type correctness: every copy of the Addon, the cluster and the place of Reconcile keep
\* their types, a deletion mark implies the finalizer and the finalizer the object, for
\* all versions, CSVs, edits and troubles.
THEOREM TypeCorrect == Spec => []TypeOK
<1>1. IInv => TypeOK
  BY Kinds DEF IInv
<1>. QED
  BY <1>1, Invariance, PTL

\* handleAddonCRDeletion leaves neither a ClusterObjectTemplate nor an entry in the
\* Operator handler's map behind, whatever fails, restarts or is stale.
THEOREM NothingStays == Spec => []NothingLeftBehind
<1>1. IInv => NothingLeftBehind
  BY DEF IInv, NothingLeftBehind, Resources, Records
<1>. QED
  BY <1>1, Invariance, PTL

\* No saved status reports an upgrade as started and as succeeded.
THEOREM ExclusiveReports == Spec => []UpgradeExclusive
<1>1. IInv => UpgradeExclusive
  BY DEF IInv, UpgradeExclusive, Reports, Exclusive
<1>. QED
  BY <1>1, Invariance, PTL

\* An upgrade that is reported has its name, and a change of the saved version comes with
\* UpgradeStarted, a pause or a deletion.
THEOREM AnnouncedUpgrades == Spec => UpgradeAnnounced
<1>. DEFINE A == LET was == obj.status  now == obj'.status
                 IN  obj'.exists /\ 0 \notin {was.observedVersion, now.observedVersion}
                         /\ was.observedVersion # now.observedVersion
                     => now.started \/ now.paused \/ obj'.deleting
<1>1. IInv /\ [Next]_vars => [A]_vars
  <2>. SUFFICES ASSUME IInv, Next PROVE A
    OBVIOUS
  <2>. USE DEF IInv
  <2>1. CASE updateStatus
    <3>1. CASE Saves
      BY <2>1, <3>1, StatusSaved DEF updateStatus, Saves, Reports, Fresh, NoJump
    <3>. QED
      BY <2>1, <3>1 DEF updateStatus, SaveStatus
  <2>2. CASE reportTermination
    BY <2>2, TerminationSaved DEF Same
  <2>3. CASE CreateAddon
    BY <2>3 DEF CreateAddon, Copies, NoAddon, NoStatus
  <2>4. CASE DeleteAddon
    BY <2>4 DEF DeleteAddon, UserWrites, NoAddon, Records, Addon
  <2>5. CASE EditAddon
    BY <2>5, EditKeeps
  <2>6. CASE addFinalizer
    BY <2>6, FinalizerAdded
  <2>7. CASE handleAddonCRDeletion
    BY <2>7 DEF handleAddonCRDeletion, NoAddon
  <2>8. CASE UNCHANGED obj
    BY <2>8
  <2>. QED
    BY <2>1, <2>2, <2>3, <2>4, <2>5, <2>6, <2>7, <2>8, Saved
<1>. QED
  BY <1>1, Invariance, PTL DEF Spec, UpgradeAnnounced

\* UpgradeSucceeded is saved over UpgradeStarted only, with the name of another CSV than
\* the last one that was available.
THEOREM ConcludedUpgrades == Spec => UpgradeConcluded
<1>. DEFINE A == LET was == obj.status  now == obj'.status
                 IN  now.succeeded /\ ~was.succeeded
                     => was.started /\ now.lastCSV \notin {0, was.lastCSV}
<1>1. IInv /\ [Next]_vars => [A]_vars
  <2>. SUFFICES ASSUME IInv, Next PROVE A
    OBVIOUS
  <2>. USE DEF IInv
  <2>1. CASE updateStatus
    <3>1. CASE Saves
      BY <2>1, <3>1, StatusSaved DEF updateStatus, Saves, Reports, Fresh, Exclusive
    <3>. QED
      BY <2>1, <3>1 DEF updateStatus, SaveStatus
  <2>2. CASE reportTermination
    BY <2>2, TerminationSaved DEF Same
  <2>3. CASE CreateAddon
    BY <2>3 DEF CreateAddon, UserWrites, NoAddon, NoStatus
  <2>4. CASE DeleteAddon
    BY <2>4 DEF DeleteAddon, UserWrites, NoAddon, NoStatus, Records, Addon
  <2>5. CASE EditAddon
    BY <2>5, EditKeeps
  <2>6. CASE addFinalizer
    BY <2>6, FinalizerAdded
  <2>7. CASE handleAddonCRDeletion
    BY <2>7 DEF handleAddonCRDeletion, NoAddon, NoStatus
  <2>8. CASE UNCHANGED obj
    BY <2>8
  <2>. QED
    BY <2>1, <2>2, <2>3, <2>4, <2>5, <2>6, <2>7, <2>8, Saved
<1>. QED
  BY <1>1, Invariance, PTL DEF Spec, UpgradeConcluded

-----------------------------------------------------------------------------
(* The refinement.                                                         *)

\* A step that changes nothing that AddonLife sees.
LEMMA Unseen ==
    ASSUME obj'.exists = obj.exists, obj'.deleting = obj.deleting, obj'.finalizer = obj.finalizer,
           obj'.status.started = obj.status.started, obj'.status.succeeded = obj.status.succeeded,
           mapped' = mapped, (cot # "none")' = (cot # "none")
    PROVE  UNCHANGED Life!vars
  BY DEF Life!vars, LifeOf, UpgradeOf, FootprintOf

\* A step that changes only what the finalizer holds.
LEMMA Works ==
    ASSUME IInv, UNCHANGED obj, obj.finalizer
    PROVE  Life!Next
<1>1. LifeOf(obj) \in {"held", "terminating"} /\ LifeOf(obj)' = LifeOf(obj)
  BY DEF LifeOf, IInv, Records
<1>2. FootprintOf(cot # "none", mapped)' \in SUBSET Life!Footprint
  BY DEF FootprintOf, Life!Footprint
<1>3. UpgradeOf(obj.status)' = UpgradeOf(obj.status)
  OBVIOUS
<1>. QED
  BY <1>1, <1>2, <1>3 DEF Life!Next, Life!Work

\* AddonReconciler implements AddonLife: for every edit, conflict, stale copy, fault and
\* restart, each step of the reconciler is one of the promised steps or changes nothing.
THEOREM Refinement == Spec => ImplementsLife
<1>1. Init => Life!Init
  BY DEF Init, Life!Init, LifeOf, UpgradeOf, FootprintOf, NoAddon, NoStatus
<1>2. IInv /\ [Next]_vars => [Life!Next]_Life!vars
  <2>. SUFFICES ASSUME IInv, [Next]_vars PROVE [Life!Next]_Life!vars
    OBVIOUS
  <2>. USE DEF IInv
  <2>1. CASE CreateAddon
    <3>1. obj = NoAddon /\ obj'.exists /\ ~obj'.deleting /\ ~obj'.finalizer /\ obj'.status = NoStatus
      BY <2>1 DEF CreateAddon, UserWrites, Copies, NoAddon
    <3>2. UNCHANGED <<cot, mapped>>
      BY <2>1 DEF CreateAddon, UserWrites
    <3>. QED
      BY <3>1, <3>2 DEF Life!Next, Life!Create, LifeOf, UpgradeOf, FootprintOf, NoAddon
  <2>2. CASE EditAddon
    BY <2>2, EditKeeps, Unseen
  <2>3. CASE DeleteAddon
    <3>1. UNCHANGED <<cot, mapped>> /\ obj.exists /\ ~obj.deleting
      BY <2>3 DEF DeleteAddon, UserWrites
    <3>2. CASE obj.finalizer
      <4>1. obj'.exists /\ obj'.deleting /\ obj'.status = obj.status
        BY <2>3, <3>2 DEF DeleteAddon, UserWrites, Records, Addon
      <4>. QED
        BY <3>1, <3>2, <4>1 DEF Life!Next, Life!Terminate, LifeOf, FootprintOf
    <3>3. CASE ~obj.finalizer
      <4>1. obj' = NoAddon /\ cot = "none" /\ ~mapped
        BY <2>3, <3>3 DEF DeleteAddon, UserWrites, Resources
      <4>. QED
        BY <3>1, <3>3, <4>1 DEF Life!Next, Life!Remove, LifeOf, UpgradeOf, FootprintOf, NoAddon,
           NoStatus
    <3>. QED
      BY <3>2, <3>3
  <2>4. CASE addFinalizer
    <3>1. CASE obj' = obj \/ obj'.finalizer = obj.finalizer
      BY <2>4, <3>1, FinalizerAdded, Unseen
    <3>2. CASE obj' # obj /\ obj'.finalizer # obj.finalizer
      <4>1. obj.exists /\ ~obj.deleting /\ ~obj.finalizer /\ obj'.finalizer
        BY <2>4, <3>2, FinalizerAdded DEF addFinalizer, Records, Addon
      <4>2. obj'.status = obj.status /\ obj'.exists /\ ~obj'.deleting /\ UNCHANGED <<cot, mapped>>
        BY <2>4, <4>1, FinalizerAdded
      <4>. QED
        BY <4>1, <4>2 DEF Life!Next, Life!Hold, LifeOf, FootprintOf
    <3>. QED
      BY <3>1, <3>2
  <2>5. CASE PackageOperatorReconciler \/ olmReconciler
    <3>1. UNCHANGED obj /\ obj.finalizer
      BY <2>5 DEF PackageOperatorReconciler, olmReconciler, Resources, Owning
    <3>. QED
      BY <3>1, Works
  <2>6. CASE PackageOperator
    <3>1. UNCHANGED obj /\ obj.finalizer
      BY <2>6 DEF PackageOperator, Resources
    <3>. QED
      BY <3>1, Works
  <2>7. CASE Restart
    <3>1. UNCHANGED <<obj, cot>> /\ mapped' = FALSE
      BY <2>7 DEF Restart
    <3>2. CASE mapped
      BY <3>1, <3>2, Works DEF Resources
    <3>3. CASE ~mapped
      <4>1. mapped' = mapped
        BY <3>1, <3>3 DEF Flags
      <4>. QED
        BY <3>1, <4>1, Unseen
    <3>. QED
      BY <3>2, <3>3
  <2>8. CASE reportTermination
    BY <2>8, TerminationSaved, Unseen DEF Same
  <2>9. CASE ensureClusterPackageDeletion
    <3>1. UNCHANGED <<obj, mapped>> /\ (cot # "none")' = (cot # "none")
      BY <2>9 DEF ensureClusterPackageDeletion, Return, Continue
    <3>. QED
      BY <3>1, Unseen
  <2>10. CASE handleAddonCRDeletion
    <3>1. cot = "none" /\ cot' = cot /\ mapped' = FALSE
      BY <2>10 DEF handleAddonCRDeletion, Resources
    <3>2. CASE "snap" \in current
      <4>1. obj.exists /\ obj.deleting /\ obj' = NoAddon
        BY <2>10, <3>2 DEF handleAddonCRDeletion, Copies, Deleting, Records
      <4>. QED
        BY <3>1, <4>1 DEF Life!Next, Life!Remove, LifeOf, UpgradeOf, FootprintOf, NoAddon, NoStatus
    <3>3. CASE "snap" \notin current /\ mapped
      BY <2>10, <3>3, Works DEF handleAddonCRDeletion, Resources
    <3>4. CASE "snap" \notin current /\ ~mapped
      <4>1. mapped' = mapped /\ UNCHANGED obj
        BY <2>10, <3>1, <3>4 DEF handleAddonCRDeletion, Flags
      <4>. QED
        BY <3>1, <4>1, Unseen
    <3>. QED
      BY <3>2, <3>3, <3>4
  <2>11. CASE updateStatus
    <3>1. CASE ~Saves
      <4>1. UNCHANGED <<obj, cot, mapped>>
        BY <2>11, <3>1 DEF updateStatus, SaveStatus
      <4>. QED
        BY <4>1, Unseen
    <3>2. CASE Saves
      <4>0. /\ obj'.exists = obj.exists /\ obj'.deleting = obj.deleting /\ obj'.finalizer = obj.finalizer
            /\ obj'.status.started = snap.status.started
            /\ obj'.status.succeeded = snap.status.succeeded
            /\ UNCHANGED <<cot, mapped>>
        BY <2>11, <3>2, StatusSaved
      <4>1. /\ LifeOf(obj)' = LifeOf(obj) /\ LifeOf(obj) # "absent"
            /\ FootprintOf(cot # "none", mapped)' = FootprintOf(cot # "none", mapped)
        BY <3>2, <4>0 DEF LifeOf, FootprintOf, Saves
      <4>2. \/ UpgradeOf(obj.status)' \in {UpgradeOf(obj.status), "started"}
            \/ UpgradeOf(obj.status) = "started" /\ UpgradeOf(obj.status)' = "succeeded"
        <5>1. /\ pc = "status" /\ Fresh
          BY <2>11, <3>2 DEF updateStatus, Saves, Fresh
        <5>. QED
          BY <4>0, <5>1 DEF Reports, Exclusive, UpgradeOf
      <4>. QED
        BY <4>1, <4>2 DEF Life!Next, Life!Report, Life!vars
    <3>. QED
      BY <3>1, <3>2
  <2>12. CASE UNCHANGED <<obj, cot, mapped>>
    BY <2>12, Unseen
  <2>. QED
    BY <2>1, <2>2, <2>3, <2>4, <2>5, <2>6, <2>7, <2>8, <2>9, <2>10, <2>11, <2>12
    DEF Next, Worker, Environment, vars, reconcile, NotFound, monitoringReconcilers, SetGlobalPause,
        ClusterMoves, Move, Sync, Fault, updateStatusFails
<1>. QED
  BY <1>1, <1>2, Invariance, PTL DEF Spec, ImplementsLife, Life!Spec
=============================================================================
