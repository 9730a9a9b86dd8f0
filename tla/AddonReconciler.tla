-------------------------- MODULE AddonReconciler --------------------------
(***************************************************************************)
(* One Addon object and the Reconcile of the Addon controller that serves  *)
(* it: its life from the first finalizer to the last, the order of the     *)
(* sub-reconcilers, and the conditions, observedVersion and last observed  *)
(* CSV that Reconcile keeps in .status.                                    *)
(*                                                                         *)
(* current is the set of copies of the object ("cache": the informer's,    *)
(* "snap": the one the running Reconcile works on) with the API server's   *)
(* resourceVersion.  An update of a copy that is not current fails.        *)
(* The controller has one worker: at most one Reconcile runs.              *)
(***************************************************************************)
EXTENDS Naturals

CONSTANTS
    MaxVersion,          \* versions are 1..MaxVersion, 0 is the empty .spec.version
    MaxCSV,              \* CSV names are 1..MaxCSV, 0 is the empty name
    AddonsPlugAndPlay,   \* whether the feature toggle ADDONS_PLUG_AND_PLAY is on
    InstallAckRequired,  \* .spec.installAckRequired
    MaxEdits,            \* bound: edits by the users
    MaxTroubles          \* bound: changes of the cluster around the Addon, API calls that
                         \* fail without a conflict, and kills of the operator's process

ASSUME AddonReconcilerAssumption ==
    /\ MaxVersion \in Nat /\ MaxCSV \in Nat \ {0}
    /\ AddonsPlugAndPlay \in BOOLEAN /\ InstallAckRequired \in BOOLEAN
    /\ MaxEdits \in Nat /\ MaxTroubles \in Nat

VARIABLES
    \* in the API server
    obj,           \* the Addon object
    cluster,       \* what the sub-reconcilers find in the cluster
    cot,           \* the Addon's ClusterObjectTemplate
    \* in the operator's process
    globalPause,   \* AddonReconciler.globalPause
    mapped,        \* whether operatorResourceHandler maps the Addon to its Operator
    cache, current,
    queue,         \* whether the key is in the workqueue, or due to return to it
    pc,            \* where Reconcile stands
    snap,          \* the object Reconcile works on
    again,         \* whether reconcile asked for a requeue or returned an error
    \* bounds
    edits, troubles

objVars   == <<obj, cache, current>>
passVars  == <<pc, snap, again>>
worldVars == <<cluster, cot, globalPause>>
bounds    == <<edits, troubles>>
vars      == <<objVars, passVars, worldVars, mapped, queue, bounds>>

Ternary == {"none", "False", "True"}

\* .status: the Paused, UpgradeStarted, UpgradeSucceeded, Installed and Available
\* conditions (the first three are True or absent), observedVersion and
\* lastObservedAvailableCSV.
Status ==
    [paused: BOOLEAN, started: BOOLEAN, succeeded: BOOLEAN, installed: Ternary,
     available: Ternary, observedVersion: 0..MaxVersion, lastCSV: 0..MaxCSV]

NoStatus ==
    [paused |-> FALSE, started |-> FALSE, succeeded |-> FALSE, installed |-> "none",
     available |-> "none", observedVersion |-> 0, lastCSV |-> 0]

\* package is whether .spec.packageOperator is set, deleting whether the
\* deletionTimestamp is.
Addon ==
    [exists: BOOLEAN, deleting: BOOLEAN, finalizer: BOOLEAN,
     paused: BOOLEAN, version: 0..MaxVersion, package: BOOLEAN, status: Status]

NoAddon ==
    [exists |-> FALSE, deleting |-> FALSE, finalizer |-> FALSE,
     paused |-> FALSE, version |-> 0, package |-> FALSE, status |-> NoStatus]

\* csv: the currentCSV of the Subscription; phase: its phase in the Operator object,
\* "missing" when it is not listed there, "unapproved" while its InstallPlan requires
\* a manual approval, "unready" while the Subscription links none or a namespace,
\* secret or catalog source before it is not ready; acked: the AddonInstance is
\* Installed; monitoring: the monitoring namespace and MonitoringStack are ready.
Phases == {"unready", "unapproved", "missing", "pending", "succeeded"}

Cluster == [csv: 1..MaxCSV, phase: Phases, acked: BOOLEAN, monitoring: BOOLEAN]

PC == {"idle", "finalizer", "package", "olm", "monitoring", "terminate", "deleteCOT",
       "removeFinalizer", "status"}

TypeOK ==
    /\ obj \in Addon /\ cache \in Addon /\ snap \in Addon
    /\ obj.deleting => obj.finalizer
    /\ obj.finalizer => obj.exists
    /\ cluster \in Cluster
    /\ cot \in {"none", "unready", "available", "deleting"}
    /\ current \subseteq {"cache", "snap"}
    /\ pc \in PC
    /\ globalPause \in BOOLEAN /\ mapped \in BOOLEAN /\ queue \in BOOLEAN /\ again \in BOOLEAN
    /\ edits \in 0..MaxEdits /\ troubles \in 0..MaxTroubles

-----------------------------------------------------------------------------
(* The users of the API and the cluster around the Addon.                  *)

\* A write that no copy holds yet; the watch brings it to the cache (Sync).
UserWrites(o) ==
    /\ edits < MaxEdits
    /\ edits' = edits + 1
    /\ obj' = o
    /\ current' = {}
    /\ UNCHANGED <<cache, passVars, worldVars, mapped, queue, troubles>>

\* The versions are interchangeable: the first one a user sets is 1.  No code reads
\* .spec.packageOperator without the feature toggle.
CreateAddon ==
    /\ ~obj.exists /\ cot = "none" /\ ~cache.exists
    /\ \E p \in BOOLEAN, v \in 0..MaxVersion \cap 0..1, k \in {FALSE, AddonsPlugAndPlay}:
           UserWrites([NoAddon EXCEPT !.exists = TRUE, !.paused = p,
                                      !.version = v, !.package = k])

EditAddon ==
    /\ obj.exists
    /\ \/ UserWrites([obj EXCEPT !.paused = ~@])
       \/ AddonsPlugAndPlay /\ UserWrites([obj EXCEPT !.package = ~@])
       \/ \E v \in 0..MaxVersion \ {obj.version}: UserWrites([obj EXCEPT !.version = v])

\* Without a finalizer the API server removes the object at once.
DeleteAddon ==
    /\ obj.exists /\ ~obj.deleting
    /\ UserWrites(IF obj.finalizer THEN [obj EXCEPT !.deleting = TRUE] ELSE NoAddon)

\* setGlobalPause flips the flag and requeues all Addons; reconcile holds the RLock
\* of the flag from its check to its return.
SetGlobalPause ==
    /\ pc \notin {"finalizer", "package", "olm", "monitoring"}
    /\ edits < MaxEdits
    /\ edits' = edits + 1
    /\ globalPause' = ~globalPause
    /\ queue' = (queue \/ cache.exists)
    /\ UNCHANGED <<objVars, passVars, cluster, cot, mapped, troubles>>

\* OLM, the namespaces and the monitoring operators: a change of an object the
\* controller Owns (the Subscription with its approval included) brings the key
\* back, a change of the Operator object only through the handler's map.
Move(c, event) ==
    /\ troubles < MaxTroubles
    /\ troubles' = troubles + 1
    /\ cluster' = c
    /\ queue' = (queue \/ (event /\ cache.exists))
    /\ UNCHANGED <<objVars, passVars, cot, globalPause, mapped, edits>>

ClusterMoves ==
    \/ Move([cluster EXCEPT !.monitoring = ~@], TRUE)
    \/ InstallAckRequired /\ Move([cluster EXCEPT !.acked = ~@], TRUE)
    \/ /\ cluster.csv < MaxCSV
       /\ \E p \in {"missing", "pending", "succeeded"}:
              Move([cluster EXCEPT !.csv = @ + 1, !.phase = p], TRUE)
    \/ \E p \in Phases \ {cluster.phase}:
           Move([cluster EXCEPT !.phase = p],
                mapped \/ {p, cluster.phase} \cap {"unready", "unapproved"} # {})

\* Package Operator rolls the ClusterObjectTemplate out, or finishes deleting it.
PackageOperator ==
    /\ \/ cot = "unready" /\ cot' = "available"
       \/ cot = "deleting" /\ cot' = "none"
    /\ queue' = (queue \/ cache.exists)
    /\ UNCHANGED <<objVars, passVars, cluster, globalPause, mapped, bounds>>

-----------------------------------------------------------------------------
(* The operator's process.                                                 *)

\* The watch delivers the latest version to the cache and queues the key.
Sync ==
    /\ "cache" \notin current
    /\ cache' = obj
    /\ current' = current \cup {"cache"}
    /\ queue' = TRUE
    /\ UNCHANGED <<obj, passVars, worldVars, mapped, bounds>>

\* The process dies and starts again: its memory is lost, the cache is filled anew.
Restart ==
    /\ troubles < MaxTroubles
    /\ troubles' = troubles + 1
    /\ cache' = obj /\ current' = {"cache"}
    /\ queue' = obj.exists
    /\ mapped' = FALSE /\ globalPause' = FALSE
    /\ pc' = "idle" /\ snap' = NoAddon /\ again' = FALSE
    /\ UNCHANGED <<obj, cluster, cot, edits>>

\* reconcile goes on at p with the status st in hand.
Continue(p, st, requeue) ==
    /\ pc' = p
    /\ snap' = [snap EXCEPT !.status = st]
    /\ again' = requeue

\* reconcile returns: what is left of Reconcile saves the status.
Return(st, requeue) == Continue("status", st, requeue)

\* An API call of the pass fails: reconcile returns its error.
Fault ==
    /\ pc \notin {"idle", "status"}
    /\ troubles < MaxTroubles
    /\ troubles' = troubles + 1
    /\ Return(snap.status, TRUE)
    /\ UNCHANGED <<objVars, worldVars, mapped, queue, edits>>

-----------------------------------------------------------------------------
(* Reconcile.                                                              *)

\* Mutant: an upgrade is noticed only while the Addon is available.
addonIsBeingUpgradedAvailable(a) ==
    a.status.available = "True" /\ a.version # 0 /\ a.status.observedVersion # 0
        /\ a.version # a.status.observedVersion

addonIsBeingUpgraded(a) ==
    a.version # 0 /\ a.status.observedVersion # 0 /\ a.version # a.status.observedVersion

reportAddonPauseStatus(st) == [st EXCEPT !.paused = TRUE]

\* Mutant: the Paused condition of an earlier pass stays.
keepAddonPauseCondition(st) == st

\* Mutant: all conditions are dropped with the Paused one.
removeAllConditions(st) ==
    [NoStatus EXCEPT !.observedVersion = st.observedVersion, !.lastCSV = st.lastCSV]

removeAddonPauseCondition(st) == [st EXCEPT !.paused = FALSE]

reportAddonUpgradeStarted(st) == [st EXCEPT !.started = TRUE, !.succeeded = FALSE]
reportAddonUpgradeSucceeded(st) == [st EXCEPT !.started = FALSE, !.succeeded = TRUE]
reportInstalledConditionFalse(st) ==
    [st EXCEPT !.installed = IF @ = "none" THEN "False" ELSE @]
reportUninstalledCondition(st) ==
    [st EXCEPT !.installed = IF @ = "none" THEN @ ELSE "False"]
reportInstalledCondition(st) == [st EXCEPT !.installed = "True"]
reportPendingStatus(st) == [st EXCEPT !.available = "False"]
reportTerminationStatus(st) == [st EXCEPT !.available = "False"]

\* Reconcile reads the Addon from the cache and runs the checks of reconcile that
\* come before its first write: deletion, the two pauses, an upgrade.
reconcile ==
    LET pausing == globalPause \/ cache.paused
        unpaused == removeAddonPauseCondition(cache.status)
        Begin(p, st) == pc' = p /\ snap' = [cache EXCEPT !.status = st]
    IN  /\ pc = "idle" /\ queue /\ cache.exists
        /\ queue' = FALSE
        /\ again' = FALSE
        /\ current' = IF "cache" \in current THEN current \cup {"snap"} ELSE current \ {"snap"}
        /\ \/ cache.deleting /\ cache.finalizer /\ Begin("terminate", cache.status)
           \/ ~cache.deleting /\ pausing /\ Begin("status", reportAddonPauseStatus(cache.status))
           \/ /\ ~cache.deleting /\ ~pausing /\ addonIsBeingUpgraded(cache)
              /\ Begin("status", reportAddonUpgradeStarted(unpaused))
           \/ /\ ~cache.deleting /\ ~pausing /\ ~addonIsBeingUpgraded(cache)
              /\ Begin(IF cache.finalizer THEN "package" ELSE "finalizer",
                       reportInstalledConditionFalse(unpaused))
        /\ UNCHANGED <<obj, cache, worldVars, mapped, bounds>>

\* The Addon is not in the cache any more: nothing to do.
NotFound ==
    /\ pc = "idle" /\ queue /\ ~cache.exists
    /\ queue' = FALSE
    /\ UNCHANGED <<objVars, passVars, worldVars, mapped, bounds>>

\* What the decoded response of an update leaves of the conditions in hand.
Decode(st, server) ==
    IF server.paused \/ server.started \/ server.succeeded
           \/ "none" \notin {server.installed, server.available}
           \/ server.installed # server.available
    THEN [server EXCEPT !.observedVersion = st.observedVersion, !.lastCSV = st.lastCSV]
    ELSE st

\* Mutant: the finalizer is written without the resourceVersion in hand.
addFinalizerBlindly ==
    /\ pc = "finalizer"
    /\ obj' = [obj EXCEPT !.finalizer = TRUE]
    /\ current' = {"snap"}
    /\ snap' = obj'
    /\ pc' = "package"
    /\ UNCHANGED <<cache, again, worldVars, mapped, queue, bounds>>

\* reconcile adds the finalizer; a conflict is an error it returns.  The API server
\* ignores the status of the request, and its response replaces the object in hand.
addFinalizer ==
    /\ pc = "finalizer"
    /\ IF "snap" \in current
       THEN /\ obj' = [obj EXCEPT !.finalizer = TRUE]
            /\ current' = {"snap"}
            /\ snap' = [obj' EXCEPT !.status = Decode(snap.status, obj.status)]
            /\ pc' = "package"
            /\ UNCHANGED again
       ELSE /\ Return(snap.status, TRUE)
            /\ UNCHANGED <<obj, current>>
    /\ UNCHANGED <<cache, worldVars, mapped, queue, bounds>>

\* The package sub-reconciler, registered with the feature toggle only.
PackageOperatorReconciler ==
    /\ pc = "package"
    /\ IF AddonsPlugAndPlay /\ snap.package
       THEN /\ cot' = IF cot = "none" THEN "unready" ELSE cot
            /\ Continue("olm", IF cot \in {"none", "available"} THEN snap.status
                               ELSE reportPendingStatus(snap.status), FALSE)
       ELSE /\ cot' = IF AddonsPlugAndPlay /\ cot # "none" THEN "deleting" ELSE cot
            /\ Continue("olm", snap.status, FALSE)
    /\ UNCHANGED <<objVars, cluster, globalPause, mapped, queue, bounds>>

\* Mutant: any CSV that succeeded concludes the upgrade.
addonUpgradeConcludedByAny(st) == st.started

addonUpgradeConcluded(st) == st.started /\ cluster.csv # st.lastCSV

handleMissingCSV ==
    \/ Return(reportPendingStatus(snap.status), TRUE)
    \/ Return(reportUninstalledCondition(reportPendingStatus(snap.status)), FALSE)

handleSucceededCSV ==
    LET installed == reportInstalledCondition(snap.status)
        concluded == IF addonUpgradeConcluded(installed)
                     THEN reportAddonUpgradeSucceeded(installed) ELSE installed
    IN  IF InstallAckRequired /\ ~cluster.acked
        THEN Return(reportPendingStatus(snap.status), TRUE)
        ELSE Continue("monitoring", [concluded EXCEPT !.lastCSV = cluster.csv], FALSE)

\* The CSV as the Operator object lists it; that object may itself be missing.
observeOperatorResource ==
    \/ cluster.phase = "missing" /\ (handleMissingCSV \/ Return(snap.status, TRUE))
    \/ cluster.phase = "pending" /\ Return(reportPendingStatus(snap.status), TRUE)
    \/ cluster.phase = "succeeded" /\ handleSucceededCSV

\* Mutant: a pass that set the mapping asks for no other one.
olmReconcilerMapsOnly ==
    LET approved == cluster.phase \notin {"unready", "unapproved"}
    IN  /\ pc = "olm"
        /\ mapped' = (mapped \/ approved)
        /\ \/ cluster.phase = "unready" /\ Return(reportPendingStatus(snap.status), TRUE)
           \/ cluster.phase = "unapproved" /\ Return(reportPendingStatus(snap.status), FALSE)
           \/ approved /\ ~mapped /\ Return(snap.status, FALSE)
           \/ approved /\ mapped /\ observeOperatorResource
        /\ UNCHANGED <<objVars, worldVars, queue, bounds>>

\* The namespace, secret and AddonInstance sub-reconcilers and the phases of the OLM
\* one; a new mapping in the handler needs another pass.
olmReconciler ==
    LET approved == cluster.phase \notin {"unready", "unapproved"}
    IN  /\ pc = "olm"
        /\ mapped' = (mapped \/ approved)
        /\ \/ cluster.phase = "unready" /\ Return(reportPendingStatus(snap.status), TRUE)
           \/ cluster.phase = "unapproved" /\ Return(reportPendingStatus(snap.status), FALSE)
           \/ approved /\ ~mapped /\ Return(snap.status, TRUE)
           \/ approved /\ mapped /\ observeOperatorResource
        /\ UNCHANGED <<objVars, worldVars, queue, bounds>>

reportReadinessStatus(a) ==
    [a.status EXCEPT !.available = "True", !.observedVersion = a.version]

\* The package is rolled out, as its ClusterObjectTemplate says.
IsReconciliationSuccessful == AddonsPlugAndPlay /\ snap.package => cot = "available"

setAddonCRStatus ==
    IF IsReconciliationSuccessful
    THEN Return(reportReadinessStatus(snap), FALSE)
    ELSE Return(IF cot = "none" THEN snap.status ELSE reportPendingStatus(snap.status),
                cot = "none")

\* The two monitoring sub-reconcilers, and the status when all have returned nil.
monitoringReconcilers ==
    /\ pc = "monitoring"
    /\ IF cluster.monitoring THEN setAddonCRStatus
                             ELSE Return(reportPendingStatus(snap.status), TRUE)
    /\ UNCHANGED <<objVars, worldVars, mapped, queue, bounds>>

-----------------------------------------------------------------------------
(* handleAddonCRDeletion.                                                  *)

Saves == "snap" \in current /\ obj.exists

\* Status().Update of the object in hand: a conflict or NotFound, or a write.  The
\* API server makes no new version of an object that the write does not change.
SaveStatus(st) ==
    IF Saves
    THEN /\ obj' = [obj EXCEPT !.status = st]
         /\ current' = IF st = obj.status THEN current ELSE {"snap"}
    ELSE UNCHANGED <<obj, current>>

\* The Terminating status is saved before anything is deleted.
reportTermination ==
    /\ pc = "terminate"
    /\ SaveStatus(reportTerminationStatus(snap.status))
    /\ IF Saves
       THEN Continue("deleteCOT", reportTerminationStatus(snap.status), FALSE)
       ELSE Return(reportTerminationStatus(snap.status), TRUE)
    /\ UNCHANGED <<cache, worldVars, mapped, queue, bounds>>

\* Mutant: NotFound is an error like any other.
ensureClusterPackageDeletionStrict ==
    /\ pc = "deleteCOT"
    /\ cot' = IF cot # "none" THEN "deleting" ELSE cot
    /\ Return(snap.status, TRUE)
    /\ UNCHANGED <<objVars, cluster, globalPause, mapped, queue, bounds>>

\* The ClusterObjectTemplate is deleted and must be gone before the deletion goes on.
\* Its type is in the client's scheme with the feature toggle only: without it
\* Delete returns an error that is not NotFound.
ensureClusterPackageDeletion ==
    /\ pc = "deleteCOT"
    /\ cot' = IF AddonsPlugAndPlay /\ cot # "none" THEN "deleting" ELSE cot
    /\ IF AddonsPlugAndPlay /\ cot = "none"
       THEN Continue("removeFinalizer", snap.status, FALSE)
       ELSE Return(snap.status, TRUE)
    /\ UNCHANGED <<objVars, cluster, globalPause, mapped, queue, bounds>>

\* The handler's mapping is freed, then the finalizer removed: the object is gone.
handleAddonCRDeletion ==
    /\ pc = "removeFinalizer"
    /\ mapped' = FALSE
    /\ obj' = IF "snap" \in current THEN NoAddon ELSE obj
    /\ current' = IF "snap" \in current THEN {"snap"} ELSE current
    /\ Return(snap.status, "snap" \notin current)
    /\ UNCHANGED <<cache, worldVars, queue, bounds>>

-----------------------------------------------------------------------------
\* The end of every Reconcile: observedVersion and Status().Update; an error of it,
\* or of reconcile, brings the key back.
reportObservedVersion(a) == [a.status EXCEPT !.observedVersion = a.version]

updateStatus ==
    /\ pc = "status"
    /\ SaveStatus(reportObservedVersion(snap))
    /\ queue' = (queue \/ again \/ ~Saves)
    /\ pc' = "idle" /\ snap' = NoAddon /\ again' = FALSE
    /\ UNCHANGED <<cache, worldVars, mapped, bounds>>

\* Status().Update fails without a conflict.
updateStatusFails ==
    /\ pc = "status"
    /\ troubles < MaxTroubles
    /\ troubles' = troubles + 1
    /\ queue' = TRUE
    /\ pc' = "idle" /\ snap' = NoAddon /\ again' = FALSE
    /\ UNCHANGED <<objVars, worldVars, mapped, edits>>

-----------------------------------------------------------------------------
\* Nothing is installed yet, or an installation that the Addon will adopt.
Init ==
    /\ obj = NoAddon /\ cache = NoAddon /\ snap = NoAddon
    /\ current = {"cache"}
    /\ \E p \in {"unready", "succeeded"}:
           cluster = [csv |-> 1, phase |-> p, acked |-> p = "succeeded", monitoring |-> TRUE]
    /\ cot = "none"
    /\ globalPause = FALSE /\ mapped = FALSE /\ queue = FALSE /\ again = FALSE
    /\ pc = "idle"
    /\ edits = 0 /\ troubles = 0

Worker ==
    \/ reconcile \/ NotFound \/ addFinalizer
    \/ PackageOperatorReconciler \/ olmReconciler \/ monitoringReconcilers
    \/ reportTermination \/ ensureClusterPackageDeletion \/ handleAddonCRDeletion
    \/ updateStatus

Environment ==
    \/ CreateAddon \/ EditAddon \/ DeleteAddon \/ SetGlobalPause
    \/ ClusterMoves \/ PackageOperator

Next == Worker \/ Environment \/ Sync \/ Restart \/ Fault \/ updateStatusFails

Spec == Init /\ [][Next]_vars

\* The workqueue serves its key, the watch delivers, Package Operator finishes.
FairSpec ==
    Spec /\ WF_vars(Worker) /\ WF_vars(Sync) /\ WF_vars(PackageOperator)

-----------------------------------------------------------------------------
Live == obj.exists /\ ~obj.deleting
Pausing == globalPause \/ obj.paused

LifeOf(o) ==
    IF ~o.exists THEN "absent"
    ELSE IF o.deleting THEN "terminating"
    ELSE IF o.finalizer THEN "held" ELSE "new"

UpgradeOf(st) ==
    IF st.started /\ st.succeeded THEN "both"
    ELSE IF st.started THEN "started" ELSE IF st.succeeded THEN "succeeded" ELSE "none"

FootprintOf(template, mapping) ==
    (IF template THEN {"template"} ELSE {}) \cup (IF mapping THEN {"mapping"} ELSE {})

Life == INSTANCE AddonLife WITH
    life <- LifeOf(obj),
    footprint <- FootprintOf(cot # "none", mapped),
    upgrade <- UpgradeOf(obj.status)

\* The reconciler keeps what AddonLife promises: nothing needs cleaning up before the
\* finalizer is there, the object goes only after its template, and the saved upgrade
\* conditions take no shortcut, whatever conflicts, stale copies, faults and restarts do.
ImplementsLife == Life!Spec

\* A consequence of ImplementsLife, proved by itself: an Addon that is gone has
\* left neither its ClusterObjectTemplate nor its entry in the Operator handler's map
\* behind.  The finalizer is added before the first sub-reconciler runs and removed
\* only after the template is gone, whatever fails or restarts in between.
NothingLeftBehind == ~obj.exists => cot = "none" /\ ~mapped

\* Another one: a saved status never has UpgradeStarted and UpgradeSucceeded together.
\* Each report removes the other condition, and no pass saves half of that.
UpgradeExclusive == ~(obj.status.started /\ obj.status.succeeded)

\* Reconcile overwrites observedVersion in every pass, so the comparison that detects
\* an upgrade has one chance: when a saved observedVersion moves to another version,
\* the same write carries UpgradeStarted, unless the Addon is paused or terminating.
UpgradeAnnounced ==
    [][LET was == obj.status  now == obj'.status
       IN  obj'.exists /\ 0 \notin {was.observedVersion, now.observedVersion}
               /\ was.observedVersion # now.observedVersion
           => now.started \/ now.paused \/ obj'.deleting]_vars

\* An UpgradeSucceeded is only ever saved over an UpgradeStarted, together with the
\* name of a CSV other than the last one seen available.
UpgradeConcluded ==
    [][LET was == obj.status  now == obj'.status
       IN  now.succeeded /\ ~was.succeeded
           => was.started /\ now.lastCSV \notin {0, was.lastCSV}]_vars

\* An Addon marked as deleted is gone in the end: faults and restarts only delay
\* handleAddonCRDeletion, even when the Addon is paused.
DeletionCompletes == obj.deleting ~> ~obj.exists

\* When the pause of a live Addon settles, its Paused condition settles on it: no
\* conflict or overwritten copy leaves the condition stale.
PausedConditionSettles ==
    \A p \in BOOLEAN:
        <>[](Live /\ Pausing = p) => <>[](obj.status.paused = p)

\* When a live, unpaused Addon's resources settle as ready, it becomes and stays
\* Available: no early return (upgrade, new mapping, stop) goes without another pass.
AvailableSettles ==
    <>[](/\ Live /\ ~Pausing
         /\ cluster.phase = "succeeded"
         /\ (InstallAckRequired => cluster.acked) /\ cluster.monitoring)
    => <>[](obj.status.available = "True")
=============================================================================
