---------------------------- MODULE OCMReporting ----------------------------
(***************************************************************************)
(* What the Addon controller tells the OCM API: the state of the Addon's   *)
(* upgrade policy and its status conditions, at the end of every Reconcile *)
(* (syncWithExternalAPIs), and the OCM client, which the AddonOperator     *)
(* controller injects at run time under ocmClientMux.                      *)
(*                                                                         *)
(* current is the set of copies of the Addon ("cache", "snap") that hold   *)
(* the API server's resourceVersion.  reconcile itself is in the module    *)
(* AddonReconciler: here it sets Available to the health of the cluster,   *)
(* and leaves it alone in the pass that notices an upgrade.                *)
(***************************************************************************)
EXTENDS Naturals

CONSTANTS
    MaxVersion,                  \* versions are 1..MaxVersion, 0 is the empty one
    statusReportingEnabled,      \* the options of the process
    upgradePolicyStatusEnabled,
    MaxEdits,                    \* bound: writes of the Addon's spec
    MaxMoves,                    \* bound: changes of the cluster or by OCM itself
    MaxFaults                    \* bound: failing calls and kills of the process

ASSUME OCMReportingAssumption ==
    /\ MaxVersion \in Nat \ {0}
    /\ statusReportingEnabled \in BOOLEAN /\ upgradePolicyStatusEnabled \in BOOLEAN
    /\ MaxEdits \in Nat /\ MaxMoves \in Nat /\ MaxFaults \in Nat

VARIABLES
    \* in the API server and in the cluster
    obj,          \* the Addon
    healthy,      \* whether all resources of the Addon are ready
    \* in OCM
    policyState,  \* the state of the upgrade policy
    ocmReport,    \* the last Addon status it received, as a set of at most one
    \* in the operator's process
    ocmClient,    \* whether AddonReconciler.ocmClient is set
    writer,       \* ocmClientMux and InjectOCMClient: "idle", "waiting", "requeued"
    reader,       \* ocmClientMux: whether the worker holds its RLock
    cache, current, queue,
    pc,           \* where Reconcile stands
    snap,         \* the object it works on
    again,        \* whether it has met an error
    \* history and bounds
    completedAt,  \* the version of the last report of a completed upgrade
    edits, moves, faults

objVars    == <<obj, cache, current>>
ocmVars    == <<policyState, ocmReport, completedAt>>
clientVars == <<ocmClient, writer, reader>>
passVars   == <<pc, snap, again>>
bounds     == <<edits, moves, faults>>
vars       == <<objVars, healthy, ocmVars, clientVars, queue, passVars, bounds>>

Versions == 0..MaxVersion

\* What a status report says, abstracted to the version and the Available condition.
Report == [version: Versions, available: BOOLEAN]

\* .status.upgradePolicy; a nil one has the value "none".  The version is empty in
\* an object that an operator without that field wrote.
PolicyStatus == [version: Versions, value: {"none", "started", "completed"}]
NilPolicy == [version |-> 0, value |-> "none"]

\* policy is whether .spec.upgradePolicy is set; hash is the report whose hash is in
\* .status.ocmReportedStatusHash, as a set of at most one.
Addon ==
    [version: Versions, policy: BOOLEAN, available: BOOLEAN, observedVersion: Versions,
     policyStatus: PolicyStatus, hash: SUBSET Report]

NoAddon ==
    [version |-> 0, policy |-> FALSE, available |-> FALSE, observedVersion |-> 0,
     policyStatus |-> NilPolicy, hash |-> {}]

PolicyState == {"pending", "scheduled", "started", "completed"}

PC == {"idle", "policy", "get", "startFirst", "start", "complete", "status", "post", "save"}

TypeOK ==
    /\ obj \in Addon /\ cache \in Addon /\ snap \in Addon
    /\ policyState \in PolicyState
    /\ ocmReport \subseteq Report
    /\ healthy \in BOOLEAN /\ ocmClient \in BOOLEAN /\ queue \in BOOLEAN /\ again \in BOOLEAN
    /\ writer \in {"idle", "waiting", "requeued"}
    /\ reader \in BOOLEAN /\ (reader <=> pc \in {"get", "startFirst", "start", "complete"})
    /\ reader => ocmClient /\ writer # "requeued"
    /\ current \subseteq {"cache", "snap"}
    /\ pc \in PC
    /\ completedAt \in Versions
    /\ edits \in 0..MaxEdits /\ moves \in 0..MaxMoves /\ faults \in 0..MaxFaults

-----------------------------------------------------------------------------
(* OCM and the cluster.                                                    *)

\* OCM rolls a version out to the Addon's spec.
EditAddon ==
    /\ edits < MaxEdits
    /\ edits' = edits + 1
    /\ \E v \in Versions, p \in BOOLEAN:
           /\ <<v, p>> # <<obj.version, obj.policy>>
           /\ obj' = [obj EXCEPT !.version = v, !.policy = p]
    /\ current' = {}
    /\ UNCHANGED <<cache, healthy, ocmVars, clientVars, queue, passVars, moves, faults>>

\* OCM moves the policy on by itself: an automatic one is pending again once it was
\* completed, a pending one is scheduled.
OCMSchedules ==
    /\ moves < MaxMoves
    /\ moves' = moves + 1
    /\ \/ policyState = "completed" /\ policyState' = "pending"
       \/ policyState = "pending" /\ policyState' = "scheduled"
    /\ UNCHANGED <<objVars, healthy, ocmReport, completedAt, clientVars, queue,
                   passVars, edits, faults>>

\* A resource of the Addon becomes ready or stops being so: an event for its key.
HealthChanges ==
    /\ moves < MaxMoves
    /\ moves' = moves + 1
    /\ healthy' = ~healthy
    /\ queue' = TRUE
    /\ UNCHANGED <<objVars, ocmVars, clientVars, passVars, edits, faults>>

-----------------------------------------------------------------------------
(* The operator's process.                                                 *)

Sync ==
    /\ "cache" \notin current
    /\ cache' = obj
    /\ current' = current \cup {"cache"}
    /\ queue' = TRUE
    /\ UNCHANGED <<obj, healthy, ocmVars, clientVars, passVars, bounds>>

Restart ==
    /\ faults < MaxFaults
    /\ faults' = faults + 1
    /\ ocmClient' = FALSE /\ writer' = "idle" /\ reader' = FALSE
    /\ cache' = obj /\ current' = {"cache"} /\ queue' = TRUE
    /\ pc' = "idle" /\ snap' = NoAddon /\ again' = FALSE
    /\ UNCHANGED <<obj, healthy, ocmVars, edits, moves>>

\* A pass of the AddonOperator controller has the first OCM client and asks for the
\* write lock, which keeps new readers out.  The passes after it inject a client like
\* the one there is: they only hold the lock for a moment.
handleOCMClient ==
    /\ writer = "idle" /\ ~ocmClient
    /\ writer' = "waiting"
    /\ UNCHANGED <<objVars, healthy, ocmVars, ocmClient, reader, queue, passVars, bounds>>

\* InjectOCMClient with the lock: all Addons are requeued, then the client is stored.
InjectOCMClient ==
    /\ writer = "waiting" /\ ~reader
    /\ writer' = "requeued"
    /\ queue' = TRUE
    /\ UNCHANGED <<objVars, healthy, ocmVars, ocmClient, reader, passVars, bounds>>

storeOCMClient ==
    /\ writer = "requeued"
    /\ ocmClient' = TRUE
    /\ writer' = "idle"
    /\ UNCHANGED <<objVars, healthy, ocmVars, reader, queue, passVars, bounds>>

\* The Addons cannot be listed: the lock is released and no client stored.
requeueAllAddonsFails ==
    /\ writer = "waiting" /\ ~reader
    /\ faults < MaxFaults
    /\ faults' = faults + 1
    /\ writer' = "idle"
    /\ UNCHANGED <<objVars, healthy, ocmVars, ocmClient, reader, queue, passVars, edits, moves>>

-----------------------------------------------------------------------------
(* Reconcile.                                                              *)

\* Reconcile goes on at p with a in hand; the RLock is held in the calls to the
\* policy's endpoint only.
Goto(p, a) ==
    /\ pc' = p
    /\ snap' = a
    /\ reader' = (p \in {"get", "startFirst", "start", "complete"})

addonIsBeingUpgraded(a) ==
    0 \notin {a.version, a.observedVersion} /\ a.version # a.observedVersion

reconcile ==
    /\ pc = "idle" /\ queue
    /\ queue' = FALSE
    /\ again' = FALSE
    /\ current' = IF "cache" \in current THEN current \cup {"snap"} ELSE current \ {"snap"}
    /\ Goto("policy", IF addonIsBeingUpgraded(cache) THEN cache
                      ELSE [cache EXCEPT !.available = healthy])
    /\ UNCHANGED <<obj, cache, healthy, ocmVars, ocmClient, writer, bounds>>

UpgradeCompleteForCurrentVersion(a) ==
    a.policyStatus = [version |-> a.version, value |-> "completed"]

requiresReporting(a) ==
    a.version # 0 /\ a.policy /\ ~UpgradeCompleteForCurrentVersion(a)

\* Mutant: the client is not compared with nil.
handleUpgradePolicyStatusReportingNil ==
    /\ pc = "policy"
    /\ IF upgradePolicyStatusEnabled /\ requiresReporting(snap)
       THEN writer = "idle" /\ Goto("get", snap)
       ELSE Goto("status", snap)
    /\ UNCHANGED <<objVars, healthy, ocmVars, ocmClient, writer, queue, again, bounds>>

\* Mutant: the client is looked at without ocmClientMux.
handleUpgradePolicyStatusReportingUnlocked ==
    /\ pc = "policy"
    /\ Goto(IF upgradePolicyStatusEnabled /\ requiresReporting(snap) /\ ocmClient
            THEN "get" ELSE "status", snap)
    /\ UNCHANGED <<objVars, healthy, ocmVars, ocmClient, writer, queue, again, bounds>>

\* Up to the first call: RLock, and nothing to do without a client.
handleUpgradePolicyStatusReporting ==
    /\ pc = "policy"
    /\ IF upgradePolicyStatusEnabled /\ requiresReporting(snap)
       THEN writer = "idle" /\ Goto(IF ocmClient THEN "get" ELSE "status", snap)
       ELSE Goto("status", snap)
    /\ UNCHANGED <<objVars, healthy, ocmVars, ocmClient, writer, queue, again, bounds>>

SetUpgradePolicyStatus(a, val) ==
    [a EXCEPT !.policyStatus = [version |-> a.version, value |-> val]]

\* Mutant: the upgrade is always reported as started before it is as completed.
getPreviousUpgradePolicyStateValueStarts ==
    /\ pc = "get"
    /\ Goto(IF snap.policyStatus.version = snap.version /\ ~snap.available THEN "status"
            ELSE IF snap.policyStatus.version = snap.version THEN "startFirst" ELSE "start", snap)
    /\ UNCHANGED <<objVars, healthy, ocmVars, ocmClient, writer, queue, again, bounds>>

\* The decision on the state read and the status in hand.
getPreviousUpgradePolicyStateValue ==
    LET was == snap.policyStatus
        legacy == was.value # "none" /\ was.version = 0
    IN  /\ pc = "get"
        /\ \/ /\ legacy /\ policyState \in {"completed", "pending"}
              /\ Goto("status", SetUpgradePolicyStatus(snap, "completed"))
           \/ /\ ~(legacy /\ policyState \in {"completed", "pending"})
              /\ (was.value = "none" \/ was.version # snap.version)
              /\ Goto("start", snap)
           \/ /\ was.value # "none" /\ was.version = snap.version
              /\ Goto(IF ~snap.available THEN "status"
                      ELSE IF policyState = "scheduled" THEN "startFirst" ELSE "complete", snap)
        /\ UNCHANGED <<objVars, healthy, ocmVars, ocmClient, writer, queue, again, bounds>>

reportUpgradeStarted ==
    /\ pc \in {"startFirst", "start"}
    /\ policyState' = "started"
    /\ Goto(IF pc = "start" THEN "status" ELSE "complete", SetUpgradePolicyStatus(snap, "started"))
    /\ UNCHANGED <<objVars, healthy, ocmReport, completedAt, ocmClient, writer, queue,
                   again, bounds>>

reportUpgradeCompleted ==
    /\ pc = "complete"
    /\ policyState' = "completed"
    /\ completedAt' = snap.version
    /\ Goto("status", SetUpgradePolicyStatus(snap, "completed"))
    /\ UNCHANGED <<objVars, healthy, ocmReport, ocmClient, writer, queue,
                   again, bounds>>

\* A call to the policy's endpoint fails; a patch may have reached OCM all the same.
upgradePolicyCallFails ==
    /\ reader
    /\ faults < MaxFaults
    /\ faults' = faults + 1
    /\ again' = TRUE
    /\ \/ UNCHANGED <<policyState, completedAt>>
       \/ pc \in {"startFirst", "start"} /\ policyState' = "started" /\ UNCHANGED completedAt
       \/ pc = "complete" /\ policyState' = "completed" /\ completedAt' = snap.version
    /\ Goto("status", snap)
    /\ UNCHANGED <<objVars, healthy, ocmReport, ocmClient, writer, queue, edits, moves>>

-----------------------------------------------------------------------------
mapToAddonStatusConditions(a) == [version |-> a.version, available |-> a.available]

isCurrentStatusDifferentFromPrevious(a) == a.hash # {mapToAddonStatusConditions(a)}

\* ocmClient is read without its mutex.
handleOCMAddOnStatusReporting ==
    /\ pc = "status"
    /\ Goto(IF statusReportingEnabled /\ isCurrentStatusDifferentFromPrevious(snap) /\ ocmClient
            THEN "post" ELSE "save", snap)
    /\ UNCHANGED <<objVars, healthy, ocmVars, ocmClient, writer, queue, again, bounds>>

setLastReportedStatus(a) == [a EXCEPT !.hash = {mapToAddonStatusConditions(a)}]

postAddonStatus ==
    /\ pc = "post"
    /\ ocmReport' = {mapToAddonStatusConditions(snap)}
    /\ Goto("save", setLastReportedStatus(snap))
    /\ UNCHANGED <<objVars, healthy, policyState, completedAt, ocmClient, writer, queue, again, bounds>>

\* Mutant: the status counts as reported whatever the call returned.
postAddonStatusFailsUnseen ==
    /\ pc = "post"
    /\ faults < MaxFaults
    /\ faults' = faults + 1
    /\ again' = TRUE
    /\ UNCHANGED ocmReport
    /\ Goto("save", setLastReportedStatus(snap))
    /\ UNCHANGED <<objVars, healthy, policyState, completedAt, ocmClient, writer, queue, edits, moves>>

\* The call fails; the report may have reached OCM all the same.
postAddonStatusFails ==
    /\ pc = "post"
    /\ faults < MaxFaults
    /\ faults' = faults + 1
    /\ again' = TRUE
    /\ \/ UNCHANGED ocmReport
       \/ ocmReport' = {mapToAddonStatusConditions(snap)}
    /\ Goto("save", snap)
    /\ UNCHANGED <<objVars, healthy, policyState, completedAt, ocmClient, writer, queue, edits, moves>>

\* The end of Reconcile: observedVersion and Status().Update, which a copy that is
\* not current, or a fault, fails; an error brings the key back.  A status that does
\* not change makes no new version.
updateStatus ==
    LET a == [snap EXCEPT !.observedVersion = snap.version]
        save == "snap" \in current
    IN  /\ pc = "save"
        /\ \/ /\ save
              /\ obj' = a
              /\ current' = IF a = obj THEN current \ {"snap"} ELSE {}
              /\ queue' = (queue \/ again)
              /\ UNCHANGED faults
           \/ /\ \/ ~save /\ UNCHANGED faults
                 \/ faults < MaxFaults /\ faults' = faults + 1
              /\ queue' = TRUE
              /\ current' = current \ {"snap"}
              /\ UNCHANGED obj
        /\ Goto("idle", NoAddon)
        /\ again' = FALSE
        /\ UNCHANGED <<cache, healthy, ocmVars, ocmClient, writer, edits, moves>>

-----------------------------------------------------------------------------
\* A process that just started on an Addon, which an earlier operator, one that
\* did not know the version in .status.upgradePolicy, may have served.
Init ==
    /\ \E val \in {"none", "started", "completed"}:
           obj = [NoAddon EXCEPT !.version = 1, !.policy = TRUE, !.observedVersion = 1,
                                 !.policyStatus = [version |-> 0, value |-> val]]
    /\ cache = obj /\ snap = NoAddon /\ current = {"cache"}
    /\ healthy = FALSE
    /\ policyState \in PolicyState
    /\ ocmReport = {} /\ completedAt = 0
    /\ ocmClient = FALSE /\ writer = "idle" /\ reader = FALSE
    /\ queue = TRUE /\ pc = "idle" /\ again = FALSE
    /\ edits = 0 /\ moves = 0 /\ faults = 0

policyCalls ==
    getPreviousUpgradePolicyStateValue \/ reportUpgradeStarted \/ reportUpgradeCompleted

Worker ==
    \/ reconcile \/ handleUpgradePolicyStatusReporting \/ policyCalls
    \/ handleOCMAddOnStatusReporting \/ postAddonStatus \/ updateStatus

Injector == InjectOCMClient \/ storeOCMClient

Next ==
    \/ Worker \/ handleOCMClient \/ Injector
    \/ EditAddon \/ OCMSchedules \/ HealthChanges \/ Sync
    \/ Restart \/ requeueAllAddonsFails \/ upgradePolicyCallFails \/ postAddonStatusFails

Spec == Init /\ [][Next]_vars

\* The goroutines of the two controllers keep running and the watch delivers.
FairSpec == Spec /\ WF_vars(Worker) /\ WF_vars(Injector) /\ WF_vars(Sync)

-----------------------------------------------------------------------------
\* Reconcile reports "completed" once: an upgrade that OCM was told is completed is
\* never reported as started again for the same version, whatever stale copy, lost
\* response or failed status update the passes after it meet.
PolicyNotReopened ==
    [][policyState = "completed" /\ policyState' = "started" => snap.version # completedAt]_vars

\* When another status hash is saved, OCM holds just that report: no error of
\* PostAddOnStatus passes for a report, and no other pass came in between.
HashIsReported == [][obj'.hash # obj.hash => obj'.hash = ocmReport]_vars

\* An Addon that stays healthy at a version with an upgrade policy comes to have the
\* upgrade recorded as completed, once there is a client: InjectOCMClient requeues the
\* Addons before it stores the client, but a pass that needs it waits for its lock.
UpgradeRecorded ==
    upgradePolicyStatusEnabled =>
        \A v \in 1..MaxVersion:
            <>[](ocmClient /\ healthy /\ obj.policy /\ obj.version = v)
                => <>[](obj.policyStatus = [version |-> v, value |-> "completed"])

\* .status.ocmReportedStatusHash "Tracks the last addon status reported to OCM"
\* (addon_types.go:402): when the status of an Addon settles and there is a client,
\* OCM comes to have this status ("All Addons will be requeued when the client
\* becomes available for the first time", status_reporting.go:30).
OCMUpToDate ==
    \A r \in Report:
        <>[](ocmClient /\ mapToAddonStatusConditions(obj) = r) => <>[](ocmReport = {r})
=============================================================================
