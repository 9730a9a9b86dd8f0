---------------------------- MODULE GlobalPause ----------------------------
(***************************************************************************)
(* The global pause of the addon operator: the AddonOperator controller    *)
(* that turns .spec.pause into the in-memory flag globalPause, the         *)
(* globalPauseMux that orders it with the Addon controller's worker, and   *)
(* that worker as far as the pause reaches it.                             *)
(*                                                                         *)
(* resourceVersions are not numbers here: current is the set of copies of  *)
(* the AddonOperator object ("cache": the informer's, "snap": the one the  *)
(* running Reconcile works on) that hold the version the API server holds, *)
(* with "generation" when the cache holds its generation at least.         *)
(* An update of a copy that is not current is a conflict.                  *)
(***************************************************************************)
EXTENDS Naturals, FiniteSets

CONSTANTS
    Addons,           \* names of Addon objects
    FeatureFlags,     \* values .spec.featureFlags may take
    NoFlags,          \* the empty .spec.featureFlags
    NoAddon,          \* the worker has no Addon in hand
    MaxSpecChanges,   \* bound: edits of the AddonOperator object by its users
    MaxRestarts,      \* bound: kills of the operator's process
    MaxFaults         \* bound: API calls that fail without a conflict

ASSUME GlobalPauseAssumption ==
    /\ NoFlags \in FeatureFlags
    /\ NoAddon \notin Addons
    /\ MaxSpecChanges \in Nat
    /\ MaxRestarts \in Nat
    /\ MaxFaults \in Nat

VARIABLES
    \* in the API server
    ao,               \* the AddonOperator object
    addon,            \* the Addon objects: lifecycle and Paused condition
    \* in the operator's process
    aoCache,          \* the informer's copy of ao
    current,          \* which copies of ao hold its current resourceVersion
    flags,            \* AddonOperatorReconciler.FeatureTogglesState
    aoQueue,          \* whether the AddonOperator key is in the workqueue
    aoTimer,          \* whether a RequeueAfter of it is pending
    aoPc,             \* where AddonOperatorReconciler.Reconcile stands
    snap,             \* the object that Reconcile works on
    toRequeue,        \* Addons requeueAllAddons has still to send
    globalPause,      \* AddonReconciler.globalPause
    writer,           \* globalPauseMux: "free", "waiting" or "held"
    reader,           \* globalPauseMux: whether the worker holds its RLock
    addonQueue,       \* Addon keys in the workqueue
    wPc,              \* where the worker's AddonReconciler.Reconcile stands
    wAddon, wCond,    \* its Addon, and the Paused condition of its copy
    wFresh,           \* whether that copy has the object's resourceVersion
    \* history and bounds
    observed,         \* whether .status.observedGeneration = .metadata.generation
    booted,           \* whether this process finished a pass over ao
    changes, restarts, faults

server   == <<ao, addon>>
aoVars   == <<aoCache, current, flags, aoQueue, aoTimer, aoPc, snap, toRequeue>>
lockVars == <<globalPause, writer, reader>>
workVars == <<addonQueue, wPc, wAddon, wCond, wFresh>>
history  == <<observed, booted, changes, restarts, faults>>
vars     == <<server, aoVars, lockVars, workVars, history>>

PausedCondition == {"none", "AddonOperatorPaused"}

\* An Addon object: where it is in its life, and the reason of its Paused condition.
AddonObject == [life: {"absent", "live", "deleting"}, cond: PausedCondition]
NoObject == [life |-> "absent", cond |-> "none"]
LiveObject == [life |-> "live", cond |-> "none"]

\* pause is .spec.pause, paused whether the Paused condition is True.
AddonOperator ==
    [exists: BOOLEAN, pause: BOOLEAN, paused: BOOLEAN, featureFlags: FeatureFlags]

NoAddonOperator ==
    [exists |-> FALSE, pause |-> FALSE, paused |-> FALSE, featureFlags |-> NoFlags]

AOPc == {"idle", "create", "handlePause", "lock", "requeue", "report", "ready"}
WorkerPc == {"idle", "rlock", "check", "sub", "deletion", "status"}

TypeOK ==
    /\ ao \in AddonOperator
    /\ addon \in [Addons -> AddonObject]
    /\ aoCache \in AddonOperator
    /\ current \in SUBSET {"cache", "generation", "snap"}
    /\ flags \in FeatureFlags
    /\ aoQueue \in BOOLEAN /\ aoTimer \in BOOLEAN
    /\ aoPc \in AOPc
    /\ snap \in AddonOperator
    /\ toRequeue \in SUBSET Addons
    /\ globalPause \in BOOLEAN
    /\ writer \in {"free", "waiting", "held"}
    /\ reader \in BOOLEAN
    /\ addonQueue \in SUBSET Addons
    /\ wPc \in WorkerPc
    /\ wAddon \in Addons \cup {NoAddon}
    /\ wPc # "idle" => wAddon \in Addons
    /\ wCond \in PausedCondition
    /\ wFresh \in BOOLEAN
    /\ observed \in BOOLEAN /\ booted \in BOOLEAN
    /\ changes \in 0..MaxSpecChanges
    /\ restarts \in 0..MaxRestarts
    /\ faults \in 0..MaxFaults

Exists(a) == addon[a].life # "absent"

-----------------------------------------------------------------------------
(* The users of the API: they edit the AddonOperator and the Addons.       *)

\* A new generation of the AddonOperator, or its deletion, that no copy holds.
UserWrites(obj) ==
    /\ changes < MaxSpecChanges
    /\ changes' = changes + 1
    /\ ao' = obj
    /\ current' = {}
    /\ observed' = FALSE
    /\ UNCHANGED <<addon, aoCache, flags, aoQueue, aoTimer, aoPc, snap, toRequeue,
                   lockVars, workVars, booted, restarts, faults>>

SetPause ==
    /\ ao.exists
    /\ UserWrites([ao EXCEPT !.pause = ~@])

SetFeatureFlags ==
    /\ ao.exists
    /\ \E f \in FeatureFlags \ {ao.featureFlags}:
           UserWrites([ao EXCEPT !.featureFlags = f])

DeleteAddonOperator ==
    /\ ao.exists
    /\ UserWrites(NoAddonOperator)

\* The watch delivers the new Addon to the cache and its key to the workqueue.
CreateAddon(a) ==
    /\ addon[a].life = "absent"
    /\ addon' = [addon EXCEPT ![a] = LiveObject]
    /\ addonQueue' = addonQueue \cup {a}
    /\ wFresh' = (wFresh /\ wAddon # a)
    /\ UNCHANGED <<ao, aoVars, lockVars, wPc, wAddon, wCond, history>>

\* Without the cacheFinalizer the object is gone at once.
DeleteAddon(a) ==
    /\ addon[a].life = "live"
    /\ \E gone \in BOOLEAN:
           addon' = [addon EXCEPT ![a] =
                        IF gone THEN NoObject
                                ELSE [@ EXCEPT !.life = "deleting"]]
    /\ addonQueue' = addonQueue \cup {a}
    /\ wFresh' = (wFresh /\ wAddon # a)
    /\ UNCHANGED <<ao, aoVars, lockVars, wPc, wAddon, wCond, history>>

-----------------------------------------------------------------------------
(* The AddonOperator controller.                                           *)

\* The informer catches up. GenerationChangedPredicate keeps an update of the
\* status alone from queueing the key.
SyncAddonOperator ==
    /\ "cache" \notin current
    /\ aoCache' = ao
    /\ current' = current \cup {"cache", "generation"}
    /\ aoQueue' = (aoQueue \/ "generation" \notin current)
    /\ UNCHANGED <<server, flags, aoTimer, aoPc, snap, toRequeue, lockVars, workVars, history>>

AOTimer ==
    /\ aoTimer
    /\ aoTimer' = FALSE
    /\ aoQueue' = TRUE
    /\ UNCHANGED <<server, aoCache, current, flags, aoPc, snap, toRequeue,
                   lockVars, workVars, history>>

\* What a process starts with: empty memory, synced caches, every key queued,
\* FeatureTogglesState read from the object by setup.
Boot ==
    /\ aoCache' = ao
    /\ current' = {"cache", "generation"}
    /\ flags' = ao.featureFlags
    /\ aoQueue' = TRUE
    /\ aoTimer' = FALSE
    /\ aoPc' = "idle"
    /\ snap' = NoAddonOperator
    /\ toRequeue' = {}
    /\ globalPause' = FALSE
    /\ writer' = "free"
    /\ reader' = FALSE
    /\ addonQueue' = {a \in Addons: Exists(a)}
    /\ wPc' = "idle"
    /\ wAddon' = NoAddon
    /\ wCond' = "none"
    /\ wFresh' = FALSE
    /\ booted' = FALSE

Restart ==
    /\ restarts < MaxRestarts
    /\ restarts' = restarts + 1
    /\ Boot
    /\ UNCHANGED <<server, observed, changes, faults>>

\* Reconcile reads the cached object; other feature flags than the process was
\* started with end it, and Kubernetes starts it again.
AOGet ==
    /\ aoPc = "idle"
    /\ aoQueue
    /\ ~(aoCache.exists /\ aoCache.featureFlags # flags)
    /\ aoQueue' = FALSE
    /\ snap' = aoCache
    /\ current' = IF "cache" \in current THEN current \cup {"snap"} ELSE current \ {"snap"}
    /\ aoPc' = IF aoCache.exists THEN "handlePause" ELSE "create"
    /\ UNCHANGED <<server, aoCache, flags, aoTimer, toRequeue, lockVars, workVars, history>>

AOExit ==
    /\ aoPc = "idle"
    /\ aoQueue
    /\ aoCache.exists
    /\ aoCache.featureFlags # flags
    /\ Boot
    /\ UNCHANGED <<server, observed, changes, restarts, faults>>

\* Reconcile returns an error: the key is queued again.
AOError ==
    /\ aoPc' = "idle"
    /\ aoQueue' = TRUE

\* An API call fails for a reason of its own.
Fault ==
    /\ faults < MaxFaults
    /\ faults' = faults + 1

handleAddonOperatorCreation ==
    /\ aoPc = "create"
    /\ \/ /\ ~ao.exists
          /\ ao' = [NoAddonOperator EXCEPT !.exists = TRUE]
          /\ current' = {}
          /\ observed' = FALSE
          /\ aoPc' = "idle"
          /\ UNCHANGED <<aoQueue, faults>>
       \/ /\ ao.exists             \* AlreadyExists
          /\ AOError
          /\ UNCHANGED <<ao, current, observed, faults>>
       \/ /\ Fault
          /\ AOError
          /\ UNCHANGED <<ao, current, observed>>
    /\ UNCHANGED <<addon, aoCache, flags, aoTimer, snap, toRequeue, lockVars, workVars,
                   booted, changes, restarts>>

\* Mutant: the condition is reported before the pause is set.
handleGlobalPauseReportsFirst ==
    /\ aoPc = "handlePause"
    /\ aoPc' = IF snap.pause = snap.paused THEN "ready" ELSE "report"
    /\ UNCHANGED <<server, aoCache, current, flags, aoQueue, aoTimer, snap, toRequeue,
                   lockVars, workVars, history>>

handleGlobalPause ==
    /\ aoPc = "handlePause"
    /\ aoPc' = IF snap.pause = snap.paused THEN "ready" ELSE "lock"
    /\ UNCHANGED <<server, aoCache, current, flags, aoQueue, aoTimer, snap, toRequeue,
                   lockVars, workVars, history>>

\* Lock() of globalPauseMux: from here on it admits no new reader.
setGlobalPauseLock ==
    /\ aoPc = "lock"
    /\ writer = "free"
    /\ writer' = "waiting"
    /\ UNCHANGED <<server, aoVars, globalPause, reader, workVars, history>>

\* Under the lock: set the flag, then list the Addons of the cache, which may fail.
setGlobalPause ==
    /\ aoPc = "lock"
    /\ writer = "waiting"
    /\ ~reader
    /\ globalPause' = snap.pause
    /\ \/ /\ writer' = "held"
          /\ toRequeue' = {a \in Addons: Exists(a)}
          /\ aoPc' = "requeue"
          /\ UNCHANGED <<aoQueue, faults>>
       \/ /\ Fault
          /\ writer' = "free"
          /\ AOError
          /\ UNCHANGED toRequeue
    /\ UNCHANGED <<server, aoCache, current, flags, aoTimer, snap, reader, workVars,
                   observed, booted, changes, restarts>>

\* Mutant: the event is dropped instead of sent.
requeueDropped(a) ==
    /\ aoPc = "requeue"
    /\ a \in toRequeue
    /\ toRequeue' = toRequeue \ {a}
    /\ UNCHANGED <<server, aoCache, current, flags, aoQueue, aoTimer, aoPc, snap,
                   lockVars, workVars, history>>

\* One send on addonRequeueCh, whose receiver queues the key.
requeueAllAddons(a) ==
    /\ aoPc = "requeue"
    /\ a \in toRequeue
    /\ toRequeue' = toRequeue \ {a}
    /\ addonQueue' = addonQueue \cup {a}
    /\ UNCHANGED <<server, aoCache, current, flags, aoQueue, aoTimer, aoPc, snap,
                   lockVars, wPc, wAddon, wCond, wFresh, history>>

setGlobalPauseUnlock ==
    /\ aoPc = "requeue"
    /\ toRequeue = {}
    /\ writer' = "free"
    /\ aoPc' = "report"
    /\ UNCHANGED <<server, aoCache, current, flags, aoQueue, aoTimer, snap, toRequeue,
                   globalPause, reader, workVars, history>>

\* Status().Update of snap with the Paused condition set to p; the response
\* makes snap the current copy.
StatusUpdate(p) ==
    /\ "snap" \in current
    /\ ao' = [ao EXCEPT !.paused = p]
    /\ snap' = [snap EXCEPT !.paused = p]
    /\ current' = current \ {"cache"}
    /\ observed' = TRUE

StatusUpdateFails ==
    /\ \/ "snap" \notin current /\ UNCHANGED faults
       \/ Fault
    /\ AOError
    /\ UNCHANGED <<ao, snap, current, observed>>

\* reportAddonOperatorPauseStatus and removeAddonOperatorPauseCondition
reportAddonOperatorPauseStatus ==
    /\ aoPc = "report"
    /\ \/ /\ StatusUpdate(snap.pause)
          /\ aoPc' = "ready"
          /\ UNCHANGED <<aoQueue, faults>>
       \/ StatusUpdateFails
    /\ UNCHANGED <<addon, aoCache, flags, aoTimer, toRequeue, lockVars, workVars,
                   booted, changes, restarts>>

\* handleOCMClient, whose error ends the pass like a failed update, and the
\* readiness report.
reportAddonOperatorReadinessStatus ==
    /\ aoPc = "ready"
    /\ \/ /\ StatusUpdate(snap.paused)
          /\ aoPc' = "idle"
          /\ aoTimer' = TRUE
          /\ booted' = TRUE
          /\ UNCHANGED <<aoQueue, faults>>
       \/ /\ StatusUpdateFails
          /\ UNCHANGED <<aoTimer, booted>>
    /\ UNCHANGED <<addon, aoCache, flags, toRequeue, lockVars, workVars, changes, restarts>>

-----------------------------------------------------------------------------
(* The Addon controller's worker.                                          *)

\* Reconcile reads the Addon; a deleted one bypasses the pause.
Get(a) ==
    /\ wPc = "idle"
    /\ a \in addonQueue
    /\ addonQueue' = addonQueue \ {a}
    /\ IF Exists(a)
       THEN /\ wAddon' = a
            /\ wCond' = addon[a].cond
            /\ wFresh' = TRUE
            /\ wPc' = IF addon[a].life = "deleting" THEN "deletion" ELSE "rlock"
       ELSE UNCHANGED <<wPc, wAddon, wCond, wFresh>>
    /\ UNCHANGED <<server, aoVars, lockVars, history>>

\* Mutant: the Addon in hand is forgotten before the closing status update.
handleAddonCRDeletionForgets ==
    /\ wPc = "deletion"
    /\ wPc' = "status"
    /\ wAddon' = NoAddon
    /\ UNCHANGED <<server, aoVars, lockVars, addonQueue, wCond, wFresh, history>>

\* handleAddonCRDeletion removes the finalizer, or has to come back.
handleAddonCRDeletion ==
    /\ wPc = "deletion"
    /\ wPc' = "status"
    /\ \/ /\ wFresh
          /\ addon' = [addon EXCEPT ![wAddon] = NoObject]
          /\ wFresh' = FALSE
          /\ UNCHANGED addonQueue
       \/ /\ addonQueue' = addonQueue \cup {wAddon}
          /\ UNCHANGED <<addon, wFresh>>
    /\ UNCHANGED <<ao, aoVars, lockVars, wAddon, wCond, history>>

RLock ==
    /\ wPc = "rlock"
    /\ writer = "free"
    /\ reader' = TRUE
    /\ wPc' = "check"
    /\ UNCHANGED <<server, aoVars, globalPause, writer, addonQueue, wAddon, wCond, wFresh, history>>

\* Mutant: the RLock covers only the read of the flag.
checkGlobalPauseUnlocks ==
    /\ wPc = "check"
    /\ wCond' = IF globalPause THEN "AddonOperatorPaused" ELSE "none"
    /\ wPc' = IF globalPause THEN "status" ELSE "sub"
    /\ reader' = FALSE
    /\ UNCHANGED <<server, aoVars, globalPause, writer, addonQueue, wAddon, wFresh, history>>

\* A paused pass reports it and returns; another one goes on to the
\* sub-reconcilers with the RLock held.
checkGlobalPause ==
    /\ wPc = "check"
    /\ IF globalPause
       THEN /\ wCond' = "AddonOperatorPaused"
            /\ wPc' = "status"
            /\ reader' = FALSE
       ELSE /\ wCond' = "none"
            /\ wPc' = "sub"
            /\ UNCHANGED reader
    /\ UNCHANGED <<server, aoVars, globalPause, writer, addonQueue, wAddon, wFresh, history>>

\* The sub-reconcilers return, and with them reconcile: RUnlock.
subReconcilersReturn ==
    /\ wPc = "sub"
    /\ wPc' = "status"
    /\ reader' = FALSE
    /\ UNCHANGED <<server, aoVars, globalPause, writer, addonQueue, wAddon, wCond, wFresh, history>>

\* The closing Status().Update: a changed status comes back as an event, a
\* failure (a conflict, the object gone, an API error) queues the key again.
updateStatus ==
    /\ wPc = "status"
    /\ wPc' = "idle"
    /\ wAddon' = NoAddon
    /\ \/ /\ wFresh
          /\ addon' = [addon EXCEPT ![wAddon].cond = wCond]
          /\ addonQueue' = IF addon[wAddon].cond = wCond THEN addonQueue
                                                         ELSE addonQueue \cup {wAddon}
          /\ UNCHANGED faults
       \/ /\ \/ ~wFresh /\ UNCHANGED faults
             \/ Fault
          /\ addonQueue' = addonQueue \cup {wAddon}
          /\ UNCHANGED addon
    /\ UNCHANGED <<ao, aoVars, lockVars, wCond, wFresh, observed, booted, changes, restarts>>

-----------------------------------------------------------------------------
\* A cluster with or without Addons and an AddonOperator that is not paused,
\* and a process that just started on it.
Init ==
    /\ ao \in {NoAddonOperator, [NoAddonOperator EXCEPT !.exists = TRUE]}
    /\ addon \in [Addons -> {NoObject, LiveObject}]
    /\ aoCache = ao
    /\ current = {"cache", "generation"}
    /\ flags = NoFlags
    /\ aoQueue = TRUE
    /\ aoTimer = FALSE
    /\ aoPc = "idle"
    /\ snap = NoAddonOperator
    /\ toRequeue = {}
    /\ globalPause = FALSE
    /\ writer = "free"
    /\ reader = FALSE
    /\ addonQueue = {a \in Addons: Exists(a)}
    /\ wPc = "idle"
    /\ wAddon = NoAddon
    /\ wCond = "none"
    /\ wFresh = FALSE
    /\ observed = FALSE
    /\ booted = FALSE
    /\ changes = 0
    /\ restarts = 0
    /\ faults = 0

Users ==
    \/ SetPause
    \/ SetFeatureFlags
    \/ DeleteAddonOperator
    \/ \E a \in Addons: CreateAddon(a) \/ DeleteAddon(a)

AddonOperatorController ==
    \/ AOGet
    \/ AOExit
    \/ handleAddonOperatorCreation
    \/ handleGlobalPause
    \/ setGlobalPauseLock
    \/ setGlobalPause
    \/ \E a \in Addons: requeueAllAddons(a)
    \/ setGlobalPauseUnlock
    \/ reportAddonOperatorPauseStatus
    \/ reportAddonOperatorReadinessStatus

AddonWorker ==
    \/ \E a \in Addons: Get(a)
    \/ handleAddonCRDeletion
    \/ RLock
    \/ checkGlobalPause
    \/ subReconcilersReturn
    \/ updateStatus

Next ==
    \/ Users
    \/ SyncAddonOperator
    \/ AOTimer
    \/ Restart
    \/ AddonOperatorController
    \/ AddonWorker

\* Each controller's goroutine and the informer keep running; the workqueue
\* hands out every key in turn. Users, restarts and faults owe nothing.
Fairness ==
    /\ WF_vars(SyncAddonOperator)
    /\ WF_vars(AOTimer)
    /\ WF_vars(AddonOperatorController)
    /\ WF_vars(AddonWorker)
    /\ \A a \in Addons: SF_vars(Get(a))

Spec == Init /\ [][Next]_vars
FairSpec == Spec /\ Fairness

-----------------------------------------------------------------------------
(* Properties.                                                             *)

\* While the pause holds, no worker is inside the sub-reconcilers: the flag
\* changes under the write lock, and reconcile (addon_controller.go:419-473)
\* keeps its RLock until the last sub-reconciler has returned.
NoReconcileUnderPause ==
    wPc = "sub" => ~globalPause

\* The Paused condition of an AddonOperator turns True only while the flag is
\* set and is removed only while it is not, in this very process: no restart
\* or error slips between setGlobalPause and the report in handleGlobalPause.
ConditionFollowsFlag ==
    [][ao.exists /\ ao'.exists /\ ao'.paused # ao.paused => ao'.paused = globalPause]_vars

\* Once EnableGlobalPause returned, every live Addon comes to report the pause, and once
\* DisableGlobalPause returned, none keeps reporting it, unless the flag changes again or
\* the Addon is deleted first.
PauseReachesAddons ==
    \A a \in Addons:
        /\ (aoPc = "report" /\ globalPause /\ addon[a].life = "live")
               ~> (~globalPause \/ addon[a] # LiveObject)
        /\ (aoPc = "report" /\ ~globalPause)
               ~> (globalPause \/ addon[a] # [life |-> "live", cond |-> "AddonOperatorPaused"])

\* While the AddonOperator's current generation is observed the pause is in force
\* exactly if it asks for one: .spec.pause is "Pause reconciliation on all Addons
\* in the cluster when set to True".
PauseAsAsked ==
    (booted /\ ao.exists /\ observed) => globalPause = ao.pause
==============================================================================
