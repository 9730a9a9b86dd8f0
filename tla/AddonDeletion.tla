--------------------------- MODULE AddonDeletion ---------------------------
(***************************************************************************)
(* The deletion protocol of an Addon: the delete annotation from OCM, the  *)
(* deletion sub-reconciler that notifies the addon's operator through a    *)
(* ConfigMap and through the AddonInstance, waits for its acknowledgement  *)
(* (the CSV gone, or the AddonInstance ReadyToBeDeleted) and reports       *)
(* ReadyToBeDeleted or DeleteTimeout, and the passes of Reconcile around   *)
(* it.  Each API call of the sub-reconciler is a step.                     *)
(*                                                                         *)
(* Time is abstracted to elapsed: more than the delete timeout has passed  *)
(* since the lastTransitionTime saved with ReadyToBeDeleted=False.  A      *)
(* RequeueAfter of that length, armed later than this time, fires with     *)
(* elapsed only.                                                           *)
(***************************************************************************)
EXTENDS Naturals

CONSTANTS
    MaxEdits,    \* bound: edits of the Addon by its users
    MaxFaults,   \* bound: API calls that fail
    MaxRestarts  \* bound: kills of the operator's process

ASSUME AddonDeletionAssumption ==
    /\ MaxEdits \in Nat /\ MaxFaults \in Nat /\ MaxRestarts \in Nat

VARIABLES
    \* in the API server
    obj,        \* the Addon: delete annotation, ReadyToBeDeleted, DeleteTimeout
    elapsed,    \* whether the delete timeout has passed since obj.ready became False
    configMap,  \* the delete ConfigMap in the addon's namespace
    csv,        \* the current CSV as the Operator object shows it
    instance,   \* the AddonInstance
    \* in the operator's process
    cache, current, mapped, queue,
    timer,      \* whether a RequeueAfter of the delete timeout is pending
    pc, snap,
    fresh,      \* whether the running pass turned ReadyToBeDeleted to False
    again,      \* what the pass asks for: "no", "requeue" or "timer"
    \* bounds
    edits, faults, restarts

apiVars    == <<obj, elapsed, cache, current>>
targetVars == <<configMap, csv, instance>>
queueVars  == <<mapped, queue, timer>>
passVars   == <<pc, snap, fresh, again>>
bounds     == <<edits, faults, restarts>>
vars       == <<apiVars, targetVars, queueVars, passVars, bounds>>

\* ackRequired is .spec.deleteAckRequired, ready the ReadyToBeDeleted condition, timeout
\* whether DeleteTimeout is True.
Addon ==
    [ackRequired: BOOLEAN, marked: BOOLEAN, ready: {"none", "False", "True"}, timeout: BOOLEAN]

\* csv: "absent" while the Operator or the Subscription does not exist, "unlisted" when
\* the Operator does not list the currentCSV of the Subscription (OLM is installing it
\* or upgrading to it), "listed", or "removed" by the addon's operator.
AddonInstance == [exists: BOOLEAN, marked: BOOLEAN, ready: BOOLEAN]

PC == {"idle", "deletion", "legacyNotify", "legacyAck", "instanceNotify", "instanceAck",
       "timeout", "rest", "status"}

TypeOK ==
    /\ obj \in Addon /\ cache \in Addon /\ snap \in Addon
    /\ elapsed \in BOOLEAN /\ (elapsed => obj.ready # "none")
    /\ configMap \in {"none", "unlabelled", "labelled"}
    /\ csv \in {"absent", "unlisted", "listed", "removed"}
    /\ instance \in AddonInstance
    /\ current \subseteq {"cache", "snap"}
    /\ obj.timeout => obj.ready # "none"
    /\ mapped \in BOOLEAN /\ queue \in BOOLEAN /\ timer \in BOOLEAN /\ fresh \in BOOLEAN
    /\ pc \in PC /\ again \in {"no", "requeue", "timer"}
    /\ edits \in 0..MaxEdits /\ faults \in 0..MaxFaults /\ restarts \in 0..MaxRestarts

-----------------------------------------------------------------------------
(* OCM, OLM and the addon's operator.                                      *)

\* OCM sets the delete annotation, or takes it back.
EditAnnotation ==
    /\ edits < MaxEdits
    /\ edits' = edits + 1
    /\ obj' = [obj EXCEPT !.marked = ~@]
    /\ current' = {}
    /\ UNCHANGED <<elapsed, cache, targetVars, queueVars, passVars, faults, restarts>>

\* OLM installs the CSV, or starts an upgrade to another one; the Operator's events
\* reach the Addon through the handler's map only.
OLM ==
    /\ edits < MaxEdits
    /\ edits' = edits + 1
    /\ \/ csv = "absent" /\ csv' = "unlisted"
       \/ csv = "unlisted" /\ csv' = "listed"
       \/ csv = "listed" /\ csv' = "unlisted"
    /\ queue' = (queue \/ mapped)
    /\ UNCHANGED <<apiVars, configMap, instance, mapped, timer, passVars,
                   faults, restarts>>

\* The addon's operator runs once its CSV is installed, cleans up when it sees one of
\* the notices, then removes the CSV or sets its AddonInstance ReadyToBeDeleted.
AddonAcks ==
    /\ csv = "listed"
    /\ \/ /\ configMap = "labelled"
          /\ csv' = "removed"
          /\ queue' = (queue \/ mapped)
          /\ UNCHANGED instance
       \/ /\ instance.marked /\ ~instance.ready
          /\ instance' = [instance EXCEPT !.ready = TRUE]
          /\ queue' = TRUE
          /\ UNCHANGED csv
    /\ UNCHANGED <<apiVars, configMap, mapped, timer, passVars, bounds>>

TimeoutElapses ==
    /\ obj.ready = "False" /\ ~elapsed
    /\ elapsed' = TRUE
    /\ UNCHANGED <<obj, cache, current, targetVars, queueVars, passVars, bounds>>

-----------------------------------------------------------------------------
(* The operator's process.                                                 *)

Sync ==
    /\ "cache" \notin current
    /\ cache' = obj
    /\ current' = current \cup {"cache"}
    /\ queue' = TRUE
    /\ UNCHANGED <<obj, elapsed, targetVars, mapped, timer, passVars, bounds>>

TimerFires ==
    /\ timer /\ elapsed
    /\ timer' = FALSE
    /\ queue' = TRUE
    /\ UNCHANGED <<apiVars, targetVars, mapped, passVars, bounds>>

Restart ==
    /\ restarts < MaxRestarts
    /\ restarts' = restarts + 1
    /\ cache' = obj /\ current' = {"cache"}
    /\ queue' = TRUE /\ mapped' = FALSE /\ timer' = FALSE
    /\ pc' = "idle" /\ snap' = obj /\ fresh' = FALSE /\ again' = "no"
    /\ UNCHANGED <<obj, elapsed, targetVars, edits, faults>>

Goto(p) == pc' = p /\ UNCHANGED <<snap, fresh, again>>

\* The sub-reconciler returns resultNil with the object in hand changed to a.
ReturnNil(a) == pc' = "rest" /\ snap' = a /\ UNCHANGED <<fresh, again>>

\* An API call fails: Reconcile still saves the status in hand, and the key returns.
Fault ==
    /\ pc \notin {"idle", "deletion", "timeout", "status"}
    /\ faults < MaxFaults
    /\ faults' = faults + 1
    /\ pc' = "status" /\ again' = "requeue"
    /\ UNCHANGED <<snap, fresh, apiVars, targetVars, queueVars, edits, restarts>>

Get ==
    /\ pc = "idle" /\ queue
    /\ queue' = FALSE
    /\ pc' = "deletion" /\ snap' = cache /\ fresh' = FALSE /\ again' = "no"
    /\ current' = IF "cache" \in current THEN current \cup {"snap"} ELSE current \ {"snap"}
    /\ UNCHANGED <<obj, elapsed, cache, targetVars, mapped, timer, bounds>>

removeDeleteTimeoutCondition(a) == [a EXCEPT !.timeout = FALSE]
reportAddonReadyToBeDeletedStatus(a, value) == [a EXCEPT !.ready = value]
reportAddonDeletionTimedOut(a) == [a EXCEPT !.timeout = TRUE]
awaitingRemoteDeletion(a) == a.ready = "True"

\* Mutant: a DeleteTimeout reported earlier stays.
AcknowledgedLate(a) == reportAddonReadyToBeDeletedStatus(a, "True")

Acknowledged(a) ==
    reportAddonReadyToBeDeletedStatus(removeDeleteTimeoutCondition(a), "True")

\* Mutant: ReadyToBeDeleted, but not DeleteTimeout, is dropped with the annotation.
addonDeletionReconcilerForgets ==
    /\ pc = "deletion"
    /\ \/ ~snap.marked /\ ReturnNil([snap EXCEPT !.ready = "none"])
       \/ snap.marked /\ awaitingRemoteDeletion(snap) /\ ReturnNil(snap)
       \/ /\ snap.marked /\ ~awaitingRemoteDeletion(snap)
          /\ pc' = "legacyNotify"
          /\ snap' = reportAddonReadyToBeDeletedStatus(snap, "False")
          /\ fresh' = (snap.ready # "False")
          /\ UNCHANGED again
    /\ UNCHANGED <<apiVars, targetVars, queueVars, bounds>>

\* addonDeletionReconciler.Reconcile, up to its handlers.
addonDeletionReconciler ==
    /\ pc = "deletion"
    /\ \/ /\ ~snap.marked \/ awaitingRemoteDeletion(snap)
          /\ ReturnNil(snap)
       \/ /\ snap.marked /\ ~awaitingRemoteDeletion(snap) /\ ~snap.ackRequired
          /\ ReturnNil(Acknowledged(snap))
       \/ /\ snap.marked /\ ~awaitingRemoteDeletion(snap) /\ snap.ackRequired
          /\ pc' = "legacyNotify"
          /\ snap' = reportAddonReadyToBeDeletedStatus(snap, "False")
          /\ fresh' = (snap.ready # "False")
          /\ UNCHANGED again
    /\ UNCHANGED <<apiVars, targetVars, queueVars, bounds>>

\* Mutant: a ConfigMap that exists is taken for the notice, whatever its labels.
legacyNotifyAddonExisting ==
    /\ pc = "legacyNotify"
    /\ configMap' = IF configMap = "none" THEN "labelled" ELSE configMap
    /\ Goto("legacyAck")
    /\ UNCHANGED <<apiVars, csv, instance, queueVars, bounds>>

\* The ConfigMap is created with the delete label, or patched to have it.
legacyNotifyAddon ==
    /\ pc = "legacyNotify"
    /\ configMap' = "labelled"
    /\ Goto("legacyAck")
    /\ UNCHANGED <<apiVars, csv, instance, queueVars, bounds>>

CSVmissing == csv \in {"unlisted", "removed"}

legacyAckReceivedFromAddon ==
    /\ pc = "legacyAck"
    /\ IF CSVmissing THEN ReturnNil(Acknowledged(snap)) ELSE Goto("instanceNotify")
    /\ UNCHANGED <<apiVars, targetVars, queueVars, bounds>>

\* An update of the AddonInstance, which the controller Owns, brings the key back.
instanceNotifyAddon ==
    /\ pc = "instanceNotify"
    /\ instance' = IF instance.exists THEN [instance EXCEPT !.marked = TRUE] ELSE instance
    /\ queue' = (queue \/ instance' # instance)
    /\ Goto("instanceAck")
    /\ UNCHANGED <<apiVars, configMap, csv, mapped, timer, bounds>>

instanceAckReceivedFromAddon ==
    /\ pc = "instanceAck"
    /\ IF instance.ready THEN ReturnNil(Acknowledged(snap)) ELSE Goto("timeout")
    /\ UNCHANGED <<apiVars, targetVars, queueVars, bounds>>

\* The lastTransitionTime in hand is the saved one, unless this pass set it.
deletionTimedOut == snap.ready = "False" /\ ~fresh /\ elapsed

\* Mutant: the pass stops without a RequeueAfter.
handleTimeoutStops ==
    /\ pc = "timeout"
    /\ IF deletionTimedOut THEN ReturnNil(reportAddonDeletionTimedOut(snap))
                           ELSE Goto("status")
    /\ UNCHANGED <<apiVars, targetVars, queueVars, bounds>>

\* The timeout is reported, or the pass ends with a RequeueAfter of its length.
handleTimeout ==
    /\ pc = "timeout"
    /\ IF deletionTimedOut
       THEN ReturnNil(reportAddonDeletionTimedOut(snap))
       ELSE pc' = "status" /\ again' = "timer" /\ UNCHANGED <<snap, fresh>>
    /\ UNCHANGED <<apiVars, targetVars, queueVars, bounds>>

reconcileAddonInstance(i) == [i EXCEPT !.exists = TRUE]

\* The sub-reconcilers after the deletion one, as far as the protocol depends on them:
\* they create the AddonInstance, and the OLM one maps the Operator to the Addon; a
\* new mapping asks for another pass, and so does a CSV that is not there, unless the
\* delete ConfigMap explains it.
laterSubReconcilers ==
    /\ pc = "rest"
    /\ instance' = reconcileAddonInstance(instance)
    /\ mapped' = (mapped \/ csv # "absent")
    /\ again' = IF \/ mapped' # mapped \/ csv = "absent"
                   \/ CSVmissing /\ configMap # "labelled"
                THEN "requeue" ELSE "no"
    /\ queue' = (queue \/ instance' # instance)
    /\ pc' = "status"
    /\ UNCHANGED <<snap, fresh, apiVars, configMap, csv, timer, bounds>>

\* Status().Update, or its conflict.
updateStatus ==
    LET saved == "snap" \in current
        changed == saved /\ snap # obj
    IN  /\ pc = "status"
        /\ obj' = IF saved THEN snap ELSE obj
        /\ current' = IF changed THEN {} ELSE current \ {"snap"}
        /\ queue' = (queue \/ again = "requeue" \/ ~saved)
        /\ timer' = (timer \/ (saved /\ again = "timer"))
        /\ pc' = "idle" /\ again' = "no"
        /\ UNCHANGED <<snap, fresh, elapsed, cache, targetVars, mapped, bounds>>

-----------------------------------------------------------------------------
Init ==
    /\ obj \in [ackRequired: BOOLEAN, marked: {FALSE}, ready: {"none"}, timeout: {FALSE}]
    /\ cache = obj /\ snap = obj /\ current = {"cache"}
    /\ elapsed = FALSE
    /\ configMap \in {"none", "unlabelled"}
    /\ csv \in {"absent", "listed"}
    /\ instance = [exists |-> FALSE, marked |-> FALSE, ready |-> FALSE]
    /\ mapped = FALSE /\ queue = TRUE /\ timer = FALSE /\ fresh = FALSE
    /\ pc = "idle" /\ again = "no"
    /\ edits = 0 /\ faults = 0 /\ restarts = 0

Worker ==
    \/ Get \/ addonDeletionReconciler \/ legacyNotifyAddon \/ legacyAckReceivedFromAddon
    \/ instanceNotifyAddon \/ instanceAckReceivedFromAddon \/ handleTimeout
    \/ laterSubReconcilers \/ updateStatus

Next ==
    \/ Worker \/ Sync \/ TimerFires \/ TimeoutElapses \/ Restart \/ Fault
    \/ EditAnnotation \/ OLM \/ AddonAcks

Spec == Init /\ [][Next]_vars

\* The worker serves the queue, the watch delivers, time passes, timers fire.
FairSpec ==
    /\ Spec
    /\ WF_vars(Worker) /\ WF_vars(Sync) /\ WF_vars(TimeoutElapses) /\ WF_vars(TimerFires)

-----------------------------------------------------------------------------
\* An acknowledgement ends the timeout: no saved status has ReadyToBeDeleted=True
\* with DeleteTimeout=True, in whatever order acknowledgement and timeout came.
ReadyClearsTimeout == obj.ready = "True" => ~obj.timeout

\* DeleteTimeout is the addon's fault only: when it is saved, the delete ConfigMap
\* carries its label, also if it existed before and notifying failed at first.
TimeoutAfterNotice == obj.timeout => configMap = "labelled"

\* The wait ends. An acknowledgement that stays is noticed: the Addon becomes
\* ReadyToBeDeleted, even if the operator restarted meanwhile and lost the map that routes
\* the CSV's events. An addon that never acknowledges is reported: with the CSV in place
\* and no ReadyToBeDeleted instance, a marked Addon gets DeleteTimeout.
WaitEnds ==
    /\ <>[](obj.marked /\ (csv = "removed" \/ instance.ready)) => <>(obj.ready = "True")
    /\ <>[](obj.marked /\ obj.ready # "True" /\ csv = "listed" /\ ~instance.ready)
           => <>(obj.timeout)
=============================================================================
