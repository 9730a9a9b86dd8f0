------------------------ MODULE AddonDeletionProofs ------------------------
(***************************************************************************)
(* For any number of edits, failing calls and restarts: an acknowledgement *)
(* and DeleteTimeout are never saved together, DeleteTimeout is saved only *)
(* when the addon has been notified, and the operator does not come to     *)
(* rest before an Addon marked for deletion has either of them.            *)
(***************************************************************************)
EXTENDS AddonDeletion, TLAPS

\* What the saved status, the cached one and the one in hand have in common: a
\* DeleteTimeout beside ReadyToBeDeleted=False, of an addon that was notified.
Honest(a) == a.timeout => a.ready = "False" /\ configMap = "labelled"

\* Where the pass stands: ReadyToBeDeleted=False is in hand while the handlers run,
\* and past the first of them the ConfigMap has its label.
Places ==
    /\ pc \in {"legacyNotify", "legacyAck", "instanceNotify", "instanceAck", "timeout"}
           => snap.ready = "False"
    /\ pc \in {"legacyAck", "instanceNotify", "instanceAck", "timeout"}
           => configMap = "labelled"

\* A current copy: the cache equals the object, and the one in hand has a
\* ReadyToBeDeleted condition if the object has.
Copies ==
    /\ "cache" \in current => cache = obj
    /\ "snap" \in current /\ obj.ready # "none" => snap.ready # "none"

IInv == TypeOK /\ Honest(obj) /\ Honest(cache) /\ Honest(snap) /\ Places /\ Copies

-----------------------------------------------------------------------------
(* The records.                                                            *)

\* What the status functions of the deletion sub-reconciler make of an Addon.
LEMMA AddonTypes ==
    ASSUME NEW a \in Addon, NEW v \in {"False", "True"}
    PROVE  /\ a.timeout \in BOOLEAN /\ a.marked \in BOOLEAN
           /\ a.ready \in {"none", "False", "True"}
           /\ [a EXCEPT !.marked = ~@] \in Addon
           /\ [a EXCEPT !.marked = ~@].ready = a.ready
           /\ [a EXCEPT !.marked = ~@].timeout = a.timeout
           /\ reportAddonReadyToBeDeletedStatus(a, v) \in Addon
           /\ reportAddonReadyToBeDeletedStatus(a, v).ready = v
           /\ reportAddonReadyToBeDeletedStatus(a, v).timeout = a.timeout
           /\ reportAddonDeletionTimedOut(a) \in Addon
           /\ reportAddonDeletionTimedOut(a).ready = a.ready
  BY DEF Addon, reportAddonReadyToBeDeletedStatus, reportAddonDeletionTimedOut

\* An acknowledged Addon is ready and has no DeleteTimeout.
LEMMA AcknowledgedTypes ==
    ASSUME NEW a \in Addon
    PROVE  /\ Acknowledged(a) \in Addon
           /\ Acknowledged(a).ready = "True" /\ ~Acknowledged(a).timeout
  BY DEF Addon, Acknowledged, reportAddonReadyToBeDeletedStatus,
         removeDeleteTimeoutCondition

\* What the handlers and the addon's operator make of an AddonInstance.
LEMMA AddonInstanceTypes ==
    ASSUME NEW i \in AddonInstance
    PROVE  /\ [i EXCEPT !.marked = TRUE] \in AddonInstance
           /\ [i EXCEPT !.ready = TRUE] \in AddonInstance
           /\ reconcileAddonInstance(i) \in AddonInstance
  BY DEF AddonInstance, reconcileAddonInstance

-----------------------------------------------------------------------------
USE AddonDeletionAssumption DEF apiVars, targetVars, queueVars, passVars, bounds


\* The initial states satisfy the inductive invariant.
LEMMA InitIInv == Init => IInv
<1> SUFFICES ASSUME Init PROVE IInv
  OBVIOUS
<1>1. obj \in Addon /\ obj.ready = "none" /\ obj.timeout = FALSE
  BY DEF Init, Addon
<1>2. instance \in AddonInstance
  BY DEF Init, AddonInstance
<1>3. edits \in 0..MaxEdits /\ faults \in 0..MaxFaults /\ restarts \in 0..MaxRestarts
  BY DEF Init
<1>4. TypeOK
  BY <1>1, <1>2, <1>3 DEF Init, TypeOK, PC
<1>5. Honest(obj) /\ Honest(cache) /\ Honest(snap)
  BY <1>1 DEF Init, Honest
<1>6. Places /\ Copies
  BY <1>1 DEF Init, Places, Copies
<1> QED
  BY <1>4, <1>5, <1>6 DEF IInv

\* What OCM, OLM, the addon's operator and time do preserves it.
LEMMA EnvironmentIInv ==
    IInv /\ (EditAnnotation \/ OLM \/ AddonAcks \/ TimeoutElapses) => IInv'
<1> SUFFICES ASSUME IInv, EditAnnotation \/ OLM \/ AddonAcks \/ TimeoutElapses PROVE IInv'
  OBVIOUS
<1>1. CASE EditAnnotation
  <2>1. obj' \in Addon /\ obj'.ready = obj.ready /\ obj'.timeout = obj.timeout
    BY <1>1, AddonTypes DEF EditAnnotation, IInv, TypeOK
  <2>2. edits' \in 0..MaxEdits
    BY <1>1 DEF EditAnnotation, IInv, TypeOK
  <2>3. TypeOK'
    BY <1>1, <2>1, <2>2 DEF EditAnnotation, IInv, TypeOK
  <2>4. (Honest(obj) /\ Honest(cache) /\ Honest(snap))'
    BY <1>1, <2>1 DEF EditAnnotation, IInv, Honest
  <2>5. Places' /\ Copies'
    BY <1>1 DEF EditAnnotation, IInv, Places, Copies
  <2> QED
    BY <2>3, <2>4, <2>5 DEF IInv
<1>2. CASE OLM
  <2>1. edits' \in 0..MaxEdits
    BY <1>2 DEF OLM, IInv, TypeOK
  <2>2. queue' \in BOOLEAN
    BY <1>2 DEF OLM, IInv, TypeOK
  <2>3. TypeOK'
    BY <1>2, <2>1, <2>2 DEF OLM, IInv, TypeOK
  <2>4. (Honest(obj) /\ Honest(cache) /\ Honest(snap))' /\ Places' /\ Copies'
    BY <1>2 DEF OLM, IInv, Honest, Places, Copies
  <2> QED
    BY <2>3, <2>4 DEF IInv
<1>3. CASE AddonAcks
  <2>1. instance' \in AddonInstance
    BY <1>3, AddonInstanceTypes DEF AddonAcks, IInv, TypeOK
  <2>2. queue' \in BOOLEAN
    BY <1>3 DEF AddonAcks, IInv, TypeOK
  <2>3. TypeOK'
    BY <1>3, <2>1, <2>2 DEF AddonAcks, IInv, TypeOK
  <2>4. (Honest(obj) /\ Honest(cache) /\ Honest(snap))' /\ Places' /\ Copies'
    BY <1>3 DEF AddonAcks, IInv, Honest, Places, Copies
  <2> QED
    BY <2>3, <2>4 DEF IInv
<1>4. CASE TimeoutElapses
  <2>1. TypeOK'
    BY <1>4 DEF TimeoutElapses, IInv, TypeOK
  <2>2. (Honest(obj) /\ Honest(cache) /\ Honest(snap))' /\ Places' /\ Copies'
    BY <1>4 DEF TimeoutElapses, IInv, Honest, Places, Copies
  <2> QED
    BY <2>1, <2>2 DEF IInv
<1> QED
  BY <1>1, <1>2, <1>3, <1>4

\* So do watch events, timers, restarts and failing calls.
LEMMA ProcessIInv == IInv /\ (Sync \/ TimerFires \/ Restart \/ Fault) => IInv'
<1> SUFFICES ASSUME IInv, Sync \/ TimerFires \/ Restart \/ Fault PROVE IInv'
  OBVIOUS
<1>1. CASE Sync
  <2>1. TypeOK'
    BY <1>1 DEF Sync, IInv, TypeOK
  <2>2. (Honest(obj) /\ Honest(cache) /\ Honest(snap))' /\ Places'
    BY <1>1 DEF Sync, IInv, Honest, Places
  <2>3. Copies'
    BY <1>1 DEF Sync, IInv, Copies
  <2> QED
    BY <2>1, <2>2, <2>3 DEF IInv
<1>2. CASE TimerFires
  <2>1. TypeOK'
    BY <1>2 DEF TimerFires, IInv, TypeOK
  <2>2. (Honest(obj) /\ Honest(cache) /\ Honest(snap))' /\ Places' /\ Copies'
    BY <1>2 DEF TimerFires, IInv, Honest, Places, Copies
  <2> QED
    BY <2>1, <2>2 DEF IInv
<1>3. CASE Restart
  <2>1. restarts' \in 0..MaxRestarts
    BY <1>3 DEF Restart, IInv, TypeOK
  <2>2. TypeOK'
    BY <1>3, <2>1 DEF Restart, IInv, TypeOK, PC
  <2>3. (Honest(obj) /\ Honest(cache) /\ Honest(snap))' /\ Places' /\ Copies'
    BY <1>3 DEF Restart, IInv, Honest, Places, Copies
  <2> QED
    BY <2>2, <2>3 DEF IInv
<1>4. CASE Fault
  <2>1. faults' \in 0..MaxFaults
    BY <1>4 DEF Fault, IInv, TypeOK
  <2>2. TypeOK'
    BY <1>4, <2>1 DEF Fault, IInv, TypeOK, PC
  <2>3. (Honest(obj) /\ Honest(cache) /\ Honest(snap))' /\ Places' /\ Copies'
    BY <1>4 DEF Fault, IInv, Honest, Places, Copies
  <2> QED
    BY <2>2, <2>3 DEF IInv
<1> QED
  BY <1>1, <1>2, <1>3, <1>4

\* A handler hands on the object in hand as a.
HandsOn(a) ==
    /\ ReturnNil(a) /\ Honest(a)
    /\ snap.ready # "none" => a.ready # "none"

\* The two ways a handler ends: it hands the object to the later sub-reconcilers, or
\* it leaves the object alone and goes on.  Both preserve the invariant.
LEMMA HandlerIInv ==
    ASSUME IInv, UNCHANGED <<apiVars, targetVars, queueVars, bounds>>,
           \/ \E a \in Addon: HandsOn(a)
           \/ \E p \in {"instanceNotify", "timeout"}:
                 Goto(p) /\ pc \in {"legacyAck", "instanceAck"}
    PROVE  IInv'
<1>1. CASE \E a \in Addon: HandsOn(a)
  <2>1. PICK a \in Addon: HandsOn(a)
    BY <1>1
  <2>2. TypeOK'
    BY <2>1 DEF HandsOn, ReturnNil, IInv, TypeOK, PC
  <2>3. (Honest(obj) /\ Honest(cache) /\ Honest(snap))'
    BY <2>1 DEF HandsOn, ReturnNil, IInv, Honest
  <2>4. Places' /\ Copies'
    BY <2>1 DEF HandsOn, ReturnNil, IInv, Places, Copies
  <2> QED
    BY <2>2, <2>3, <2>4 DEF IInv
<1>2. CASE \E p \in {"instanceNotify", "timeout"}:
             Goto(p) /\ pc \in {"legacyAck", "instanceAck"}
  <2>1. TypeOK'
    BY <1>2 DEF Goto, IInv, TypeOK, PC
  <2>2. (Honest(obj) /\ Honest(cache) /\ Honest(snap))' /\ Places' /\ Copies'
    BY <1>2 DEF Goto, IInv, Honest, Places, Copies
  <2> QED
    BY <2>1, <2>2 DEF IInv
<1> QED
  BY <1>1, <1>2

\* The deletion sub-reconciler preserves it.
LEMMA DeletionIInv ==
    IInv /\ (\/ addonDeletionReconciler \/ legacyNotifyAddon \/ legacyAckReceivedFromAddon
            \/ instanceNotifyAddon \/ instanceAckReceivedFromAddon \/ handleTimeout)
    => IInv'
<1> SUFFICES ASSUME IInv,
                    \/ addonDeletionReconciler \/ legacyNotifyAddon
                    \/ legacyAckReceivedFromAddon \/ instanceNotifyAddon
                    \/ instanceAckReceivedFromAddon \/ handleTimeout
             PROVE  IInv'
  OBVIOUS
<1>1. snap \in Addon /\ Honest(snap)
  BY DEF IInv, TypeOK
<1>2. /\ Acknowledged(snap) \in Addon /\ Honest(Acknowledged(snap))
      /\ Acknowledged(snap).ready # "none"
  BY <1>1, AcknowledgedTypes DEF Honest
<1>3. CASE addonDeletionReconciler
  <2>1. CASE ReturnNil(snap)
    BY <1>1, <1>3, <2>1, HandlerIInv DEF HandsOn, addonDeletionReconciler
  <2>2. CASE ReturnNil(Acknowledged(snap))
    BY <1>2, <1>3, <2>2, HandlerIInv DEF HandsOn, addonDeletionReconciler
  <2>3. CASE /\ pc' = "legacyNotify"
             /\ snap' = reportAddonReadyToBeDeletedStatus(snap, "False")
             /\ fresh' = (snap.ready # "False") /\ UNCHANGED again
    <3>1. snap' \in Addon /\ snap'.ready = "False" /\ snap'.timeout = snap.timeout
      BY <1>1, <2>3, AddonTypes
    <3>2. fresh' \in BOOLEAN
      BY <2>3
    <3>3. UNCHANGED <<apiVars, targetVars, queueVars, bounds>>
      BY <1>3 DEF addonDeletionReconciler
    <3>4. TypeOK'
      BY <2>3, <3>1, <3>2, <3>3 DEF IInv, TypeOK, PC
    <3>5. (Honest(obj) /\ Honest(cache) /\ Honest(snap))'
      BY <3>1, <3>3 DEF IInv, Honest
    <3>6. Places' /\ Copies'
      BY <2>3, <3>1, <3>3 DEF IInv, Places, Copies
    <3> QED
      BY <3>4, <3>5, <3>6 DEF IInv
  <2> QED
    BY <1>3, <2>1, <2>2, <2>3 DEF addonDeletionReconciler
<1>4. CASE legacyNotifyAddon
  <2>1. TypeOK'
    BY <1>4 DEF legacyNotifyAddon, Goto, IInv, TypeOK, PC
  <2>2. (Honest(obj) /\ Honest(cache) /\ Honest(snap))' /\ Places' /\ Copies'
    BY <1>4 DEF legacyNotifyAddon, Goto, IInv, Honest, Places, Copies
  <2> QED
    BY <2>1, <2>2 DEF IInv
<1>5. CASE legacyAckReceivedFromAddon
  <2>1. ReturnNil(Acknowledged(snap)) \/ (Goto("instanceNotify") /\ pc = "legacyAck")
    BY <1>5 DEF legacyAckReceivedFromAddon
  <2>2. UNCHANGED <<apiVars, targetVars, queueVars, bounds>>
    BY <1>5 DEF legacyAckReceivedFromAddon
  <2> QED
    BY <1>2, <2>1, <2>2, HandlerIInv DEF HandsOn
<1>6. CASE instanceNotifyAddon
  <2>1. instance' \in AddonInstance
    BY <1>6, AddonInstanceTypes DEF instanceNotifyAddon, IInv, TypeOK
  <2>2. queue' \in BOOLEAN
    BY <1>6 DEF instanceNotifyAddon, IInv, TypeOK
  <2>3. TypeOK'
    BY <1>6, <2>1, <2>2 DEF instanceNotifyAddon, Goto, IInv, TypeOK, PC
  <2>4. (Honest(obj) /\ Honest(cache) /\ Honest(snap))' /\ Places' /\ Copies'
    BY <1>6 DEF instanceNotifyAddon, Goto, IInv, Honest, Places, Copies
  <2> QED
    BY <2>3, <2>4 DEF IInv
<1>7. CASE instanceAckReceivedFromAddon
  <2>1. ReturnNil(Acknowledged(snap)) \/ (Goto("timeout") /\ pc = "instanceAck")
    BY <1>7 DEF instanceAckReceivedFromAddon
  <2>2. UNCHANGED <<apiVars, targetVars, queueVars, bounds>>
    BY <1>7 DEF instanceAckReceivedFromAddon
  <2> QED
    BY <1>2, <2>1, <2>2, HandlerIInv DEF HandsOn
<1>8. CASE handleTimeout
  <2>1. UNCHANGED <<apiVars, targetVars, queueVars, bounds>>
    BY <1>8 DEF handleTimeout
  <2>2. CASE ReturnNil(reportAddonDeletionTimedOut(snap))
    <3>1. /\ reportAddonDeletionTimedOut(snap) \in Addon
          /\ reportAddonDeletionTimedOut(snap).ready = snap.ready
      BY <1>1, AddonTypes
    <3>2. snap.ready = "False" /\ configMap = "labelled"
      BY <1>8 DEF handleTimeout, IInv, Places
    <3> QED
      BY <2>1, <2>2, <3>1, <3>2, HandlerIInv DEF HandsOn, Honest
  <2>3. CASE pc' = "status" /\ again' = "timer" /\ UNCHANGED <<snap, fresh>>
    <3>1. TypeOK'
      BY <2>1, <2>3 DEF IInv, TypeOK, PC
    <3>2. (Honest(obj) /\ Honest(cache) /\ Honest(snap))' /\ Places' /\ Copies'
      BY <2>1, <2>3 DEF IInv, Honest, Places, Copies
    <3> QED
      BY <3>1, <3>2 DEF IInv
  <2> QED
    BY <1>8, <2>2, <2>3 DEF handleTimeout
<1> QED
  BY <1>3, <1>4, <1>5, <1>6, <1>7, <1>8

\* The other steps of the worker preserve it.
LEMMA PassIInv == IInv /\ (Get \/ laterSubReconcilers \/ updateStatus) => IInv'
<1> SUFFICES ASSUME IInv, Get \/ laterSubReconcilers \/ updateStatus PROVE IInv'
  OBVIOUS
<1>1. CASE Get
  <2>1. TypeOK'
    BY <1>1 DEF Get, IInv, TypeOK, PC
  <2>2. (Honest(obj) /\ Honest(cache) /\ Honest(snap))' /\ Places'
    BY <1>1 DEF Get, IInv, Honest, Places
  <2>3. Copies'
    BY <1>1 DEF Get, IInv, Copies
  <2> QED
    BY <2>1, <2>2, <2>3 DEF IInv
<1>2. CASE laterSubReconcilers
  <2>1. instance' \in AddonInstance
    BY <1>2, AddonInstanceTypes DEF laterSubReconcilers, IInv, TypeOK
  <2>2. mapped' \in BOOLEAN /\ queue' \in BOOLEAN
    BY <1>2 DEF laterSubReconcilers, IInv, TypeOK
  <2>3. again' \in {"no", "requeue", "timer"}
    BY <1>2 DEF laterSubReconcilers
  <2>4. TypeOK'
    BY <1>2, <2>1, <2>2, <2>3 DEF laterSubReconcilers, IInv, TypeOK, PC
  <2>5. (Honest(obj) /\ Honest(cache) /\ Honest(snap))' /\ Places' /\ Copies'
    BY <1>2 DEF laterSubReconcilers, IInv, Honest, Places, Copies
  <2> QED
    BY <2>4, <2>5 DEF IInv
<1>3. CASE updateStatus
  <2>1. queue' \in BOOLEAN /\ timer' \in BOOLEAN
    BY <1>3 DEF updateStatus, IInv, TypeOK
  <2>2. obj' \in Addon /\ Honest(obj)'
    BY <1>3 DEF updateStatus, IInv, TypeOK, Honest
  <2>3. obj.ready # "none" => obj'.ready # "none"
    BY <1>3 DEF updateStatus, IInv, Copies
  <2>4. elapsed' => obj'.ready # "none"
    BY <1>3, <2>3 DEF updateStatus, IInv, TypeOK
  <2>5. TypeOK'
    BY <1>3, <2>1, <2>2, <2>4 DEF updateStatus, IInv, TypeOK, PC, Honest
  <2>6. (Honest(cache) /\ Honest(snap))' /\ Places'
    BY <1>3 DEF updateStatus, IInv, Honest, Places
  <2>7. Copies'
    BY <1>3 DEF updateStatus, IInv, Copies
  <2> QED
    BY <2>2, <2>5, <2>6, <2>7 DEF IInv
<1> QED
  BY <1>1, <1>2, <1>3

-----------------------------------------------------------------------------
\* In every reachable state of the deletion protocol the inductive invariant holds.
THEOREM Invariance == Spec => []IInv
<1>1. IInv /\ UNCHANGED vars => IInv'
  BY DEF IInv, TypeOK, Honest, Places, Copies, vars
<1>2. IInv /\ [Next]_vars => IInv'
  BY <1>1, EnvironmentIInv, ProcessIInv, DeletionIInv, PassIInv DEF Next, Worker
<1> QED
  BY InitIInv, <1>2, PTL DEF Spec

\* The state of the deletion protocol has its type.
THEOREM TypeCorrect == Spec => []TypeOK
<1>1. IInv => TypeOK
  BY DEF IInv
<1> QED
  BY <1>1, Invariance, PTL

\* However acknowledgement and timeout race, also over stale copies and restarts,
\* ReadyToBeDeleted=True is never saved beside DeleteTimeout=True.
THEOREM AckEndsTimeout == Spec => []ReadyClearsTimeout
<1>1. IInv => ReadyClearsTimeout
  BY DEF IInv, Honest, ReadyClearsTimeout
<1> QED
  BY <1>1, Invariance, PTL

\* DeleteTimeout is saved only when the delete ConfigMap has its label.
THEOREM NoticeBeforeTimeout == Spec => []TimeoutAfterNotice
<1>1. IInv => TimeoutAfterNotice
  BY DEF IInv, Honest, TimeoutAfterNotice
<1> QED
  BY <1>1, Invariance, PTL

-----------------------------------------------------------------------------
(* The wait for the acknowledgement is never forgotten.                    *)

\* An Addon marked for deletion that nobody has acknowledged.
Waiting == obj.marked /\ obj.ready # "True"

\* The CSV is in place, or its disappearance goes unheard until the OLM sub-reconciler
\* has mapped the Operator, which asks for another pass.
CSVHeard == mapped => csv = "listed"

\* The timeout is reported, and an acknowledgement would be heard.
Reported(a) == a.timeout /\ mapped /\ csv = "listed" /\ ~instance.ready

\* What a pass over the current object has found so far.
Found ==
    /\ snap.marked = obj.marked
    /\ pc = "deletion" => snap = obj
    /\ pc \in {"instanceNotify", "instanceAck"} => CSVHeard
    /\ pc = "timeout" => CSVHeard /\ ~instance.ready
    /\ pc = "rest" => snap.ready = "True" \/ (snap.timeout /\ CSVHeard /\ ~instance.ready)
    /\ pc = "status" => snap.ready = "True" \/ again # "no" \/ Reported(snap)

WaitInv ==
    /\ mapped => csv # "absent"
    /\ timer => obj.ready # "none"
    /\ again = "timer" => snap.ready # "none"
    /\ Waiting => \/ queue \/ timer \/ "cache" \notin current
                  \/ pc # "idle" /\ ("snap" \in current => Found)
                  \/ pc = "idle" /\ Reported(obj)

\* There is nothing left to do: no key, no pass, no event and no timer.
AtRest ==
    /\ pc = "idle" /\ ~queue /\ "cache" \in current
    /\ ~(timer /\ elapsed) /\ ~(obj.ready = "False" /\ ~elapsed)

\* An Addon that is marked for deletion and left alone is ReadyToBeDeleted, or its
\* DeleteTimeout is reported, its CSV is installed and its instance is not ready.
WaitOverAtRest ==
    AtRest /\ obj.marked
        => obj.ready = "True" \/ (obj.timeout /\ csv = "listed" /\ ~instance.ready)

\* The annotation is not the sub-reconciler's to change.
LEMMA StatusKeeps ==
    ASSUME NEW a \in Addon
    PROVE  /\ reportAddonReadyToBeDeletedStatus(a, "False").marked = a.marked
           /\ reportAddonReadyToBeDeletedStatus(a, "False").ready = "False"
           /\ reportAddonDeletionTimedOut(a).ready = a.ready
           /\ reportAddonDeletionTimedOut(a).marked = a.marked
           /\ reportAddonDeletionTimedOut(a).timeout
  BY DEF Addon, reportAddonReadyToBeDeletedStatus, reportAddonDeletionTimedOut

\* Nor does an acknowledgement change it.
LEMMA AcknowledgedKeeps == ASSUME NEW a \in Addon PROVE Acknowledged(a).marked = a.marked
  BY DEF Addon, Acknowledged, reportAddonReadyToBeDeletedStatus, removeDeleteTimeoutCondition

\* A state in which the key is queued, or an event is to come, forgets nothing.
LEMMA HeardWaits ==
    ASSUME mapped' => csv' # "absent", timer' => obj'.ready # "none",
           again' = "timer" => snap'.ready # "none",
           queue' \/ timer' \/ "cache" \notin current'
    PROVE  WaitInv'
BY DEF WaitInv

\* The Addon is edited, and time passes: the cache is behind, or all is as it was.
LEMMA EditWaits == IInv /\ WaitInv /\ (EditAnnotation \/ TimeoutElapses) => WaitInv'
<1> SUFFICES ASSUME IInv, WaitInv, EditAnnotation \/ TimeoutElapses PROVE WaitInv'
  OBVIOUS
<1>1. CASE EditAnnotation
  <2>1. obj'.ready = obj.ready
    BY <1>1, AddonTypes DEF EditAnnotation, IInv, TypeOK
  <2>2. current' = {} /\ UNCHANGED <<mapped, csv, timer, again, snap>>
    BY <1>1 DEF EditAnnotation
  <2> QED
    BY <2>1, <2>2, HeardWaits DEF WaitInv
<1>2. CASE TimeoutElapses
  BY <1>2 DEF TimeoutElapses, WaitInv, Waiting, Found, Reported, CSVHeard
<1> QED
  BY <1>1, <1>2

\* OLM and the addon's operator: what a pass has found and would not notice any more
\* brings the key back.
LEMMA TargetWaits == IInv /\ WaitInv /\ (OLM \/ AddonAcks) => WaitInv'
<1> SUFFICES ASSUME IInv, WaitInv, OLM \/ AddonAcks PROVE WaitInv'
  OBVIOUS
<1>1. /\ UNCHANGED <<obj, current, snap, pc, again, timer, mapped>>
      /\ csv' # "absent"
      /\ queue \/ mapped => queue'
      /\ instance' = instance \/ queue'
  <2>1. CASE OLM
    <3>1. queue' = (queue \/ mapped)
      BY <2>1 DEF OLM
    <3>2. queue \/ mapped => queue'
      BY <3>1, Zenon
    <3> QED
      BY <2>1, <3>2 DEF OLM
  <2>2. CASE AddonAcks /\ instance' = instance
    <3>1. queue' = (queue \/ mapped) \/ queue' = TRUE
      BY <2>2 DEF AddonAcks
    <3>2. queue \/ mapped => queue'
      BY <3>1, Zenon
    <3> QED
      BY <2>2, <3>2 DEF AddonAcks
  <2>3. CASE AddonAcks /\ instance' # instance
    BY <2>3 DEF AddonAcks
  <2> QED
    BY <2>1, <2>2, <2>3
<1>2. CASE queue'
  BY <1>1, <1>2, HeardWaits DEF WaitInv
<1>3. CASE ~queue'
  <2>1. ~queue /\ ~mapped /\ instance' = instance
    BY <1>1, <1>3
  <2> QED
    BY <1>1, <2>1 DEF WaitInv, Waiting, Found, Reported, CSVHeard
<1> QED
  BY <1>2, <1>3

\* An event, a timer and a restart bring the key back.
LEMMA WakeWaits == IInv /\ WaitInv /\ (Sync \/ TimerFires \/ Restart \/ Fault) => WaitInv'
<1> SUFFICES ASSUME IInv, WaitInv, Sync \/ TimerFires \/ Restart \/ Fault PROVE WaitInv'
  OBVIOUS
<1>1. CASE Sync \/ TimerFires
  BY <1>1, HeardWaits DEF Sync, TimerFires, WaitInv
<1>2. CASE Restart
  BY <1>2, HeardWaits DEF Restart, WaitInv
<1>3. CASE Fault
  BY <1>3 DEF Fault, WaitInv, Waiting, Found, Reported
<1> QED
  BY <1>1, <1>2, <1>3

\* A pass starts: on the object itself, or it cannot save.
LEMMA GetWaits == IInv /\ WaitInv /\ Get => WaitInv'
<1> SUFFICES ASSUME IInv, WaitInv, Get PROVE WaitInv'
  OBVIOUS
<1>1. /\ UNCHANGED <<obj, cache, mapped, csv, timer, instance>>
      /\ pc' = "deletion" /\ snap' = cache /\ again' = "no"
      /\ "snap" \in current' => "cache" \in current
  BY DEF Get
<1>2. "snap" \in current' => snap' = obj
  BY <1>1 DEF IInv, Copies
<1>3. "snap" \in current' => Found'
  BY <1>1, <1>2 DEF Found
<1> QED
  BY <1>1, <1>3 DEF WaitInv

\* The steps of the deletion sub-reconciler.
LEMMA HandlersWait ==
    IInv /\ WaitInv /\ (\/ addonDeletionReconciler \/ legacyNotifyAddon
                        \/ legacyAckReceivedFromAddon \/ instanceNotifyAddon
                        \/ instanceAckReceivedFromAddon \/ handleTimeout) => WaitInv'
<1> SUFFICES ASSUME IInv, WaitInv,
                    \/ addonDeletionReconciler \/ legacyNotifyAddon
                    \/ legacyAckReceivedFromAddon \/ instanceNotifyAddon
                    \/ instanceAckReceivedFromAddon \/ handleTimeout
             PROVE  WaitInv'
  OBVIOUS
<1>1. /\ UNCHANGED <<obj, current, mapped, csv, timer>>
      /\ pc \notin {"idle", "status", "rest"} /\ pc' # "idle"
  BY DEF addonDeletionReconciler, legacyNotifyAddon, legacyAckReceivedFromAddon,
         instanceNotifyAddon, instanceAckReceivedFromAddon, handleTimeout, ReturnNil, Goto
<1>2. queue => queue'
  <2>1. queue' = (queue \/ instance' # instance) \/ UNCHANGED queue
    BY DEF addonDeletionReconciler, legacyNotifyAddon, legacyAckReceivedFromAddon,
           instanceNotifyAddon, instanceAckReceivedFromAddon, handleTimeout
  <2> QED
    BY <2>1, Zenon
<1>3. again' = "timer" => snap'.ready # "none"
  <2>1. snap \in Addon
    BY DEF IInv, TypeOK
  <2>2. CASE addonDeletionReconciler
    <3>1. \/ UNCHANGED <<snap, again>>
          \/ snap' = Acknowledged(snap)
          \/ snap' = reportAddonReadyToBeDeletedStatus(snap, "False")
      BY <2>2 DEF addonDeletionReconciler, ReturnNil
    <3>2. Acknowledged(snap).ready = "True"
      BY <2>1, AcknowledgedTypes
    <3>3. reportAddonReadyToBeDeletedStatus(snap, "False").ready = "False"
      BY <2>1, StatusKeeps
    <3> QED
      BY <3>1, <3>2, <3>3 DEF WaitInv
  <2>3. CASE legacyNotifyAddon \/ instanceNotifyAddon
    BY <2>3 DEF legacyNotifyAddon, instanceNotifyAddon, Goto, WaitInv
  <2>4. CASE legacyAckReceivedFromAddon \/ instanceAckReceivedFromAddon
    BY <2>1, <2>4, AcknowledgedTypes
    DEF legacyAckReceivedFromAddon, instanceAckReceivedFromAddon, Goto, ReturnNil, WaitInv
  <2>5. CASE handleTimeout
    <3>1. snap.ready = "False"
      BY <2>5 DEF handleTimeout, IInv, Places
    <3>2. reportAddonDeletionTimedOut(snap).ready = snap.ready
      BY <2>1, StatusKeeps
    <3>3. snap' = snap \/ snap' = reportAddonDeletionTimedOut(snap)
      BY <2>5 DEF handleTimeout, ReturnNil
    <3> QED
      BY <3>1, <3>2, <3>3
  <2> QED
    BY <2>2, <2>3, <2>4, <2>5
<1>4. ASSUME Waiting, ~queue', Found PROVE Found'
  <2>1. snap \in Addon /\ instance \in AddonInstance
    BY DEF IInv, TypeOK
  <2>2. CASE addonDeletionReconciler
    <3>1. snap = obj /\ snap.marked /\ ~awaitingRemoteDeletion(snap)
      BY <1>4, <2>2 DEF addonDeletionReconciler, Found, Waiting, awaitingRemoteDeletion
    <3>2. CASE pc' = "rest" /\ snap' = Acknowledged(snap)
      BY <1>1, <1>4, <2>1, <3>2, AcknowledgedTypes, AcknowledgedKeeps DEF Found
    <3>3. CASE pc' = "legacyNotify" /\ snap' = reportAddonReadyToBeDeletedStatus(snap, "False")
      BY <1>1, <1>4, <2>1, <3>3, StatusKeeps DEF Found
    <3> QED
      BY <2>2, <3>1, <3>2, <3>3 DEF addonDeletionReconciler, ReturnNil
  <2>3. CASE legacyNotifyAddon
    BY <1>4, <2>3 DEF legacyNotifyAddon, Goto, Found
  <2>4. CASE legacyAckReceivedFromAddon
    <3>1. CASE CSVmissing
      <4>1. pc' = "rest" /\ snap' = Acknowledged(snap)
        BY <2>4, <3>1 DEF legacyAckReceivedFromAddon, ReturnNil
      <4> QED
        BY <1>1, <1>4, <2>1, <4>1, AcknowledgedTypes, AcknowledgedKeeps DEF Found
    <3>2. CASE ~CSVmissing
      <4>1. pc' = "instanceNotify" /\ UNCHANGED snap
        BY <2>4, <3>2 DEF legacyAckReceivedFromAddon, Goto
      <4>2. mapped => csv = "listed"
        BY <3>2 DEF CSVmissing, IInv, TypeOK, WaitInv
      <4> QED
        BY <1>1, <1>4, <4>1, <4>2 DEF Found, CSVHeard
    <3> QED
      BY <3>1, <3>2
  <2>5. CASE instanceNotifyAddon
    BY <1>1, <1>4, <2>5 DEF instanceNotifyAddon, Goto, Found, CSVHeard
  <2>6. CASE instanceAckReceivedFromAddon
    <3>1. CASE instance.ready
      <4>1. pc' = "rest" /\ snap' = Acknowledged(snap)
        BY <2>6, <3>1 DEF instanceAckReceivedFromAddon, ReturnNil
      <4> QED
        BY <1>1, <1>4, <2>1, <4>1, AcknowledgedTypes, AcknowledgedKeeps DEF Found
    <3>2. CASE ~instance.ready
      BY <1>1, <1>4, <2>6, <3>2 DEF instanceAckReceivedFromAddon, Goto, Found, CSVHeard
    <3> QED
      BY <3>1, <3>2
  <2>7. CASE handleTimeout
    <3>1. pc = "timeout" /\ UNCHANGED instance
      BY <2>7 DEF handleTimeout
    <3>2. CASE deletionTimedOut
      <4>1. pc' = "rest" /\ snap' = reportAddonDeletionTimedOut(snap)
        BY <2>7, <3>2 DEF handleTimeout, ReturnNil
      <4> QED
        BY <1>1, <1>4, <2>1, <3>1, <4>1, StatusKeeps DEF Found, CSVHeard
    <3>3. CASE ~deletionTimedOut
      BY <1>1, <1>4, <2>7, <3>1, <3>3 DEF handleTimeout, Found
    <3> QED
      BY <3>2, <3>3
  <2> QED
    BY <2>2, <2>3, <2>4, <2>5, <2>6, <2>7
<1> QED
  BY <1>1, <1>2, <1>3, <1>4 DEF WaitInv, Waiting

\* The rest of the pass.
LEMMA LaterWaits == IInv /\ WaitInv /\ laterSubReconcilers => WaitInv'
<1> SUFFICES ASSUME IInv, WaitInv, laterSubReconcilers PROVE WaitInv'
  OBVIOUS
<1>1. /\ UNCHANGED <<obj, current, csv, timer, snap>> /\ pc = "rest" /\ pc' = "status"
      /\ again' \in {"requeue", "no"}
  BY DEF laterSubReconcilers
<1>2. /\ queue \/ instance' # instance => queue'
      /\ mapped' <=> mapped \/ csv # "absent"
  <2>1. queue' = (queue \/ instance' # instance) /\ mapped' = (mapped \/ csv # "absent")
    BY DEF laterSubReconcilers
  <2> QED
    BY <2>1, Zenon
<1>3. again' = "no" => mapped' = mapped /\ csv # "absent"
  BY DEF laterSubReconcilers
<1>4. ASSUME ~queue', Found PROVE Found'
  <2>1. instance' = instance
    BY <1>2, <1>4
  <2>2. CASE snap.ready = "True" \/ again' # "no"
    BY <1>1, <1>4, <2>2 DEF Found
  <2>3. CASE snap.ready # "True" /\ again' = "no"
    <3>1. snap.timeout /\ CSVHeard /\ ~instance.ready
      BY <1>1, <1>4, <2>3 DEF Found
    <3>2. mapped' /\ mapped
      BY <1>2, <1>3, <2>3
    <3> QED
      BY <1>1, <1>4, <2>1, <3>1, <3>2 DEF Found, CSVHeard, Reported
  <2> QED
    BY <2>2, <2>3
<1>5. mapped' => csv' # "absent"
  BY <1>1, <1>2 DEF WaitInv
<1> QED
  BY <1>1, <1>2, <1>4, <1>5 DEF WaitInv, Waiting

\* The pass ends: it has saved what it found, or the key returns.
LEMMA SaveWaits == IInv /\ WaitInv /\ updateStatus => WaitInv'
<1> SUFFICES ASSUME IInv, WaitInv, updateStatus PROVE WaitInv'
  OBVIOUS
<1>1. /\ pc = "status" /\ pc' = "idle" /\ again' = "no"
      /\ UNCHANGED <<snap, mapped, csv, instance>>
      /\ obj' = IF "snap" \in current THEN snap ELSE obj
      /\ current' = IF "snap" \in current /\ snap # obj THEN {} ELSE current \ {"snap"}
  BY DEF updateStatus
<1>2. /\ queue \/ again = "requeue" \/ "snap" \notin current => queue'
      /\ timer' <=> timer \/ ("snap" \in current /\ again = "timer")
  <2>1. /\ queue' = (queue \/ again = "requeue" \/ "snap" \notin current)
        /\ timer' = (timer \/ ("snap" \in current /\ again = "timer"))
    BY DEF updateStatus
  <2> QED
    BY <2>1, Zenon
<1>3. timer' => obj'.ready # "none"
  BY <1>1, <1>2 DEF WaitInv, IInv, Copies
<1>4. CASE queue' \/ timer' \/ "cache" \notin current'
  BY <1>1, <1>3, <1>4, HeardWaits DEF WaitInv
<1>5. CASE ~(queue' \/ timer' \/ "cache" \notin current')
  <2>1. "snap" \in current /\ snap = obj /\ obj' = obj /\ "cache" \in current
    BY <1>1, <1>2, <1>5
  <2>2. ~queue /\ ~timer /\ again \notin {"requeue", "timer"}
    BY <1>2, <1>5, <2>1
  <2>3. Waiting => Reported(obj)
    BY <1>1, <2>1, <2>2 DEF WaitInv, Found, Waiting, IInv, TypeOK
  <2>4. Waiting' => Reported(obj)'
    BY <1>1, <2>1, <2>3 DEF Waiting, Reported
  <2> QED
    BY <1>1, <1>3, <2>4 DEF WaitInv
<1> QED
  BY <1>4, <1>5

\* The safety half of WaitEnds: the operator never comes to rest with a marked Addon that
\* is neither ReadyToBeDeleted nor reported as timed out, nor with an acknowledgement
\* it has not seen. Events of a CSV that the map of the handler lost in a restart
\* do not matter, since the pass that could miss them asks for another or arms the timer.
THEOREM RestsDecided == Spec => []WaitOverAtRest
<1>1. Init => WaitInv
  BY DEF Init, WaitInv
<1>2. IInv /\ WaitInv /\ UNCHANGED vars => WaitInv'
  BY DEF vars, WaitInv, Waiting, Found, Reported, CSVHeard
<1>3. IInv /\ WaitInv /\ [Next]_vars => WaitInv'
  BY <1>2, EditWaits, TargetWaits, WakeWaits, GetWaits, HandlersWait, LaterWaits, SaveWaits
  DEF Next, Worker
<1>4. IInv /\ WaitInv => WaitOverAtRest
  <2> SUFFICES ASSUME IInv, WaitInv, AtRest, obj.marked, obj.ready # "True"
               PROVE  obj.timeout /\ csv = "listed" /\ ~instance.ready
    BY DEF WaitOverAtRest
  <2>1. ~timer
    BY DEF AtRest, WaitInv, IInv, TypeOK, Addon
  <2> QED
    BY <2>1 DEF AtRest, WaitInv, Waiting, Reported
<1> QED
  BY Invariance, <1>1, <1>3, <1>4, PTL DEF Spec
=============================================================================
