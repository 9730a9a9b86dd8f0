--------------------------- MODULE AddonInstance ---------------------------
(***************************************************************************)
(* The AddonInstance of one Addon and its three writers: the AddonInstance *)
(* controller, which judges the heartbeats (condition Healthy); the        *)
(* addon's own operator, which sends them with SendPulse of pkg/client;    *)
(* and the Addon controller's worker, which creates the object, keeps its  *)
(* spec and marks it for deletion.                                         *)
(*                                                                         *)
(* Time is the age of a heartbeat: every copy of the object, also one in   *)
(* flight, ages with Tick, up to the first age beyond every threshold.     *)
(* current is the set of copies ("cache": the informer's, "snap": the one  *)
(* Reconcile holds, "pulse": the one SendPulse sends) with the object's    *)
(* resourceVersion; an update with another copy is a conflict. Of the last *)
(* two only what the update would change is kept.                          *)
(***************************************************************************)
EXTENDS Naturals

CONSTANTS
    Periods,              \* values .spec.heartbeatUpdatePeriod takes
    DefaultPeriod,        \* DefaultAddonInstanceHeartbeatUpdatePeriod
    ThresholdMultiplier,  \* of PhaseCheckHeartbeatConfig
    MaxAge,               \* bound: ages saturate here, beyond every threshold
    MaxMeetings,          \* bound: heartbeats that arrive while the operator is at work
    MaxEdits,             \* bound: what users do to the object and the Addon
    MaxFaults             \* bound: failed API calls and restarts of the process

ASSUME InstanceAssumption ==
    /\ Periods \subseteq Nat /\ DefaultPeriod \in Periods
    /\ ThresholdMultiplier \in Nat /\ MaxAge \in Nat
    /\ \A p \in Periods: ThresholdMultiplier * p < MaxAge
    /\ MaxMeetings \in Nat /\ MaxEdits \in Nat /\ MaxFaults \in Nat

VARIABLES
    obj,        \* the AddonInstance in the API server
    cache,      \* the informer's copy of it
    current,    \* the copies that hold the object's resourceVersion
    pulse,      \* what SendPulse is sending: the heartbeat and ReadyToBeDeleted
    sending,    \* whether it is under way
    \* the AddonInstance controller
    hQueue, hTimer, hPc,
    verdict,    \* the reason of Healthy its Reconcile is about to save
    \* the Addon controller
    wQueue, wPc,
    deleting,   \* the Addon waits for the addon's consent to its deletion
    elapsed,    \* for longer than the delete timeout
    \* bounds
    meetings, edits, faults

copies  == <<obj, cache, current>>
addon   == <<pulse, sending>>
health  == <<hQueue, hTimer, hPc, verdict>>
worker  == <<wQueue, wPc, deleting, elapsed>>
bounds  == <<meetings, edits, faults>>
vars    == <<copies, addon, health, worker, bounds>>

None == MaxAge + 1       \* the zero .status.lastHeartbeatTime
Beats == 0..None
Healthy == {"none", "PendingFirstHeartbeat", "HeartbeatTimeout", "ReceivingHeartbeats"}

\* beat is the age of .status.lastHeartbeatTime, healthy the reason of the Healthy
\* condition, ready whether ReadyToBeDeleted is True.
Instance ==
    [exists: BOOLEAN, marked: BOOLEAN, period: Periods,
     beat: Beats, healthy: Healthy, ready: BOOLEAN]

Pulse == [beat: Beats, ready: BOOLEAN]

NoInstance ==
    [exists |-> FALSE, marked |-> FALSE, period |-> DefaultPeriod,
     beat |-> None, healthy |-> "none", ready |-> FALSE]

TypeOK ==
    /\ obj \in Instance /\ cache \in Instance
    /\ pulse \in Pulse /\ verdict \in Healthy
    /\ ~obj.exists => obj = NoInstance
    /\ current \subseteq {"cache", "snap", "pulse"}
    /\ sending \in BOOLEAN /\ hQueue \in BOOLEAN /\ hTimer \in BOOLEAN
    /\ wQueue \in BOOLEAN /\ deleting \in BOOLEAN /\ elapsed \in BOOLEAN
    /\ hPc \in {"idle", "update"} /\ wPc \in {"idle", "notify", "ensure"}
    /\ meetings \in 0..MaxMeetings /\ edits \in 0..MaxEdits /\ faults \in 0..MaxFaults

\* The API server holds i from now on; a write that changes nothing is none. The copy
\* it was made from is given up.
Write(by, i) ==
    /\ obj' = i
    /\ current' = IF i = obj THEN current \ {by} ELSE {}

Fault ==
    /\ faults < MaxFaults
    /\ faults' = faults + 1

-----------------------------------------------------------------------------
(* Time, users, and the addon's operator.                                  *)

Older(i) == [i EXCEPT !.beat = IF @ < MaxAge THEN @ + 1 ELSE @]

Tick ==
    /\ obj' = Older(obj) /\ cache' = Older(cache) /\ pulse' = Older(pulse)
    /\ UNCHANGED <<current, sending, health, worker, bounds>>

Edit ==
    /\ edits < MaxEdits
    /\ edits' = edits + 1
    /\ UNCHANGED <<cache, addon, health, meetings, faults>>

\* Someone sets another period, or deletes the object.
EditInstance ==
    /\ obj.exists
    /\ \/ \E p \in Periods \ {obj.period}: Write("user", [obj EXCEPT !.period = p])
       \/ Write("user", NoInstance)
    /\ Edit
    /\ UNCHANGED worker

\* OCM asks for the deletion of the Addon.
AskForDeletion ==
    /\ ~deleting
    /\ deleting' = TRUE
    /\ wQueue' = TRUE
    /\ Edit
    /\ UNCHANGED <<obj, current, wPc, elapsed>>

TimeoutElapses ==
    /\ deleting /\ ~elapsed
    /\ elapsed' = TRUE
    /\ wQueue' = TRUE
    /\ UNCHANGED <<copies, addon, health, wPc, deleting, bounds>>

\* SendPulse on the object as the addon's operator read it: the heartbeat is now, and
\* an addon that is marked for deletion may report that it is ready.
SendPulse ==
    /\ obj.exists /\ ~sending
    /\ sending' = TRUE
    /\ \E r \in {obj.ready, obj.ready \/ obj.marked}:
           pulse' = [beat |-> 0, ready |-> r]
    /\ current' = current \cup {"pulse"}
    /\ UNCHANGED <<obj, cache, health, worker, bounds>>

\* The operator has nothing to do before a timer or an event.
Quiet == "cache" \in current /\ ~hQueue /\ hPc = "idle" /\ ~wQueue /\ wPc = "idle"

NoPulse == [beat |-> None, ready |-> FALSE]

\* The Status().Update of SendPulse reaches the API server, or is lost. Passes take
\* milliseconds and heartbeats come seconds apart: only some meet the operator at work.
PulseArrives ==
    /\ sending
    /\ sending' = FALSE
    /\ pulse' = NoPulse
    /\ \/ /\ "pulse" \in current
          /\ Write("pulse", [obj EXCEPT !.beat = pulse.beat, !.ready = pulse.ready])
          /\ \/ Quiet /\ UNCHANGED meetings
             \/ ~Quiet /\ meetings < MaxMeetings /\ meetings' = meetings + 1
       \/ current' = current \ {"pulse"} /\ UNCHANGED <<obj, meetings>>
    /\ UNCHANGED <<cache, health, worker, edits, faults>>

-----------------------------------------------------------------------------
(* The AddonInstance controller.                                           *)

\* The watch: For(AddonInstance) of this controller, Owns(AddonInstance) of the other.
Sync ==
    /\ "cache" \notin current
    /\ cache' = obj
    /\ current' = current \cup {"cache"}
    /\ hQueue' = TRUE
    /\ wQueue' = TRUE
    /\ UNCHANGED <<obj, addon, hTimer, hPc, verdict, wPc, deleting, elapsed, bounds>>

Poll ==
    /\ hTimer
    /\ hTimer' = FALSE
    /\ hQueue' = TRUE
    /\ UNCHANGED <<copies, addon, hPc, verdict, worker, bounds>>

\* Mutant: a heartbeat exactly at the threshold is late.
checkHeartbeatEager(i) ==
    IF i.beat = None THEN "PendingFirstHeartbeat"
    ELSE IF i.beat >= ThresholdMultiplier * i.period THEN "HeartbeatTimeout"
    ELSE "ReceivingHeartbeats"

\* PhaseCheckHeartbeat.Execute: the reason of the Healthy condition.
checkHeartbeat(i) ==
    IF i.beat = None THEN "PendingFirstHeartbeat"
    ELSE IF i.beat > ThresholdMultiplier * i.period THEN "HeartbeatTimeout"
    ELSE "ReceivingHeartbeats"

\* Get and the phases; an object that is gone asks for nothing more.
Reconcile ==
    /\ hPc = "idle" /\ hQueue
    /\ hQueue' = FALSE
    /\ IF cache.exists
       THEN /\ hPc' = "update"
            /\ verdict' = checkHeartbeat(cache)
            /\ current' = IF "cache" \in current THEN current \cup {"snap"}
                                                 ELSE current \ {"snap"}
       ELSE UNCHANGED <<hPc, verdict, current>>
    /\ UNCHANGED <<obj, cache, addon, hTimer, worker, bounds>>

\* Mutant: the status is written whatever became of the object meanwhile.
UpdateStatusForced ==
    /\ hPc = "update"
    /\ hPc' = "idle" /\ verdict' = "none" /\ hTimer' = TRUE
    /\ Write("snap", [obj EXCEPT !.healthy = verdict])
    /\ UNCHANGED <<cache, addon, hQueue, worker, bounds>>

\* Mutant: the pass asks for no poll.
UpdateStatusOnce ==
    /\ hPc = "update"
    /\ hPc' = "idle" /\ verdict' = "none"
    /\ \/ "snap" \in current /\ Write("snap", [obj EXCEPT !.healthy = verdict]) /\ UNCHANGED faults
       \/ "snap" \notin current /\ UNCHANGED <<obj, current, faults>>
       \/ Fault /\ UNCHANGED obj /\ current' = current \ {"snap"}
    /\ UNCHANGED <<cache, addon, hQueue, hTimer, worker, meetings, edits>>

\* The deferred UpdateStatus, whose failure is only logged, and RequeueAfter.
UpdateStatus ==
    /\ hPc = "update"
    /\ hPc' = "idle" /\ verdict' = "none" /\ hTimer' = TRUE
    /\ \/ "snap" \in current /\ Write("snap", [obj EXCEPT !.healthy = verdict]) /\ UNCHANGED faults
       \/ "snap" \notin current /\ UNCHANGED <<obj, current, faults>>
       \/ Fault /\ UNCHANGED obj /\ current' = current \ {"snap"}
    /\ UNCHANGED <<cache, addon, hQueue, worker, meetings, edits>>

\* A new process: synced caches, every key queued, no timer.
Restart ==
    /\ Fault
    /\ cache' = obj
    /\ current' = (current \cup {"cache"}) \ {"snap"}
    /\ hQueue' = TRUE /\ hTimer' = FALSE /\ hPc' = "idle" /\ verdict' = "none"
    /\ wQueue' = TRUE /\ wPc' = "idle"
    /\ UNCHANGED <<obj, addon, deleting, elapsed, meetings, edits>>

-----------------------------------------------------------------------------
(* The Addon controller's worker, as far as it writes the AddonInstance.   *)

Pass ==
    /\ wPc = "idle" /\ wQueue
    /\ wQueue' = FALSE
    /\ wPc' = IF deleting THEN "notify" ELSE "ensure"
    /\ UNCHANGED <<copies, addon, health, deleting, elapsed, bounds>>

\* Update(i) from the cached copy, then on to p; an error brings the key back.
UpdateCached(i, p) ==
    \/ /\ "cache" \in current
       /\ Write("worker", i)
       /\ wPc' = p
       /\ UNCHANGED <<wQueue, faults>>
    \/ /\ \/ "cache" \notin current /\ UNCHANGED faults
          \/ Fault
       /\ wPc' = "idle" /\ wQueue' = TRUE
       /\ UNCHANGED <<obj, current>>

\* The pass goes on to the sub-reconcilers when the addon is ready or the wait is over.
AfterNotice == IF cache.ready \/ elapsed THEN "ensure" ELSE "idle"


\* addonInstanceDeletionHandler: NotifyAddon, then AckReceivedFromAddon.
NotifyAddon ==
    /\ wPc = "notify"
    /\ IF cache.exists /\ ~cache.marked
       THEN UpdateCached([cache EXCEPT !.marked = TRUE], AfterNotice)
       ELSE wPc' = AfterNotice /\ UNCHANGED <<obj, current, wQueue, faults>>
    /\ UNCHANGED <<cache, addon, health, deleting, elapsed, meetings, edits>>

\* Mutant: the spec is replaced without the resourceVersion of the copy it is made from.
reconcileAddonInstanceBlind ==
    /\ wPc = "ensure"
    /\ wPc' = "idle"
    /\ Write("worker", [obj EXCEPT !.exists = TRUE, !.marked = cache.marked, !.period = DefaultPeriod])
    /\ UNCHANGED <<cache, addon, health, wQueue, deleting, elapsed, bounds>>

\* Create, or Update when the spec differs in more than the mark.
reconcileAddonInstance ==
    /\ wPc = "ensure"
    /\ \/ /\ ~cache.exists
          /\ \/ /\ ~obj.exists
                /\ Write("worker", [NoInstance EXCEPT !.exists = TRUE])
                /\ wPc' = "idle"
                /\ UNCHANGED <<wQueue, faults>>
             \/ /\ \/ obj.exists /\ UNCHANGED faults      \* AlreadyExists
                   \/ Fault
                /\ wPc' = "idle" /\ wQueue' = TRUE
                /\ UNCHANGED <<obj, current>>
       \/ /\ cache.exists
          /\ IF cache.period # DefaultPeriod
             THEN UpdateCached([cache EXCEPT !.period = DefaultPeriod], "idle")
             ELSE wPc' = "idle" /\ UNCHANGED <<obj, current, wQueue, faults>>
    /\ UNCHANGED <<cache, addon, health, deleting, elapsed, meetings, edits>>

-----------------------------------------------------------------------------
Init ==
    /\ obj = NoInstance /\ cache = NoInstance /\ verdict = "none" /\ pulse = NoPulse
    /\ current = {"cache"}
    /\ sending = FALSE
    /\ hQueue = FALSE /\ hTimer = FALSE /\ hPc = "idle"
    /\ wQueue = TRUE /\ wPc = "idle"
    /\ deleting \in BOOLEAN /\ elapsed = FALSE
    /\ meetings = 0 /\ edits = 0 /\ faults = 0

Controller == Reconcile \/ UpdateStatus
Worker == Pass \/ NotifyAddon \/ reconcileAddonInstance

Next ==
    \/ Tick \/ EditInstance \/ AskForDeletion \/ TimeoutElapses
    \/ SendPulse \/ PulseArrives
    \/ Sync \/ Poll \/ Restart \/ Controller \/ Worker

Spec == Init /\ [][Next]_vars

\* Both workers serve their queues, timers fire, the watch delivers. Nothing is asked
\* of the clock, of the users and of the addon.
Fairness ==
    /\ WF_vars(Sync)
    /\ WF_vars(Poll)
    /\ WF_vars(Controller)
    /\ WF_vars(Worker)
    /\ WF_vars(TimeoutElapses)

FairSpec == Spec /\ Fairness

-----------------------------------------------------------------------------
(* Properties.                                                             *)

Late(i) == i.beat # None /\ i.beat > ThresholdMultiplier * i.period
Fresh(i) == i.beat <= ThresholdMultiplier * i.period

\* A verdict that a step saves is about the heartbeat beside it.
Fits ==
    obj.exists /\ obj'.exists /\ obj'.healthy # obj.healthy =>
        /\ obj'.healthy = "HeartbeatTimeout" => Late(obj')
        /\ obj'.healthy = "PendingFirstHeartbeat" <=> obj'.beat = None

\* A saved verdict is about the heartbeat beside it: HeartbeatTimeout appears only where
\* the last saved heartbeat is beyond the threshold, PendingFirstHeartbeat only where
\* there is none, although Reconcile judged a cached copy some time ago.
VerdictFits == [][Fits]_vars

\* A step keeps what others wrote.
Keeps ==
    obj.exists /\ obj'.exists =>
        /\ obj'.beat <= Older(obj).beat
        /\ obj.marked => obj'.marked
        /\ obj.ready => obj'.ready
        /\ \/ obj' = [obj EXCEPT !.marked = obj'.marked, !.period = obj'.period]
           \/ obj' = [obj EXCEPT !.beat = obj'.beat, !.ready = obj'.ready]
           \/ obj' = [obj EXCEPT !.healthy = obj'.healthy]

\* No writer undoes another: while the object exists its heartbeat gets no older but by
\* the clock, the mark and ReadyToBeDeleted stay, and a step changes the spec, the
\* heartbeat or the verdict, never two of them.
NoLostUpdate == [][Keeps]_vars

\* The verdict settles. When no heartbeat comes any more, HeartbeatTimeout is reported for
\* good, although time alone causes no event and a failed status update is only logged;
\* with the last heartbeat always within the threshold, also after a time-out, it is
\* ReceivingHeartbeats.
VerdictSettles ==
    /\ <>[](obj.exists /\ Late(obj)) => <>[](obj.healthy = "HeartbeatTimeout")
    /\ <>[](obj.exists /\ Fresh(obj)) => <>[](obj.healthy = "ReceivingHeartbeats")

\* What the Addon controller wants the object to be.
SpecSettled == obj.exists /\ obj.period = DefaultPeriod /\ (deleting => obj.marked)

=============================================================================
