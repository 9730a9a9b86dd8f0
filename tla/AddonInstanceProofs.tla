------------------------ MODULE AddonInstanceProofs ------------------------
(***************************************************************************)
(* For every period, threshold and number of heartbeats, edits and faults: *)
(* a verdict that is saved fits the heartbeat beside it, none of the three *)
(* writers of an AddonInstance undoes what another one wrote, and neither  *)
(* controller loses sight of the object.                                   *)
(***************************************************************************)
EXTENDS AddonInstance, TLAPS

\* A verdict about a copy of i is right for i, however old the copy is, as long as
\* nobody wrote: heartbeats only get older.
Judged(v, i) ==
    /\ v # "none"
    /\ v = "HeartbeatTimeout" => Late(i)
    /\ v = "PendingFirstHeartbeat" <=> i.beat = None

\* What a current copy shares with the object.
Copies ==
    /\ "cache" \in current => cache = obj
    /\ "snap" \in current => hPc = "update" /\ obj.exists /\ Judged(verdict, obj)
    /\ "pulse" \in current =>
           /\ sending /\ obj.exists
           /\ pulse.beat <= obj.beat
           /\ obj.ready => pulse.ready

IInv == TypeOK /\ Copies

-----------------------------------------------------------------------------
(* The records.                                                            *)

\* The fields of an AddonInstance, and what an update of them yields.
LEMMA InstanceTypes ==
    ASSUME NEW i \in Instance
    PROVE  /\ i.exists \in BOOLEAN /\ i.marked \in BOOLEAN /\ i.ready \in BOOLEAN
           /\ i.period \in Periods /\ i.beat \in Beats /\ i.healthy \in Healthy
           /\ i = [exists |-> i.exists, marked |-> i.marked, period |-> i.period,
                   beat |-> i.beat, healthy |-> i.healthy, ready |-> i.ready]
           /\ [i EXCEPT !.marked = TRUE] \in Instance
           /\ \A q \in Periods: [i EXCEPT !.period = q] \in Instance
           /\ \A v \in Healthy: [i EXCEPT !.healthy = v] \in Instance
           /\ \A b \in Beats, r \in BOOLEAN: [i EXCEPT !.beat = b, !.ready = r] \in Instance
  BY DEF Instance

\* The object that does not exist, the one that is created, and no heartbeat.
LEMMA NewTypes ==
    /\ None \in Beats /\ 0 \in Beats
    /\ NoInstance \in Instance /\ NoPulse \in Pulse /\ ~NoInstance.exists
    /\ [NoInstance EXCEPT !.exists = TRUE] \in Instance
    /\ [NoInstance EXCEPT !.exists = TRUE].exists
<1>1. None \in Beats /\ 0 \in Beats
  BY InstanceAssumption DEF None, Beats
<1>2. DefaultPeriod \in Periods /\ "none" \in Healthy
  BY InstanceAssumption DEF Healthy
<1> QED
  BY <1>1, <1>2 DEF NoInstance, Instance, NoPulse, Pulse

\* The age one tick later.
LEMMA Ages ==
    ASSUME NEW b \in Beats
    PROVE  LET n == IF b < MaxAge THEN b + 1 ELSE b
           IN  b \in Nat /\ n \in Nat /\ n \in Beats /\ b <= n /\ (n = None <=> b = None)
  BY InstanceAssumption DEF Beats, None

\* A copy one tick later.
LEMMA OlderTypes ==
    ASSUME NEW i \in Instance
    PROVE  /\ Older(i) \in Instance
           /\ Older(i) = [i EXCEPT !.beat = Older(i).beat, !.ready = i.ready]
           /\ Older(i).exists = i.exists /\ Older(i).marked = i.marked
           /\ Older(i).ready = i.ready /\ Older(i).period = i.period
           /\ Older(i).healthy = i.healthy
           /\ Older(i).beat = IF i.beat < MaxAge THEN i.beat + 1 ELSE i.beat
<1>1. i.beat \in Beats
  BY DEF Instance
<1>2. (IF i.beat < MaxAge THEN i.beat + 1 ELSE i.beat) \in Beats
  BY <1>1, Ages
<1> QED
  BY <1>2 DEF Older, Instance

\* A heartbeat in flight one tick later.
LEMMA OlderPulse ==
    ASSUME NEW u \in Pulse
    PROVE  /\ Older(u) \in Pulse /\ Older(u).ready = u.ready
           /\ Older(u).beat = IF u.beat < MaxAge THEN u.beat + 1 ELSE u.beat
<1>1. u.beat \in Beats
  BY DEF Pulse
<1>2. (IF u.beat < MaxAge THEN u.beat + 1 ELSE u.beat) \in Beats
  BY <1>1, Ages
<1> QED
  BY <1>2 DEF Older, Pulse

\* The object's heartbeat does not get younger, and stays older than one in flight.
LEMMA OlderOrder ==
    ASSUME NEW i \in Instance
    PROVE  /\ Older(i).beat \in Nat
           /\ i.beat <= Older(i).beat /\ Older(i).beat <= Older(i).beat
           /\ \A u \in Pulse: u.beat <= i.beat => Older(u).beat <= Older(i).beat
<1>1. Older(i).beat = IF i.beat < MaxAge THEN i.beat + 1 ELSE i.beat
  BY OlderTypes
<1>2. i.beat \in Beats
  BY InstanceTypes
<1>3. i.beat <= Older(i).beat /\ Older(i).beat \in Nat /\ i.beat \in Nat
  BY <1>1, <1>2, Ages
<1>4. ASSUME NEW u \in Pulse, u.beat <= i.beat PROVE Older(u).beat <= Older(i).beat
  <2>1. Older(u).beat = IF u.beat < MaxAge THEN u.beat + 1 ELSE u.beat
    BY OlderPulse
  <2>2. u.beat \in Nat
    BY DEF Pulse, Beats, None
  <2> QED
    BY <1>1, <1>3, <1>4, <2>1, <2>2, InstanceAssumption
<1> QED
  BY <1>3, <1>4

\* Time does not make a verdict wrong that is waiting to be saved.
LEMMA JudgedOlder ==
    ASSUME NEW i \in Instance, NEW v \in Healthy, Judged(v, i)
    PROVE  Judged(v, Older(i))
<1>1. i.beat \in Beats /\ i.period \in Nat
  BY InstanceAssumption, InstanceTypes
<1>2. /\ Older(i).beat \in Beats /\ i.beat <= Older(i).beat
      /\ Older(i).beat = None <=> i.beat = None
  BY <1>1, Ages, OlderTypes
<1>3. ASSUME Late(i) PROVE Late(Older(i))
  <2>1. ThresholdMultiplier * i.period \in Nat
    BY <1>1, InstanceAssumption
  <2>2. Older(i).period = i.period
    BY OlderTypes
  <2> QED
    BY <1>1, <1>2, <1>3, <2>1, <2>2, InstanceAssumption DEF Late, Beats, None
<1> QED
  BY <1>2, <1>3 DEF Judged

\* checkHeartbeat judges the copy it is given.
LEMMA CheckJudges ==
    ASSUME NEW i \in Instance
    PROVE  checkHeartbeat(i) \in Healthy /\ Judged(checkHeartbeat(i), i)
  BY DEF checkHeartbeat, Judged, Healthy, Late

\* A write from a copy: what else is current afterwards was current before, and is a
\* copy of the same object.
LEMMA WriteKeeps ==
    ASSUME TypeOK, NEW i \in Instance, NEW by \in {"user", "worker", "snap", "pulse"},
           Write(by, i)
    PROVE  /\ obj' = i /\ current' \subseteq {"cache", "snap", "pulse"}
           /\ by \notin current'
           /\ \A c \in current': c \in current /\ obj' = obj
  BY DEF TypeOK, Write

-----------------------------------------------------------------------------
(* The steps.  Each keeps the invariant, what others wrote, and the fit of *)
(* the verdict.                                                            *)

Good == IInv' /\ Keeps /\ Fits

USE InstanceAssumption DEF copies, addon, health, worker, bounds

\* A step that leaves the object alone only has to keep the invariant.
LEMMA ObjectAlone == ASSUME TypeOK, UNCHANGED obj PROVE Keeps /\ Fits
<1>1. obj \in Instance
  BY DEF TypeOK
<1>2. obj.beat <= Older(obj).beat
  BY <1>1, OlderOrder
<1>3. obj = [obj EXCEPT !.healthy = obj.healthy]
  BY <1>1 DEF Instance
<1> QED
  BY <1>2, <1>3 DEF Keeps, Fits

\* A write to the spec, or one that deletes the object, keeps the heartbeat and the
\* verdict of others.
LEMMA SpecWrites ==
    ASSUME TypeOK, NEW i \in Instance, obj' = i,
           \/ ~i.exists
           \/ i = [obj EXCEPT !.marked = TRUE]
           \/ \E q \in Periods: i = [obj EXCEPT !.period = q]
           \/ ~obj.exists
    PROVE  Keeps /\ Fits
<1>1. obj \in Instance
  BY DEF TypeOK
<1>2. obj.beat <= Older(obj).beat
  BY <1>1, OlderOrder
<1>3. CASE ~i.exists \/ ~obj.exists
  BY <1>3 DEF Keeps, Fits
<1>4. CASE i = [obj EXCEPT !.marked = TRUE]
  <2>1. /\ i = [obj EXCEPT !.marked = i.marked, !.period = i.period]
        /\ i.beat = obj.beat /\ i.ready = obj.ready /\ i.healthy = obj.healthy /\ i.marked
    BY <1>1, <1>4 DEF Instance
  <2> QED
    BY <1>2, <2>1 DEF Keeps, Fits
<1>5. CASE \E q \in Periods: i = [obj EXCEPT !.period = q]
  <2>1. /\ i = [obj EXCEPT !.marked = i.marked, !.period = i.period]
        /\ i.beat = obj.beat /\ i.ready = obj.ready /\ i.healthy = obj.healthy
        /\ i.marked = obj.marked
    BY <1>1, <1>5 DEF Instance
  <2> QED
    BY <1>2, <2>1 DEF Keeps, Fits
<1> QED
  BY <1>3, <1>4, <1>5

\* The clock.
LEMMA TickGood == IInv /\ Tick => Good
<1> SUFFICES ASSUME IInv, Tick PROVE Good
  OBVIOUS
<1>1. obj \in Instance /\ cache \in Instance /\ pulse \in Pulse /\ verdict \in Healthy
  BY DEF IInv, TypeOK
<1>2. obj' = Older(obj) /\ cache' = Older(cache) /\ pulse' = Older(pulse)
  BY DEF Tick
<1>3. ~obj.exists => Older(obj) = NoInstance
  <2> SUFFICES ASSUME ~obj.exists PROVE Older(obj) = NoInstance
    OBVIOUS
  <2>1. obj = NoInstance /\ NoInstance \in Instance
    BY NewTypes DEF IInv, TypeOK
  <2>2. NoInstance.beat = None /\ ~(None < MaxAge)
    BY DEF NoInstance, None
  <2> QED
    BY <2>1, <2>2 DEF Older, Instance
<1>4. TypeOK'
  BY <1>1, <1>2, <1>3, OlderTypes, OlderPulse DEF Tick, IInv, TypeOK
<1>5. Copies'
  <2>1. "cache" \in current' => cache' = obj'
    BY <1>2 DEF Tick, IInv, Copies
  <2>2. "snap" \in current' => (hPc = "update" /\ obj.exists /\ Judged(verdict, obj))'
    BY <1>1, <1>2, OlderTypes, JudgedOlder DEF Tick, IInv, Copies
  <2>3. ASSUME "pulse" \in current'
        PROVE  /\ sending' /\ obj'.exists /\ pulse'.beat <= obj'.beat
               /\ obj'.ready => pulse'.ready
    <3>1. sending /\ obj.exists /\ pulse.beat <= obj.beat /\ (obj.ready => pulse.ready)
      BY <2>3 DEF Tick, IInv, Copies
    <3>2. Older(pulse).beat <= Older(obj).beat
      BY <1>1, <3>1, OlderOrder
    <3> QED
      BY <1>1, <1>2, <3>1, <3>2, OlderTypes, OlderPulse DEF Tick
  <2> QED
    BY <2>1, <2>2, <2>3 DEF Copies
<1>6. Keeps /\ Fits
  <2>1. Older(obj).beat <= Older(obj).beat
    BY <1>1, OlderOrder
  <2>2. obj' = [obj EXCEPT !.beat = obj'.beat, !.ready = obj'.ready]
    BY <1>1, <1>2, OlderTypes
  <2>3. obj'.marked = obj.marked /\ obj'.ready = obj.ready /\ obj'.healthy = obj.healthy
    BY <1>1, <1>2, OlderTypes
  <2> QED
    BY <1>2, <2>1, <2>2, <2>3 DEF Keeps, Fits
<1> QED
  BY <1>4, <1>5, <1>6 DEF Good, IInv

\* What users and OCM do.
LEMMA EditsGood == IInv /\ (EditInstance \/ AskForDeletion \/ TimeoutElapses) => Good
<1> SUFFICES ASSUME IInv, EditInstance \/ AskForDeletion \/ TimeoutElapses PROVE Good
  OBVIOUS
<1>1. TypeOK /\ Copies /\ obj \in Instance
  BY DEF IInv, TypeOK
<1>2. CASE EditInstance
  <2>1. PICK i \in Instance:
          /\ Write("user", i)
          /\ \/ i = NoInstance
             \/ i.exists /\ \E q \in Periods: i = [obj EXCEPT !.period = q]
    <3>1. CASE Write("user", NoInstance)
      BY <3>1, NewTypes
    <3>2. CASE \E q \in Periods \ {obj.period}: Write("user", [obj EXCEPT !.period = q])
      <4>1. PICK q \in Periods: Write("user", [obj EXCEPT !.period = q])
        BY <3>2
      <4>2. /\ [obj EXCEPT !.period = q] \in Instance
            /\ [obj EXCEPT !.period = q].exists = obj.exists
        BY <1>1 DEF Instance
      <4> QED
        BY <1>2, <4>1, <4>2 DEF EditInstance
    <3> QED
      BY <1>2, <3>1, <3>2 DEF EditInstance
  <2>2. /\ obj' = i /\ current' \subseteq {"cache", "snap", "pulse"}
        /\ \A c \in current': c \in current /\ obj' = obj
    BY <1>1, <2>1, WriteKeeps
  <2>3. edits' \in 0..MaxEdits
    BY <1>1, <1>2 DEF EditInstance, Edit, TypeOK
  <2>4. TypeOK'
    BY <1>1, <1>2, <2>1, <2>2, <2>3 DEF EditInstance, Edit, TypeOK
  <2>5. Copies'
    BY <1>1, <1>2, <2>2 DEF EditInstance, Edit, Copies
  <2>6. Keeps /\ Fits
    BY <1>1, <2>1, <2>2, NewTypes, SpecWrites
  <2> QED
    BY <2>4, <2>5, <2>6 DEF Good, IInv
<1>3. CASE AskForDeletion
  <2>1. edits' \in 0..MaxEdits
    BY <1>1, <1>3 DEF AskForDeletion, Edit, TypeOK
  <2>2. TypeOK'
    BY <1>1, <1>3, <2>1 DEF AskForDeletion, Edit, TypeOK
  <2>3. Copies' /\ UNCHANGED obj
    BY <1>1, <1>3 DEF AskForDeletion, Edit, Copies
  <2> QED
    BY <1>1, <2>2, <2>3, ObjectAlone DEF Good, IInv
<1>4. CASE TimeoutElapses
  <2>1. TypeOK'
    BY <1>1, <1>4 DEF TimeoutElapses, TypeOK
  <2>2. Copies' /\ UNCHANGED obj
    BY <1>1, <1>4 DEF TimeoutElapses, Copies
  <2> QED
    BY <1>1, <2>1, <2>2, ObjectAlone DEF Good, IInv
<1> QED
  BY <1>2, <1>3, <1>4

\* The addon sends a heartbeat, and it arrives or is lost.
LEMMA PulseGood == IInv /\ (SendPulse \/ PulseArrives) => Good
<1> SUFFICES ASSUME IInv, SendPulse \/ PulseArrives PROVE Good
  OBVIOUS
<1>1. TypeOK /\ Copies /\ obj \in Instance /\ pulse \in Pulse
  BY DEF IInv, TypeOK
<1>2. CASE SendPulse
  <2>1. PICK r \in BOOLEAN: pulse' = [beat |-> 0, ready |-> r] /\ (obj.ready => r)
    <3>1. PICK r \in {obj.ready, obj.ready \/ obj.marked}: pulse' = [beat |-> 0, ready |-> r]
      BY <1>2 DEF SendPulse
    <3>2. obj.ready \in BOOLEAN /\ (obj.ready \/ obj.marked) \in BOOLEAN
      BY <1>1, InstanceTypes
    <3> QED
      BY <3>1, <3>2
  <2>2. pulse' \in Pulse /\ pulse'.beat = 0 /\ pulse'.ready = r
    BY <2>1, NewTypes DEF Pulse
  <2>3. 0 <= obj.beat
    BY <1>1 DEF Instance, Beats, None
  <2>4. TypeOK'
    BY <1>1, <1>2, <2>2 DEF SendPulse, TypeOK
  <2>5. Copies' /\ UNCHANGED obj
    BY <1>1, <1>2, <2>1, <2>2, <2>3 DEF SendPulse, Copies
  <2> QED
    BY <1>1, <2>4, <2>5, ObjectAlone DEF Good, IInv
<1>3. CASE PulseArrives
  <2>1. NoPulse \in Pulse
    BY NewTypes
  <2>2. CASE current' = current \ {"pulse"} /\ UNCHANGED <<obj, meetings>>
    <3>1. TypeOK'
      BY <1>1, <1>3, <2>1, <2>2 DEF PulseArrives, TypeOK
    <3>2. Copies'
      BY <1>1, <1>3, <2>2 DEF PulseArrives, Copies
    <3> QED
      BY <1>1, <2>2, <3>1, <3>2, ObjectAlone DEF Good, IInv
  <2>3. CASE /\ "pulse" \in current
             /\ Write("pulse", [obj EXCEPT !.beat = pulse.beat, !.ready = pulse.ready])
             /\ \/ UNCHANGED meetings
                \/ meetings < MaxMeetings /\ meetings' = meetings + 1
    <3> DEFINE i == [obj EXCEPT !.beat = pulse.beat, !.ready = pulse.ready]
    <3>1. /\ i \in Instance /\ i.beat = pulse.beat /\ i.ready = pulse.ready
          /\ i.exists = obj.exists /\ i.marked = obj.marked /\ i.healthy = obj.healthy
      BY <1>1 DEF Instance, Pulse
    <3>2. obj.exists /\ pulse.beat <= obj.beat /\ (obj.ready => pulse.ready)
      BY <1>1, <2>3 DEF Copies
    <3>3. /\ obj' = i /\ current' \subseteq {"cache", "snap", "pulse"}
          /\ "pulse" \notin current'
          /\ \A c \in current': c \in current /\ obj' = obj
      BY <1>1, <2>3, <3>1, WriteKeeps
    <3>4. meetings' \in 0..MaxMeetings
      BY <1>1, <2>3 DEF TypeOK
    <3>5. TypeOK'
      BY <1>1, <1>3, <2>1, <3>1, <3>2, <3>3, <3>4 DEF PulseArrives, TypeOK
    <3>6. Copies'
      BY <1>1, <1>3, <3>3 DEF PulseArrives, Copies
    <3>7. pulse.beat <= Older(obj).beat
      <4>1. pulse.beat \in Nat /\ obj.beat \in Nat /\ Older(obj).beat \in Nat
        BY <1>1, OlderOrder DEF Instance, Pulse, Beats, None
      <4>2. obj.beat <= Older(obj).beat
        BY <1>1, OlderOrder
      <4> QED
        BY <3>2, <4>1, <4>2
    <3>8. Keeps /\ Fits
      <4>1. obj' = [obj EXCEPT !.beat = obj'.beat, !.ready = obj'.ready]
        BY <3>1, <3>3
      <4> QED
        BY <3>1, <3>2, <3>3, <3>7, <4>1 DEF Keeps, Fits
    <3> QED
      BY <3>5, <3>6, <3>8 DEF Good, IInv
  <2> QED
    BY <1>3, <2>2, <2>3 DEF PulseArrives
<1> QED
  BY <1>2, <1>3

\* The watch, the timer and a restart.
LEMMA ProcessGood == IInv /\ (Sync \/ Poll \/ Restart) => Good
<1> SUFFICES ASSUME IInv, Sync \/ Poll \/ Restart PROVE Good
  OBVIOUS
<1>1. TypeOK /\ Copies
  BY DEF IInv
<1>2. CASE Sync
  <2>1. TypeOK'
    BY <1>1, <1>2 DEF Sync, TypeOK
  <2>2. Copies' /\ UNCHANGED obj
    BY <1>1, <1>2 DEF Sync, Copies
  <2> QED
    BY <1>1, <2>1, <2>2, ObjectAlone DEF Good, IInv
<1>3. CASE Poll
  <2>1. TypeOK'
    BY <1>1, <1>3 DEF Poll, TypeOK
  <2>2. Copies' /\ UNCHANGED obj
    BY <1>1, <1>3 DEF Poll, Copies
  <2> QED
    BY <1>1, <2>1, <2>2, ObjectAlone DEF Good, IInv
<1>4. CASE Restart
  <2>1. faults' \in 0..MaxFaults
    BY <1>1, <1>4 DEF Restart, Fault, TypeOK
  <2>2. TypeOK'
    BY <1>1, <1>4, <2>1 DEF Restart, TypeOK, Healthy
  <2>3. Copies' /\ UNCHANGED obj
    BY <1>1, <1>4 DEF Restart, Copies
  <2> QED
    BY <1>1, <2>2, <2>3, ObjectAlone DEF Good, IInv
<1> QED
  BY <1>2, <1>3, <1>4

\* The AddonInstance controller judges a cached copy, and saves the verdict later.
LEMMA ControllerGood == IInv /\ Controller => Good
<1> SUFFICES ASSUME IInv, Controller PROVE Good
  OBVIOUS
<1>1. TypeOK /\ Copies /\ obj \in Instance /\ cache \in Instance /\ verdict \in Healthy
  BY DEF IInv, TypeOK
<1>2. CASE Reconcile
  <2>1. checkHeartbeat(cache) \in Healthy /\ Judged(checkHeartbeat(cache), cache)
    BY <1>1, CheckJudges
  <2>2. TypeOK'
    BY <1>1, <1>2, <2>1 DEF Reconcile, TypeOK
  <2>3. UNCHANGED <<obj, cache, pulse, sending>>
    BY <1>2 DEF Reconcile
  <2>4. CASE cache.exists
    <3>1. /\ hPc' = "update" /\ verdict' = checkHeartbeat(cache)
          /\ current' = IF "cache" \in current THEN current \cup {"snap"}
                                               ELSE current \ {"snap"}
      BY <1>2, <2>4 DEF Reconcile
    <3>2. ASSUME "cache" \in current PROVE Copies'
      BY <1>1, <2>1, <2>3, <2>4, <3>1, <3>2 DEF Copies, Judged, Late
    <3>3. ASSUME "cache" \notin current PROVE Copies'
      BY <1>1, <2>3, <3>1, <3>3 DEF Copies
    <3> QED
      BY <1>1, <2>2, <2>3, <3>2, <3>3, ObjectAlone DEF Good, IInv
  <2>5. CASE ~cache.exists
    <3>1. UNCHANGED <<hPc, verdict, current>>
      BY <1>2, <2>5 DEF Reconcile
    <3>2. Copies'
      BY <1>1, <2>3, <3>1 DEF Copies, Judged, Late
    <3> QED
      BY <1>1, <2>2, <2>3, <3>2, ObjectAlone DEF Good, IInv
  <2> QED
    BY <2>4, <2>5
<1>3. CASE UpdateStatus
  <2>1. UNCHANGED <<cache, pulse, sending>> /\ verdict' \in Healthy
    BY <1>3 DEF UpdateStatus, Healthy
  <2>2. CASE "snap" \in current /\ Write("snap", [obj EXCEPT !.healthy = verdict])
             /\ UNCHANGED faults
    <3> DEFINE i == [obj EXCEPT !.healthy = verdict]
    <3>1. /\ i \in Instance /\ i.beat = obj.beat /\ i.ready = obj.ready
          /\ i.exists = obj.exists /\ i.marked = obj.marked /\ i.healthy = verdict
          /\ i.period = obj.period
      BY <1>1 DEF Instance
    <3>2. obj.exists /\ Judged(verdict, obj)
      BY <1>1, <2>2 DEF Copies
    <3>3. /\ obj' = i /\ current' \subseteq {"cache", "snap", "pulse"}
          /\ "snap" \notin current'
          /\ \A c \in current': c \in current /\ obj' = obj
      BY <1>1, <2>2, <3>1, WriteKeeps
    <3>4. TypeOK'
      BY <1>1, <1>3, <2>1, <2>2, <3>1, <3>2, <3>3 DEF UpdateStatus, TypeOK
    <3>5. Copies'
      BY <1>1, <2>1, <3>3 DEF Copies
    <3>6. obj.beat <= Older(obj).beat
      BY <1>1, OlderOrder
    <3>7. Keeps
      BY <3>1, <3>3, <3>6 DEF Keeps
    <3>8. Fits
      BY <3>1, <3>2, <3>3 DEF Fits, Judged, Late
    <3> QED
      BY <3>4, <3>5, <3>7, <3>8 DEF Good, IInv
  <2>3. CASE UNCHANGED obj /\ current' = current \ {"snap"} /\ faults' \in 0..MaxFaults
    <3>1. TypeOK'
      BY <1>1, <1>3, <2>1, <2>3 DEF UpdateStatus, TypeOK
    <3>2. Copies'
      BY <1>1, <2>1, <2>3 DEF Copies
    <3> QED
      BY <1>1, <2>3, <3>1, <3>2, ObjectAlone DEF Good, IInv
  <2>4. CASE "snap" \notin current /\ UNCHANGED <<obj, current, faults>>
    <3>1. current' = current \ {"snap"} /\ faults' \in 0..MaxFaults
      BY <1>1, <2>4 DEF TypeOK
    <3> QED
      BY <2>3, <2>4, <3>1
  <2>5. CASE Fault /\ UNCHANGED obj /\ current' = current \ {"snap"}
    <3>1. faults' \in 0..MaxFaults
      BY <1>1, <2>5 DEF Fault, TypeOK
    <3> QED
      BY <2>3, <2>5, <3>1
  <2> QED
    BY <1>3, <2>2, <2>4, <2>5 DEF UpdateStatus
<1> QED
  BY <1>2, <1>3 DEF Controller

\* An Update of the Addon controller, made from its cached copy, is about the object as
\* it is or fails.
LEMMA UpdateCachedGood ==
    ASSUME IInv, NEW i \in Instance, NEW q \in {"idle", "notify", "ensure"},
           UpdateCached(i, q),
           i.exists,
           \/ i = [cache EXCEPT !.marked = TRUE]
           \/ \E r \in Periods: i = [cache EXCEPT !.period = r],
           UNCHANGED <<cache, addon, health, deleting, elapsed, meetings, edits>>
    PROVE  Good
<1>1. TypeOK /\ Copies
  BY DEF IInv
<1>2. CASE /\ "cache" \in current /\ Write("worker", i)
           /\ wPc' = q /\ UNCHANGED <<wQueue, faults>>
  <2>1. cache = obj
    BY <1>1, <1>2 DEF Copies
  <2>2. /\ obj' = i /\ current' \subseteq {"cache", "snap", "pulse"}
        /\ \A c \in current': c \in current /\ obj' = obj
    BY <1>1, <1>2, WriteKeeps
  <2>3. TypeOK'
    BY <1>1, <1>2, <2>2 DEF TypeOK
  <2>4. Copies'
    BY <1>1, <2>2 DEF Copies, Judged, Late
  <2>5. Keeps /\ Fits
    BY <1>1, <2>1, <2>2, SpecWrites
  <2> QED
    BY <2>3, <2>4, <2>5 DEF Good, IInv
<1>3. CASE /\ \/ "cache" \notin current /\ UNCHANGED faults
              \/ Fault
           /\ wPc' = "idle" /\ wQueue' = TRUE
           /\ UNCHANGED <<obj, current>>
  <2>1. faults' \in 0..MaxFaults
    BY <1>1, <1>3 DEF Fault, TypeOK
  <2>2. TypeOK'
    BY <1>1, <1>3, <2>1 DEF TypeOK
  <2>3. Copies'
    BY <1>1, <1>3 DEF Copies, Judged, Late
  <2> QED
    BY <1>1, <1>3, <2>2, <2>3, ObjectAlone DEF Good, IInv
<1> QED
  BY <1>2, <1>3 DEF UpdateCached

\* The Addon controller marks the object for deletion, and creates it or restores its spec.
LEMMA WorkerGood == IInv /\ Worker => Good
<1> SUFFICES ASSUME IInv, Worker PROVE Good
  OBVIOUS
<1>1. TypeOK /\ Copies /\ obj \in Instance /\ cache \in Instance
  BY DEF IInv, TypeOK
<1>2. ASSUME UNCHANGED <<copies, addon, health, deleting, elapsed, bounds>>,
             wPc' \in {"idle", "notify", "ensure"}, wQueue' \in BOOLEAN
      PROVE  Good
  <2>1. TypeOK'
    BY <1>1, <1>2 DEF TypeOK
  <2>2. Copies'
    BY <1>1, <1>2 DEF Copies, Judged, Late
  <2> QED
    BY <1>1, <1>2, <2>1, <2>2, ObjectAlone DEF Good, IInv
<1>3. CASE Pass
  <2>1. wPc' \in {"idle", "notify", "ensure"} /\ wQueue' \in BOOLEAN
    BY <1>3 DEF Pass
  <2>2. UNCHANGED <<copies, addon, health, deleting, elapsed, bounds>>
    BY <1>3 DEF Pass
  <2> QED
    BY <1>2, <2>1, <2>2
<1>4. CASE NotifyAddon
  <2>1. AfterNotice \in {"idle", "notify", "ensure"}
    BY DEF AfterNotice
  <2>2. UNCHANGED <<cache, addon, health, deleting, elapsed, meetings, edits>>
    BY <1>4 DEF NotifyAddon
  <2>3. CASE cache.exists /\ ~cache.marked
    <3>1. UpdateCached([cache EXCEPT !.marked = TRUE], AfterNotice)
      BY <1>4, <2>3 DEF NotifyAddon
    <3>2. [cache EXCEPT !.marked = TRUE] \in Instance /\ [cache EXCEPT !.marked = TRUE].exists
      BY <1>1, <2>3 DEF Instance
    <3> QED
      BY <2>1, <2>2, <3>1, <3>2, UpdateCachedGood
  <2>4. CASE ~(cache.exists /\ ~cache.marked)
    <3>1. wPc' = AfterNotice /\ UNCHANGED <<obj, current, wQueue, faults>>
      BY <1>4, <2>4 DEF NotifyAddon
    <3>2. wQueue' \in BOOLEAN
      BY <1>1, <3>1 DEF TypeOK
    <3> QED
      BY <1>2, <2>1, <2>2, <3>1, <3>2
  <2> QED
    BY <2>3, <2>4
<1>5. CASE reconcileAddonInstance
  <2>1. UNCHANGED <<cache, addon, health, deleting, elapsed, meetings, edits>>
    BY <1>5 DEF reconcileAddonInstance
  <2>2. CASE /\ ~obj.exists /\ Write("worker", [NoInstance EXCEPT !.exists = TRUE])
             /\ wPc' = "idle" /\ UNCHANGED <<wQueue, faults>>
    <3> DEFINE i == [NoInstance EXCEPT !.exists = TRUE]
    <3>1. i \in Instance /\ i.exists
      BY NewTypes
    <3>2. /\ obj' = i /\ current' \subseteq {"cache", "snap", "pulse"}
          /\ \A c \in current': c \in current /\ obj' = obj
      BY <1>1, <2>2, <3>1, WriteKeeps
    <3>3. TypeOK'
      BY <1>1, <2>1, <2>2, <3>1, <3>2 DEF TypeOK
    <3>4. Copies'
      BY <1>1, <2>1, <3>2 DEF Copies, Judged, Late
    <3>5. Keeps /\ Fits
      BY <1>1, <2>2, <3>1, <3>2, SpecWrites
    <3> QED
      BY <3>3, <3>4, <3>5 DEF Good, IInv
  <2>3. CASE /\ \/ obj.exists /\ UNCHANGED faults
                \/ Fault
             /\ wPc' = "idle" /\ wQueue' = TRUE /\ UNCHANGED <<obj, current>>
    <3>1. faults' \in 0..MaxFaults
      BY <1>1, <2>3 DEF Fault, TypeOK
    <3>2. TypeOK'
      BY <1>1, <2>1, <2>3, <3>1 DEF TypeOK
    <3>3. Copies'
      BY <1>1, <2>1, <2>3 DEF Copies, Judged, Late
    <3> QED
      BY <1>1, <2>3, <3>2, <3>3, ObjectAlone DEF Good, IInv
  <2>4. CASE cache.exists /\ UpdateCached([cache EXCEPT !.period = DefaultPeriod], "idle")
    <3>1. /\ [cache EXCEPT !.period = DefaultPeriod] \in Instance
          /\ [cache EXCEPT !.period = DefaultPeriod].exists
      BY <1>1, <2>4 DEF Instance
    <3> QED
      BY <2>1, <2>4, <3>1, UpdateCachedGood
  <2>5. CASE wPc' = "idle" /\ UNCHANGED <<obj, current, wQueue, faults>>
    <3>1. wQueue' \in BOOLEAN
      BY <1>1, <2>5 DEF TypeOK
    <3> QED
      BY <1>2, <2>1, <2>5, <3>1
  <2> QED
    BY <1>5, <2>2, <2>3, <2>4, <2>5 DEF reconcileAddonInstance
<1> QED
  BY <1>3, <1>4, <1>5 DEF Worker

-----------------------------------------------------------------------------
\* Every step of the specification is good.
LEMMA StepGood == IInv /\ [Next]_vars => Good
<1>1. ASSUME IInv, UNCHANGED vars PROVE Good
  <2>1. TypeOK /\ UNCHANGED obj
    BY <1>1 DEF IInv, vars
  <2>2. TypeOK'
    BY <1>1 DEF IInv, TypeOK, vars
  <2>3. Copies'
    BY <1>1 DEF IInv, Copies, Judged, Late, vars
  <2> QED
    BY <2>1, <2>2, <2>3, ObjectAlone DEF Good, IInv
<1> QED
  BY <1>1, TickGood, EditsGood, PulseGood, ProcessGood, ControllerGood, WorkerGood
     DEF Next

\* In every reachable state, current copies are what their holders take them for.
THEOREM Invariance == Spec => []IInv
<1>1. Init => IInv
  <2> SUFFICES ASSUME Init PROVE IInv
    OBVIOUS
  <2>1. "none" \in Healthy
    BY DEF Healthy
  <2>2. TypeOK
    <3>1. obj \in Instance /\ cache \in Instance /\ pulse \in Pulse /\ obj = NoInstance
      BY NewTypes DEF Init
    <3>2. verdict \in Healthy /\ current \subseteq {"cache", "snap", "pulse"}
      BY <2>1 DEF Init
    <3>3. /\ sending \in BOOLEAN /\ hQueue \in BOOLEAN /\ hTimer \in BOOLEAN
          /\ wQueue \in BOOLEAN /\ deleting \in BOOLEAN /\ elapsed \in BOOLEAN
      BY DEF Init
    <3>4. meetings \in 0..MaxMeetings /\ edits \in 0..MaxEdits /\ faults \in 0..MaxFaults
      BY DEF Init
    <3>5. hPc \in {"idle", "update"} /\ wPc \in {"idle", "notify", "ensure"}
      BY DEF Init
    <3> QED
      BY <3>1, <3>2, <3>3, <3>4, <3>5 DEF TypeOK
  <2>3. Copies
    BY DEF Init, Copies
  <2> QED
    BY <2>2, <2>3 DEF IInv
<1>2. IInv /\ [Next]_vars => IInv'
  BY StepGood DEF Good
<1> QED
  BY <1>1, <1>2, PTL DEF Spec

\* The state of the AddonInstance and its writers has its type.
THEOREM TypeCorrect == Spec => []TypeOK
<1>1. IInv => TypeOK
  BY DEF IInv
<1> QED
  BY <1>1, Invariance, PTL

\* Whatever copy Reconcile judged, a verdict that the API server accepts fits the
\* heartbeat it is saved beside.
THEOREM VerdictsFit == Spec => VerdictFits
<1>1. IInv /\ [Next]_vars => [Fits]_vars
  BY StepGood DEF Good
<1> QED
  BY <1>1, Invariance, PTL DEF Spec, VerdictFits

\* None of the three writers of the AddonInstance undoes what another one wrote.
THEOREM NoUpdateLost == Spec => NoLostUpdate
<1>1. IInv /\ [Next]_vars => [Keeps]_vars
  BY StepGood DEF Good
<1> QED
  BY <1>1, Invariance, PTL DEF Spec, NoLostUpdate

-----------------------------------------------------------------------------
(* Neither controller forgets the object.                                  *)

\* The informer is up to date and the Addon controller has nothing to do, not even after
\* the timer of a deletion that is waited for.
AtRest == "cache" \in current /\ ~wQueue /\ wPc = "idle" /\ (deleting => elapsed)

\* What a pass of the Addon controller knows when nothing tells it to start again: past
\* the notice the object is marked if it exists; it ends with the spec in place, or
\* waiting for the addon.
WorkInv ==
    "cache" \in current /\ ~wQueue =>
        /\ wPc = "notify" => deleting
        /\ wPc = "ensure" => (deleting /\ obj.exists => obj.marked)
        /\ wPc = "idle" => SpecSettled \/ (deleting /\ ~elapsed)

\* The object is as wanted when the Addon controller rests.
SpecAtRest == AtRest => SpecSettled

\* An AddonInstance that exists is going to be judged: an event or a key is on its way, a
\* pass runs, or the timer of the next poll is armed.
Polled == obj.exists => hQueue \/ hTimer \/ hPc = "update" \/ "cache" \notin current

\* What others do to the object reaches the cache as an event.
Calm ==
    "cache" \in current' =>
        /\ "cache" \in current
        /\ obj'.exists = obj.exists /\ obj'.marked = obj.marked /\ obj'.period = obj.period

\* A write leaves the cache behind, unless it changes nothing.
LEMMA WriteCalm == ASSUME NEW by, NEW i, Write(by, i) PROVE Calm
BY DEF Write, Calm

\* Every step but those of the Addon controller and the watch is calm.
LEMMA OthersCalm ==
    ASSUME IInv, Tick \/ EditInstance \/ SendPulse \/ PulseArrives \/ Poll \/ Controller
    PROVE  Calm /\ UNCHANGED <<wQueue, wPc, deleting, elapsed>>
<1>1. CASE Tick
  <2>1. obj \in Instance
    BY DEF IInv, TypeOK
  <2>2. /\ Older(obj).exists = obj.exists /\ Older(obj).marked = obj.marked
        /\ Older(obj).period = obj.period
    BY <2>1, OlderTypes, Zenon
  <2> QED
    BY <1>1, <2>2 DEF Tick, Calm
<1>2. CASE EditInstance
  <2>1. \E i: Write("user", i)
    BY <1>2, Zenon DEF EditInstance
  <2> QED
    BY <1>2, <2>1, WriteCalm DEF EditInstance, Edit
<1>3. CASE SendPulse
  <2>1. current' = current \cup {"pulse"} /\ UNCHANGED <<obj, wQueue, wPc, deleting, elapsed>>
    BY <1>3 DEF SendPulse
  <2> QED
    BY <2>1 DEF Calm
<1>4. CASE PulseArrives
  <2>1. (\E i: Write("pulse", i)) \/ (current' = current \ {"pulse"} /\ UNCHANGED obj)
    BY <1>4 DEF PulseArrives
  <2>2. Calm
    BY <2>1, WriteCalm DEF Calm
  <2> QED
    BY <1>4, <2>2 DEF PulseArrives
<1>5. CASE Poll \/ Reconcile
  BY <1>5 DEF Poll, Reconcile, Calm
<1>6. CASE UpdateStatus
  <2>1. (\E i: Write("snap", i)) \/ (current' \subseteq current /\ UNCHANGED obj)
    BY <1>6 DEF UpdateStatus
  <2>2. Calm
    BY <2>1, WriteCalm DEF Calm
  <2> QED
    BY <1>6, <2>2 DEF UpdateStatus
<1> QED
  BY <1>1, <1>2, <1>3, <1>4, <1>5, <1>6 DEF Controller

\* The pass of the Addon controller: a failed or outdated call brings the key back, a
\* write brings an event, and otherwise nothing had to be changed.
LEMMA WorkerRests == IInv /\ WorkInv /\ Worker => WorkInv'
<1> SUFFICES ASSUME IInv, WorkInv, Worker, "cache" \in current', ~wQueue'
             PROVE  /\ wPc' = "notify" => deleting'
                    /\ wPc' = "ensure" => (deleting' /\ obj'.exists => obj'.marked)
                    /\ wPc' = "idle" => SpecSettled' \/ (deleting' /\ ~elapsed')
  BY DEF WorkInv
<1>0. UNCHANGED <<deleting, elapsed>> /\ obj \in Instance
  BY DEF Worker, Pass, NotifyAddon, reconcileAddonInstance, IInv, TypeOK
<1>1. CASE Pass
  BY <1>1 DEF Pass
<1>2. CASE NotifyAddon
  <2>1. ~(cache.exists /\ ~cache.marked)
    <3> SUFFICES ASSUME cache.exists, ~cache.marked PROVE FALSE
      OBVIOUS
    <3>1. "cache" \in current /\ Write("worker", [cache EXCEPT !.marked = TRUE])
      BY <1>2 DEF NotifyAddon, UpdateCached
    <3>2. cache = obj
      BY <3>1 DEF IInv, Copies
    <3>3. [obj EXCEPT !.marked = TRUE].marked = TRUE
      BY <1>0 DEF Instance
    <3>4. [cache EXCEPT !.marked = TRUE] # obj
      BY <3>2, <3>3
    <3> QED
      BY <3>1, <3>4 DEF Write
  <2>2. wPc' = AfterNotice /\ UNCHANGED <<obj, current, wQueue>> /\ wPc = "notify"
    BY <1>2, <2>1 DEF NotifyAddon
  <2>3. deleting /\ cache = obj
    BY <2>2 DEF WorkInv, IInv, Copies
  <2> QED
    BY <1>0, <2>1, <2>2, <2>3 DEF AfterNotice
<1>3. CASE reconcileAddonInstance
  <2>1. wPc = "ensure" /\ wPc' = "idle"
    BY <1>3 DEF reconcileAddonInstance, UpdateCached
  <2>2. CASE ~cache.exists
    <3>1. ~obj.exists /\ Write("worker", [NoInstance EXCEPT !.exists = TRUE])
      BY <1>3, <2>2 DEF reconcileAddonInstance
    <3>2. [NoInstance EXCEPT !.exists = TRUE].exists
      BY NewTypes
    <3>3. [NoInstance EXCEPT !.exists = TRUE] # obj
      BY <3>1, <3>2
    <3> QED
      BY <3>1, <3>3 DEF Write
  <2>3. CASE cache.exists /\ cache.period # DefaultPeriod
    <3>1. "cache" \in current /\ Write("worker", [cache EXCEPT !.period = DefaultPeriod])
      BY <1>3, <2>3 DEF reconcileAddonInstance, UpdateCached
    <3>2. cache = obj
      BY <3>1 DEF IInv, Copies
    <3>3. [obj EXCEPT !.period = DefaultPeriod].period = DefaultPeriod
      BY <1>0 DEF Instance
    <3>4. [cache EXCEPT !.period = DefaultPeriod] # obj
      BY <2>3, <3>2, <3>3
    <3> QED
      BY <3>1, <3>4 DEF Write
  <2>4. CASE cache.exists /\ cache.period = DefaultPeriod
    <3>1. UNCHANGED <<obj, current, wQueue>>
      BY <1>3, <2>4 DEF reconcileAddonInstance
    <3>2. cache = obj /\ (deleting /\ obj.exists => obj.marked)
      BY <2>1, <3>1 DEF WorkInv, IInv, Copies
    <3>3. SpecSettled'
      BY <1>0, <2>4, <3>1, <3>2 DEF SpecSettled
    <3> QED
      BY <2>1, <3>3
  <2> QED
    BY <2>2, <2>3, <2>4
<1> QED
  BY <1>1, <1>2, <1>3 DEF Worker

\* Every step preserves WorkInv.
LEMMA StepRests == IInv /\ WorkInv /\ [Next]_vars => WorkInv'
<1> SUFFICES ASSUME IInv, WorkInv, [Next]_vars PROVE WorkInv'
  OBVIOUS
<1>1. CASE Tick \/ EditInstance \/ SendPulse \/ PulseArrives \/ Poll \/ Controller
  BY <1>1, OthersCalm DEF WorkInv, Calm, SpecSettled
<1>2. CASE AskForDeletion \/ TimeoutElapses \/ Sync \/ Restart
  BY <1>2 DEF AskForDeletion, TimeoutElapses, Sync, Restart, WorkInv
<1>3. CASE Worker
  BY <1>3, WorkerRests
<1>4. CASE UNCHANGED vars
  BY <1>4 DEF vars, WorkInv, SpecSettled
<1> QED
  BY <1>1, <1>2, <1>3, <1>4 DEF Next

\* The safety half of SpecSettles: the Addon controller never comes to rest while the
\* AddonInstance is missing, edited, or unmarked in a deletion, even if it was deleted
\* or changed in the middle of a pass, a call failed, or the process was killed.
THEOREM RestsAsWanted == Spec => []SpecAtRest
<1>1. Init => WorkInv
  BY DEF Init, WorkInv
<1>2. WorkInv => SpecAtRest
  BY DEF WorkInv, SpecAtRest, AtRest
<1> QED
  BY Invariance, StepRests, <1>1, <1>2, PTL DEF Spec

\* The safety half of VerdictSettles: the heartbeat of an AddonInstance that exists never
\* goes unwatched. A pass ends with the timer armed also when the update of the
\* status failed, and an object that came into being is an event.
THEOREM PollingGoesOn == Spec => []Polled
<1>1. Init => Polled
  BY NewTypes DEF Init, Polled
<1>2. IInv /\ Polled /\ [Next]_vars => Polled'
  <2> SUFFICES ASSUME IInv, Polled, [Next]_vars PROVE Polled'
    OBVIOUS
  <2>1. CASE Tick \/ EditInstance \/ SendPulse \/ PulseArrives
    <3>1. UNCHANGED <<hQueue, hTimer, hPc>>
      BY <2>1 DEF Tick, EditInstance, Edit, SendPulse, PulseArrives
    <3> QED
      BY <2>1, <3>1, OthersCalm, Zenon DEF Polled, Calm
  <2>2. CASE AskForDeletion \/ TimeoutElapses \/ UNCHANGED vars
    BY <2>2 DEF AskForDeletion, Edit, TimeoutElapses, vars, Polled
  <2>3. CASE Sync \/ Poll \/ Restart \/ UpdateStatus
    BY <2>3 DEF Sync, Poll, Restart, UpdateStatus, Polled
  <2>4. CASE Reconcile
    BY <2>4 DEF Reconcile, Polled, IInv, Copies
  <2>5. CASE Worker
    <3>1. UNCHANGED <<hQueue, hTimer, hPc>>
      BY <2>5 DEF Worker, Pass, NotifyAddon, reconcileAddonInstance
    <3>2. (\E i: Write("worker", i)) \/ UNCHANGED <<obj, current>>
      BY <2>5 DEF Worker, Pass, NotifyAddon, reconcileAddonInstance, UpdateCached
    <3>3. Calm
      BY <3>2, WriteCalm DEF Calm
    <3> QED
      BY <3>1, <3>3, Zenon DEF Polled, Calm
  <2> QED
    BY <2>1, <2>2, <2>3, <2>4, <2>5 DEF Next, Controller
<1> QED
  BY Invariance, <1>1, <1>2, PTL DEF Spec
=============================================================================
