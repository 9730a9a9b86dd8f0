------------------------ MODULE OCMReportingProofs ------------------------
(***************************************************************************)
(* For any number of versions, edits, moves and faults: an upgrade that    *)
(* OCM was told is completed is not reported as started again, a status    *)
(* hash that is saved is the one of the report OCM holds, and the operator *)
(* does not rest before the upgrade of a healthy Addon is recorded.        *)
(***************************************************************************)
EXTENDS OCMReporting, TLAPS

\* A copy of the Addon and what its record says of the upgrade: once OCM was told that a
\* version is completed, and until it is told otherwise, the record is one of that
\* version; and a record without a value is one without a version.
Recorded(a) ==
    /\ policyState = "completed" /\ completedAt # 0 => a.policyStatus.version = completedAt
    /\ a.policyStatus.value = "none" => a.policyStatus.version = 0

\* The worker alone writes the record, from a current copy: a copy of the Addon lacks at
\* most a save of its own version.
Follows(a) ==
    \/ obj.policyStatus = a.policyStatus
    \/ obj.policyStatus.version = a.version

\* The copies that are current: the object in hand differs from the saved one by what
\* this pass reported.
Copies ==
    /\ "cache" \in current => cache = obj
    /\ "snap" \in current =>
           /\ pc # "idle" /\ "cache" \in current
           /\ snap.version = obj.version
           /\ \/ snap.policyStatus = obj.policyStatus
              \/ snap.policyStatus.version = snap.version
           /\ \/ snap.hash = obj.hash
              \/ pc = "save" /\ snap.hash = ocmReport

\* The records of all copies.
Records ==
    /\ Recorded(obj) /\ Recorded(cache)
    /\ pc # "idle" => Recorded(snap)
    /\ Follows(cache)
    /\ pc \in {"policy", "get"} =>
           /\ Follows(snap)
           /\ cache.policyStatus = snap.policyStatus \/ cache.policyStatus = obj.policyStatus

\* What the decision on the state of the policy leaves known.
Decided ==
    /\ pc \in {"get", "startFirst", "start", "complete"} => snap.version # 0
    /\ pc \in {"startFirst", "complete"} =>
           /\ snap.policyStatus.version = snap.version
           /\ obj.policyStatus.version = snap.version
           /\ cache.policyStatus.version = snap.version
    /\ pc = "startFirst" => policyState # "completed"
    /\ pc = "start" =>
           snap.policyStatus.value = "none" \/ snap.policyStatus.version # snap.version

Calls == {"get", "startFirst", "start", "complete"}

\* The type invariant in two parts: ocmClientMux, and all the rest.
Lock ==
    /\ reader \in BOOLEAN /\ (reader <=> pc \in Calls)
    /\ reader => ocmClient /\ writer # "requeued"

Types ==
    /\ obj \in Addon /\ cache \in Addon /\ snap \in Addon
    /\ policyState \in PolicyState
    /\ ocmReport \subseteq Report
    /\ healthy \in BOOLEAN /\ ocmClient \in BOOLEAN /\ queue \in BOOLEAN /\ again \in BOOLEAN
    /\ writer \in {"idle", "waiting", "requeued"}
    /\ current \subseteq {"cache", "snap"}
    /\ pc \in PC
    /\ completedAt \in Versions
    /\ edits \in 0..MaxEdits /\ moves \in 0..MaxMoves /\ faults \in 0..MaxFaults

IInv == Types /\ Lock /\ Copies /\ Records /\ Decided

\* What the two safety properties ask of a step.
NotReopened ==
    policyState = "completed" /\ policyState' = "started" => snap.version # completedAt
Reported == obj'.hash # obj.hash => obj'.hash = ocmReport

Good == IInv' /\ NotReopened /\ Reported

-----------------------------------------------------------------------------
(* The records.                                                            *)

\* The two parts make the type invariant.
LEMMA TypeParts == Types /\ Lock <=> TypeOK
  BY DEF Types, Lock, TypeOK, Calls

\* The fields of an Addon, and what updates of its spec and status yield.
LEMMA AddonTypes ==
    ASSUME NEW a \in Addon
    PROVE  /\ a.version \in Versions /\ a.hash \subseteq Report /\ a.available \in BOOLEAN
           /\ \A h \in BOOLEAN:
                  LET n == [a EXCEPT !.available = h]
                  IN  /\ n \in Addon /\ n.version = a.version
                      /\ n.policyStatus = a.policyStatus /\ n.hash = a.hash
           /\ LET n == [a EXCEPT !.observedVersion = a.version]
              IN  /\ n \in Addon /\ n.version = a.version
                  /\ n.policyStatus = a.policyStatus /\ n.hash = a.hash
  BY DEF Addon

\* An edit of the spec leaves the status alone.
LEMMA EditTypes ==
    ASSUME NEW a \in Addon, NEW v \in Versions, NEW q \in BOOLEAN
    PROVE  LET n == [a EXCEPT !.version = v, !.policy = q]
           IN  n \in Addon /\ n.policyStatus = a.policyStatus /\ n.hash = a.hash
  BY DEF Addon

\* SetUpgradePolicyStatus records the version in hand.
LEMMA PolicyTypes ==
    ASSUME NEW a \in Addon, NEW val \in {"started", "completed"}
    PROVE  LET n == SetUpgradePolicyStatus(a, val)
           IN  /\ n \in Addon /\ n.version = a.version /\ n.hash = a.hash
               /\ n.policyStatus = [version |-> a.version, value |-> val]
               /\ n.policyStatus.version = a.version /\ n.policyStatus.value # "none"
  BY DEF Addon, PolicyStatus, SetUpgradePolicyStatus

\* setLastReportedStatus changes the hash only.
LEMMA HashTypes ==
    ASSUME NEW a \in Addon
    PROVE  LET n == setLastReportedStatus(a)
           IN  /\ n \in Addon /\ n.version = a.version /\ n.policyStatus = a.policyStatus
               /\ n.hash = {mapToAddonStatusConditions(a)} /\ n.hash \subseteq Report
<1>1. mapToAddonStatusConditions(a) \in Report
  BY DEF Addon, Report, mapToAddonStatusConditions
<1> QED
  BY <1>1 DEF Addon, setLastReportedStatus

\* No Addon in hand.
LEMMA NoAddonTypes ==
    NoAddon \in Addon /\ NilPolicy \in PolicyStatus /\ 0 \in Versions /\ 1 \in Versions
<1>1. 0 \in Versions /\ 1 \in Versions
  BY OCMReportingAssumption DEF Versions
<1> QED
  BY <1>1 DEF NoAddon, NilPolicy, Addon, PolicyStatus

-----------------------------------------------------------------------------
USE OCMReportingAssumption DEF objVars, ocmVars, clientVars, passVars, bounds

\* The initial states.
LEMMA InitIInv == Init => IInv
<1> SUFFICES ASSUME Init PROVE IInv
  OBVIOUS
<1>1. PICK val \in {"none", "started", "completed"}:
        obj = [NoAddon EXCEPT !.version = 1, !.policy = TRUE, !.observedVersion = 1,
                              !.policyStatus = [version |-> 0, value |-> val]]
  BY DEF Init
<1>2. obj \in Addon /\ obj.policyStatus.version = 0
  BY <1>1, NoAddonTypes DEF NoAddon, NilPolicy, Addon, PolicyStatus
<1>3. Types
  <2>1. edits \in 0..MaxEdits /\ moves \in 0..MaxMoves /\ faults \in 0..MaxFaults
    BY DEF Init
  <2>2. /\ healthy \in BOOLEAN /\ ocmClient \in BOOLEAN /\ queue \in BOOLEAN
        /\ again \in BOOLEAN
    BY DEF Init
  <2>3. cache \in Addon /\ snap \in Addon /\ completedAt \in Versions
    BY <1>2, NoAddonTypes DEF Init
  <2>4. /\ policyState \in PolicyState /\ writer \in {"idle", "waiting", "requeued"}
        /\ ocmReport \subseteq Report /\ pc \in PC /\ current \subseteq {"cache", "snap"}
    BY DEF Init, PC
  <2> QED
    BY <1>2, <2>1, <2>2, <2>3, <2>4 DEF Types
<1>4. Lock
  BY DEF Init, Lock, Calls
<1>5. Copies /\ Records /\ Decided
  BY <1>2 DEF Init, Copies, Records, Recorded, Follows, Decided
<1> QED
  BY <1>3, <1>4, <1>5 DEF IInv

\* A step outside the pass that leaves the copies, OCM and the record alone.
LEMMA Aside ==
    ASSUME IInv, UNCHANGED <<objVars, policyState, ocmReport, completedAt, pc, snap>>,
           Types', Lock'
    PROVE  Good
<1>1. Copies'
  BY DEF IInv, Copies
<1>2. Records'
  BY DEF IInv, Records, Recorded, Follows
<1>3. Decided'
  BY DEF IInv, Decided
<1>4. NotReopened /\ Reported
  BY DEF NotReopened, Reported
<1> QED
  BY <1>1, <1>2, <1>3, <1>4 DEF Good, IInv

\* What OCM and the cluster do.
LEMMA WorldGood == IInv /\ (EditAddon \/ OCMSchedules \/ HealthChanges) => Good
<1> SUFFICES ASSUME IInv, EditAddon \/ OCMSchedules \/ HealthChanges PROVE Good
  OBVIOUS
<1>1. Types /\ Lock /\ Copies /\ Records /\ Decided
  BY DEF IInv
<1>2. CASE EditAddon
  <2>1. PICK v \in Versions, q \in BOOLEAN:
          obj' = [obj EXCEPT !.version = v, !.policy = q]
    BY <1>2 DEF EditAddon
  <2>2. obj' \in Addon /\ obj'.policyStatus = obj.policyStatus /\ obj'.hash = obj.hash
    <3>1. obj \in Addon
      BY <1>1 DEF Types
    <3> QED
      BY <2>1, <3>1, EditTypes
  <2>3. edits' \in 0..MaxEdits
    <3>1. edits < MaxEdits /\ edits' = edits + 1
      BY <1>2 DEF EditAddon
    <3>2. edits \in 0..MaxEdits
      BY <1>1 DEF Types
    <3> QED
      BY <3>1, <3>2
  <2>4. Types'
    BY <1>1, <1>2, <2>2, <2>3 DEF EditAddon, Types
  <2>5. Lock' /\ Copies'
    BY <1>1, <1>2 DEF EditAddon, Lock, Copies
  <2>6. Records'
    BY <1>1, <1>2, <2>2 DEF EditAddon, Records, Recorded, Follows
  <2>7. Decided'
    BY <1>1, <1>2, <2>2 DEF EditAddon, Decided
  <2>8. NotReopened /\ Reported
    BY <1>2, <2>2 DEF EditAddon, NotReopened, Reported
  <2> QED
    BY <2>4, <2>5, <2>6, <2>7, <2>8 DEF Good, IInv
<1>3. CASE OCMSchedules
  <2>1. moves' \in 0..MaxMoves
    BY <1>1, <1>3 DEF OCMSchedules, Types
  <2>2. policyState' \in {"pending", "scheduled"}
    BY <1>3 DEF OCMSchedules
  <2>3. Types'
    BY <1>1, <1>3, <2>1, <2>2 DEF OCMSchedules, Types, PolicyState
  <2>4. Lock' /\ Copies'
    BY <1>1, <1>3 DEF OCMSchedules, Lock, Copies
  <2>5. Records' /\ Decided'
    BY <1>1, <1>3, <2>2 DEF OCMSchedules, Records, Recorded, Follows, Decided
  <2>6. NotReopened /\ Reported
    BY <1>3, <2>2 DEF OCMSchedules, NotReopened, Reported
  <2> QED
    BY <2>3, <2>4, <2>5, <2>6 DEF Good, IInv
<1>4. CASE HealthChanges
  <2>1. moves' \in 0..MaxMoves
    BY <1>1, <1>4 DEF HealthChanges, Types
  <2>2. healthy' \in BOOLEAN /\ queue' \in BOOLEAN
    BY <1>1, <1>4 DEF HealthChanges, Types
  <2>3. Types'
    BY <1>1, <1>4, <2>1, <2>2 DEF HealthChanges, Types
  <2>4. Lock'
    BY <1>1, <1>4 DEF HealthChanges, Lock
  <2>5. UNCHANGED <<objVars, policyState, ocmReport, completedAt, pc, snap>>
    BY <1>4 DEF HealthChanges
  <2> QED
    BY <2>3, <2>4, <2>5, Aside
<1> QED
  BY <1>2, <1>3, <1>4

\* The watch, the OCM client and a restart.
LEMMA ProcessGood ==
    IInv /\ (\/ Sync \/ Restart \/ handleOCMClient \/ Injector
            \/ requeueAllAddonsFails) => Good
<1> SUFFICES ASSUME IInv,
                    \/ Sync \/ Restart \/ handleOCMClient \/ Injector
                    \/ requeueAllAddonsFails
             PROVE  Good
  OBVIOUS
<1>1. Types /\ Lock /\ Copies /\ Records /\ Decided
  BY DEF IInv
<1>2. CASE Sync
  <2>1. "snap" \notin current
    BY <1>1, <1>2 DEF Sync, Copies
  <2>2. Types' /\ Lock'
    BY <1>1, <1>2 DEF Sync, Types, Lock
  <2>3. Copies'
    BY <1>1, <1>2, <2>1 DEF Sync, Copies
  <2>4. Records'
    BY <1>1, <1>2 DEF Sync, Records, Recorded, Follows
  <2>5. Decided'
    BY <1>1, <1>2 DEF Sync, Decided
  <2>6. NotReopened /\ Reported
    BY <1>2 DEF Sync, NotReopened, Reported
  <2> QED
    BY <2>2, <2>3, <2>4, <2>5, <2>6 DEF Good, IInv
<1>3. CASE Restart
  <2>1. faults' \in 0..MaxFaults
    BY <1>1, <1>3 DEF Restart, Types
  <2>2. Types'
    BY <1>1, <1>3, <2>1, NoAddonTypes DEF Restart, Types, PC
  <2>3. Lock'
    BY <1>3 DEF Restart, Lock, Calls
  <2>4. Copies' /\ Records' /\ Decided'
    BY <1>1, <1>3 DEF Restart, Copies, Records, Recorded, Follows, Decided
  <2>5. NotReopened /\ Reported
    BY <1>3 DEF Restart, NotReopened, Reported
  <2> QED
    BY <2>2, <2>3, <2>4, <2>5 DEF Good, IInv
<1>4. CASE handleOCMClient \/ Injector \/ requeueAllAddonsFails
  <2>1. UNCHANGED <<objVars, policyState, ocmReport, completedAt, pc, snap>>
    BY <1>4 DEF handleOCMClient, Injector, InjectOCMClient, storeOCMClient, requeueAllAddonsFails
  <2>2. faults' \in 0..MaxFaults
    BY <1>1, <1>4 DEF handleOCMClient, Injector, InjectOCMClient, storeOCMClient,
                      requeueAllAddonsFails, Types
  <2>3. Types'
    BY <1>1, <1>4, <2>1, <2>2 DEF handleOCMClient, Injector, InjectOCMClient, storeOCMClient,
                                  requeueAllAddonsFails, Types
  <2>4. Lock'
    BY <1>1, <1>4, <2>1 DEF handleOCMClient, Injector, InjectOCMClient, storeOCMClient,
                            requeueAllAddonsFails, Lock
  <2> QED
    BY <2>1, <2>3, <2>4, Aside
<1> QED
  BY <1>2, <1>3, <1>4

-----------------------------------------------------------------------------
(* The pass.                                                               *)

\* Reconcile goes on at p: the RLock is held as it should be.
LEMMA GotoLock ==
    ASSUME NEW p, NEW a, Goto(p, a), p \in Calls => ocmClient' /\ writer' # "requeued"
    PROVE  Lock' /\ pc' = p /\ snap' = a
<1>1. reader' = (p \in Calls) /\ pc' = p /\ snap' = a
  BY DEF Goto, Calls
<1>2. CASE p \in Calls
  BY <1>1, <1>2 DEF Lock
<1>3. CASE p \notin Calls
  <2>1. reader' \in BOOLEAN
    BY <1>1
  <2>2. ~reader'
    BY <1>1, <1>3
  <2>3. pc' \notin Calls
    BY <1>1, <1>3
  <2> QED
    BY <1>1, <2>1, <2>2, <2>3 DEF Lock, Calls
<1> QED
  BY <1>1, <1>2, <1>3

\* A new pass takes the cached copy.
LEMMA ReconcileGood == IInv /\ reconcile => Good
<1> SUFFICES ASSUME IInv, reconcile PROVE Good
  OBVIOUS
<1>1. Types /\ Lock /\ Copies /\ Records /\ Decided
  BY DEF IInv
<1>2. PICK a \in Addon: /\ Goto("policy", a) /\ a.version = cache.version
                        /\ a.policyStatus = cache.policyStatus /\ a.hash = cache.hash
  <2>1. cache \in Addon /\ healthy \in BOOLEAN
    BY <1>1 DEF Types
  <2>2. Goto("policy", cache) \/ Goto("policy", [cache EXCEPT !.available = healthy])
    BY DEF reconcile
  <2> QED
    BY <2>1, <2>2, AddonTypes
<1>3. Lock' /\ pc' = "policy" /\ snap' = a
  BY <1>2, GotoLock DEF Calls
<1>4. Types'
  BY <1>1, <1>3 DEF reconcile, Types, PC
<1>5. Copies'
  BY <1>1, <1>2, <1>3 DEF reconcile, Copies
<1>6. Records'
  BY <1>1, <1>2, <1>3 DEF reconcile, Records, Recorded, Follows
<1>7. Decided'
  BY <1>3 DEF Decided
<1>8. NotReopened /\ Reported
  BY DEF reconcile, NotReopened, Reported
<1> QED
  BY <1>3, <1>4, <1>5, <1>6, <1>7, <1>8 DEF Good, IInv

\* A step of the pass that leaves OCM alone and takes the same object to the calls, or
\* past them.
LEMMA GoesOn ==
    ASSUME IInv, NEW p \in {"get", "status", "post", "save"},
           pc \in {"policy", "get", "startFirst", "start", "complete", "status", "post"},
           Goto(p, snap),
           p = "get" => /\ pc = "policy" /\ ocmClient /\ writer # "requeued"
                        /\ snap.version # 0,
           UNCHANGED <<objVars, healthy, ocmClient, writer, queue, edits, moves>>,
           again' \in BOOLEAN, faults' \in 0..MaxFaults,
           UNCHANGED <<policyState, completedAt>>, ocmReport' \subseteq Report
    PROVE  Good
<1>1. Types /\ Lock /\ Copies /\ Records /\ Decided
  BY DEF IInv
<1>2. Lock' /\ pc' = p /\ snap' = snap
  BY GotoLock DEF Calls
<1>3. Types'
  BY <1>1, <1>2 DEF Types, PC
<1>4. Copies'
  BY <1>1, <1>2 DEF Copies
<1>5. Records'
  BY <1>1, <1>2 DEF Records, Recorded, Follows
<1>6. Decided'
  BY <1>1, <1>2 DEF Decided
<1>7. NotReopened /\ Reported
  BY DEF NotReopened, Reported
<1> QED
  BY <1>2, <1>3, <1>4, <1>5, <1>6, <1>7 DEF Good, IInv

\* The steps that read, and report the status.
LEMMA StatusGood ==
    IInv /\ (\/ handleUpgradePolicyStatusReporting \/ handleOCMAddOnStatusReporting
            \/ postAddonStatusFails \/ postAddonStatus) => Good
<1> SUFFICES ASSUME IInv,
                    \/ handleUpgradePolicyStatusReporting \/ handleOCMAddOnStatusReporting
                    \/ postAddonStatusFails \/ postAddonStatus
             PROVE  Good
  OBVIOUS
<1>1. Types /\ Lock /\ Copies /\ Records /\ Decided
  BY DEF IInv
<1>2. again \in BOOLEAN /\ faults \in 0..MaxFaults /\ ocmReport \subseteq Report /\ snap \in Addon
  BY <1>1 DEF Types
<1>3. CASE handleUpgradePolicyStatusReporting
  <2>1. UNCHANGED <<objVars, healthy, ocmVars, ocmClient, writer, queue, again, bounds>>
    BY <1>3 DEF handleUpgradePolicyStatusReporting
  <2>2. \/ Goto("status", snap)
        \/ Goto("get", snap) /\ ocmClient /\ writer # "requeued" /\ snap.version # 0
    BY <1>3 DEF handleUpgradePolicyStatusReporting, requiresReporting
  <2>3. pc = "policy"
    BY <1>3 DEF handleUpgradePolicyStatusReporting
  <2> QED
    BY <1>2, <2>1, <2>2, <2>3, GoesOn
<1>4. CASE handleOCMAddOnStatusReporting
  <2>1. UNCHANGED <<objVars, healthy, ocmVars, ocmClient, writer, queue, again, bounds>>
    BY <1>4 DEF handleOCMAddOnStatusReporting
  <2>2. pc = "status" /\ (Goto("post", snap) \/ Goto("save", snap))
    BY <1>4 DEF handleOCMAddOnStatusReporting
  <2> QED
    BY <1>2, <2>1, <2>2, GoesOn
<1>5. CASE postAddonStatusFails
  <2>1. /\ UNCHANGED <<objVars, healthy, ocmClient, writer, queue, edits, moves>>
        /\ UNCHANGED <<policyState, completedAt>>
        /\ pc = "post" /\ Goto("save", snap) /\ again' \in BOOLEAN
    BY <1>5 DEF postAddonStatusFails
  <2>2. faults' \in 0..MaxFaults
    BY <1>2, <1>5 DEF postAddonStatusFails
  <2>3. ocmReport' \subseteq Report
    BY <1>2, <1>5, HashTypes DEF postAddonStatusFails
  <2> QED
    BY <2>1, <2>2, <2>3, GoesOn
<1>6. CASE postAddonStatus
  <2> DEFINE n == setLastReportedStatus(snap)
  <2>1. /\ n \in Addon /\ n.version = snap.version /\ n.policyStatus = snap.policyStatus
        /\ n.hash = {mapToAddonStatusConditions(snap)} /\ n.hash \subseteq Report
    BY <1>2, HashTypes
  <2>2. Lock' /\ pc' = "save" /\ snap' = n
    BY <1>6, GotoLock DEF postAddonStatus, Calls
  <2>3. ocmReport' = n.hash
    BY <1>6, <2>1 DEF postAddonStatus
  <2> HIDE DEF n
  <2>4. Types'
    BY <1>1, <1>6, <2>1, <2>2, <2>3 DEF postAddonStatus, Types, PC
  <2>5. Copies'
    BY <1>1, <1>6, <2>1, <2>2, <2>3 DEF postAddonStatus, Copies
  <2>6. Records'
    BY <1>1, <1>6, <2>1, <2>2 DEF postAddonStatus, Records, Recorded, Follows
  <2>7. Decided'
    BY <2>2 DEF Decided
  <2>8. NotReopened /\ Reported
    BY <1>6 DEF postAddonStatus, NotReopened, Reported
  <2> QED
    BY <2>2, <2>4, <2>5, <2>6, <2>7, <2>8 DEF Good, IInv
<1> QED
  BY <1>3, <1>4, <1>5, <1>6

\* The decision on the state of the policy.
LEMMA DecisionGood == IInv /\ getPreviousUpgradePolicyStateValue => Good
<1> SUFFICES ASSUME IInv, getPreviousUpgradePolicyStateValue PROVE Good
  OBVIOUS
<1>1. Types /\ Lock /\ Copies /\ Records /\ Decided
  BY DEF IInv
<1>2. /\ pc = "get" /\ snap \in Addon /\ again \in BOOLEAN /\ faults \in 0..MaxFaults
      /\ ocmReport \subseteq Report
      /\ UNCHANGED <<objVars, healthy, ocmVars, ocmClient, writer, queue, again, bounds>>
  BY <1>1 DEF getPreviousUpgradePolicyStateValue, Types
<1>3. ocmClient /\ writer # "requeued" /\ snap.version # 0
  BY <1>1, <1>2 DEF Lock, Decided, Calls
<1>4. /\ Recorded(snap) /\ Follows(snap)
      /\ cache.policyStatus = snap.policyStatus \/ cache.policyStatus = obj.policyStatus
  BY <1>1, <1>2 DEF Records
<1>5. NotReopened /\ Reported
  BY <1>2 DEF NotReopened, Reported
<1>6. CASE /\ snap.policyStatus.version = 0
           /\ Goto("status", SetUpgradePolicyStatus(snap, "completed"))
  <2> DEFINE n == SetUpgradePolicyStatus(snap, "completed")
  <2>1. /\ n \in Addon /\ n.version = snap.version /\ n.hash = snap.hash
        /\ n.policyStatus.version = snap.version /\ n.policyStatus.value # "none"
    BY <1>2, PolicyTypes
  <2>2. Lock' /\ pc' = "status" /\ snap' = n
    BY <1>6, GotoLock DEF Calls
  <2> HIDE DEF n
  <2>3. Types'
    BY <1>1, <1>2, <2>1, <2>2 DEF Types, PC
  <2>4. Copies'
    BY <1>1, <1>2, <2>1, <2>2 DEF Copies
  <2>5. Records'
    BY <1>1, <1>2, <1>4, <1>6, <2>1, <2>2 DEF Records, Recorded, Follows
  <2>6. Decided'
    BY <2>2 DEF Decided
  <2> QED
    BY <1>5, <2>2, <2>3, <2>4, <2>5, <2>6 DEF Good, IInv
<1>7. CASE Goto("status", snap)
  BY <1>2, <1>7, GoesOn
<1>8. ASSUME NEW q \in {"start", "startFirst", "complete"}, Goto(q, snap),
             q = "start" => snap.policyStatus.value = "none"
                            \/ snap.policyStatus.version # snap.version,
             q # "start" => snap.policyStatus.version = snap.version,
             q = "startFirst" => policyState = "scheduled"
      PROVE  Good
  <2>1. Lock' /\ pc' = q /\ snap' = snap
    BY <1>2, <1>3, <1>8, GotoLock
  <2>2. Types'
    BY <1>1, <1>2, <2>1 DEF Types, PC
  <2>3. Copies'
    BY <1>1, <1>2, <2>1 DEF Copies
  <2>4. Records'
    BY <1>1, <1>2, <2>1, <1>4 DEF Records, Recorded, Follows
  <2>5. q # "start" => /\ obj.policyStatus.version = snap.version
                       /\ cache.policyStatus.version = snap.version
    BY <1>4, <1>8 DEF Follows
  <2>6. Decided'
    BY <1>2, <1>3, <1>8, <2>1, <2>5 DEF Decided
  <2> QED
    BY <1>5, <2>1, <2>2, <2>3, <2>4, <2>6 DEF Good, IInv
<1>9. \/ /\ snap.policyStatus.version = 0
         /\ Goto("status", SetUpgradePolicyStatus(snap, "completed"))
      \/ Goto("status", snap)
      \/ /\ Goto("start", snap)
         /\ snap.policyStatus.value = "none" \/ snap.policyStatus.version # snap.version
      \/ /\ Goto("complete", snap) /\ snap.policyStatus.version = snap.version
      \/ /\ Goto("startFirst", snap) /\ snap.policyStatus.version = snap.version
         /\ policyState = "scheduled"
  BY DEF getPreviousUpgradePolicyStateValue
<1> QED
  BY <1>6, <1>7, <1>8, <1>9

\* The reports of the upgrade, and their failures.
LEMMA UpgradeGood ==
    IInv /\ (\/ reportUpgradeStarted \/ reportUpgradeCompleted \/ upgradePolicyCallFails)
    => Good
<1> SUFFICES ASSUME IInv,
                    \/ reportUpgradeStarted \/ reportUpgradeCompleted
                    \/ upgradePolicyCallFails
             PROVE  Good
  OBVIOUS
<1>1. Types /\ Lock /\ Copies /\ Records /\ Decided
  BY DEF IInv
<1>2. snap \in Addon /\ snap.version \in Versions /\ faults \in 0..MaxFaults
  BY <1>1, AddonTypes DEF Types
<1>3. pc \in Calls => Recorded(snap) /\ snap.version # 0 /\ ocmClient /\ writer # "requeued"
  BY <1>1 DEF Records, Decided, Lock, Calls
<1>4. ASSUME pc \in {"startFirst", "start"}, policyState' = "started",
             UNCHANGED completedAt
      PROVE  NotReopened
  BY <1>1, <1>3, <1>4 DEF NotReopened, Decided, Recorded, Calls
<1>5. CASE reportUpgradeStarted
  <2> DEFINE n == SetUpgradePolicyStatus(snap, "started")
             q == IF pc = "start" THEN "status" ELSE "complete"
  <2>1. /\ n \in Addon /\ n.version = snap.version /\ n.hash = snap.hash
        /\ n.policyStatus.version = snap.version /\ n.policyStatus.value # "none"
    BY <1>2, PolicyTypes
  <2>2. /\ pc \in {"startFirst", "start"} /\ policyState' = "started"
        /\ UNCHANGED <<objVars, healthy, ocmReport, completedAt, ocmClient, writer, queue,
                       again, bounds>>
    BY <1>5 DEF reportUpgradeStarted
  <2>3. Lock' /\ pc' = q /\ snap' = n
    BY <1>3, <1>5, <2>2, GotoLock DEF reportUpgradeStarted, Calls
  <2>4. pc' \in {"status", "complete"} /\ (pc' = "complete" => pc = "startFirst")
    BY <2>2, <2>3
  <2> HIDE DEF n, q
  <2>5. Types'
    BY <1>1, <2>1, <2>2, <2>3, <2>4 DEF Types, PC, PolicyState
  <2>6. Copies'
    BY <1>1, <2>1, <2>2, <2>3, <2>4 DEF Copies
  <2>7. Records'
    BY <1>1, <2>1, <2>2, <2>3, <2>4 DEF Records, Recorded, Follows
  <2>8. Decided'
    BY <1>1, <2>1, <2>2, <2>3, <2>4 DEF Decided
  <2>9. NotReopened /\ Reported
    BY <1>4, <2>2 DEF Reported
  <2> QED
    BY <2>3, <2>5, <2>6, <2>7, <2>8, <2>9 DEF Good, IInv
<1>6. CASE reportUpgradeCompleted
  <2> DEFINE n == SetUpgradePolicyStatus(snap, "completed")
  <2>1. /\ n \in Addon /\ n.version = snap.version /\ n.hash = snap.hash
        /\ n.policyStatus.version = snap.version /\ n.policyStatus.value # "none"
    BY <1>2, PolicyTypes
  <2>2. /\ pc = "complete" /\ policyState' = "completed" /\ completedAt' = snap.version
        /\ UNCHANGED <<objVars, healthy, ocmReport, ocmClient, writer, queue, again, bounds>>
    BY <1>6 DEF reportUpgradeCompleted
  <2>3. Lock' /\ pc' = "status" /\ snap' = n
    BY <1>6, GotoLock DEF reportUpgradeCompleted, Calls
  <2> HIDE DEF n
  <2>4. Types'
    BY <1>1, <1>2, <2>1, <2>2, <2>3 DEF Types, PC, PolicyState
  <2>5. Copies'
    BY <1>1, <2>1, <2>2, <2>3 DEF Copies
  <2>6. Records'
    BY <1>1, <2>1, <2>2, <2>3 DEF Records, Recorded, Follows, Decided
  <2>7. Decided' /\ NotReopened /\ Reported
    BY <2>2, <2>3 DEF Decided, NotReopened, Reported
  <2> QED
    BY <2>3, <2>4, <2>5, <2>6, <2>7 DEF Good, IInv
<1>7. CASE upgradePolicyCallFails
  <2>1. /\ reader /\ Goto("status", snap) /\ again' = TRUE
        /\ UNCHANGED <<objVars, healthy, ocmReport, ocmClient, writer, queue, edits, moves>>
    BY <1>7 DEF upgradePolicyCallFails
  <2>2. pc \in Calls
    BY <1>1, <2>1 DEF Lock
  <2>3. faults' \in 0..MaxFaults
    BY <1>2, <1>7 DEF upgradePolicyCallFails
  <2>4. Lock' /\ pc' = "status" /\ snap' = snap
    BY <2>1, GotoLock DEF Calls
  <2>5. \/ UNCHANGED <<policyState, completedAt>>
        \/ pc \in {"startFirst", "start"} /\ policyState' = "started" /\ UNCHANGED completedAt
        \/ pc = "complete" /\ policyState' = "completed" /\ completedAt' = snap.version
    BY <1>7 DEF upgradePolicyCallFails
  <2>6. Types'
    BY <1>1, <1>2, <2>1, <2>3, <2>4, <2>5 DEF Types, PC, PolicyState
  <2>7. Copies'
    BY <1>1, <2>1, <2>2, <2>4 DEF Copies, Calls
  <2>8. Records'
    BY <1>1, <1>3, <2>1, <2>2, <2>4, <2>5 DEF Records, Recorded, Follows, Decided
  <2>9. Decided' /\ Reported
    BY <2>1, <2>4 DEF Decided, Reported
  <2>10. NotReopened
    BY <1>4, <2>5 DEF NotReopened
  <2> QED
    BY <2>4, <2>6, <2>7, <2>8, <2>9, <2>10 DEF Good, IInv
<1> QED
  BY <1>5, <1>6, <1>7

\* The end of the pass saves what is in hand, or nothing.
LEMMA UpdateGood == IInv /\ updateStatus => Good
<1> SUFFICES ASSUME IInv, updateStatus PROVE Good
  OBVIOUS
<1>1. Types /\ Lock /\ Copies /\ Records /\ Decided
  BY DEF IInv
<1> DEFINE a == [snap EXCEPT !.observedVersion = snap.version]
<1>2. /\ a \in Addon /\ a.version = snap.version /\ a.policyStatus = snap.policyStatus
      /\ a.hash = snap.hash
  BY <1>1, AddonTypes DEF Types
<1>3. /\ pc = "save" /\ again' = FALSE
      /\ UNCHANGED <<cache, healthy, ocmVars, ocmClient, writer, edits, moves>>
  BY DEF updateStatus
<1>4. Lock' /\ pc' = "idle" /\ snap' = NoAddon
  BY GotoLock DEF updateStatus, Calls
<1>5. Decided' /\ NotReopened
  BY <1>3, <1>4 DEF Decided, NotReopened
<1>6. Recorded(snap)
  BY <1>1, <1>3 DEF Records
<1>7. CASE /\ "snap" \in current /\ obj' = a
           /\ current' = IF a = obj THEN current \ {"snap"} ELSE {}
           /\ queue' = (queue \/ again) /\ UNCHANGED faults
  <2>1. /\ cache = obj /\ snap.version = obj.version
        /\ \/ snap.policyStatus = obj.policyStatus
           \/ snap.policyStatus.version = snap.version
        /\ snap.hash = obj.hash \/ snap.hash = ocmReport
    BY <1>1, <1>7 DEF Copies
  <2> HIDE DEF a
  <2>2. queue' \in BOOLEAN
    BY <1>1, <1>7 DEF Types
  <2>3. Types'
    BY <1>1, <1>2, <1>3, <1>4, <1>7, <2>2, NoAddonTypes DEF Types, PC
  <2>4. Copies'
    BY <1>1, <1>3, <1>4, <1>7 DEF Copies
  <2>5. Records'
    BY <1>1, <1>2, <1>3, <1>4, <1>6, <1>7, <2>1 DEF Records, Recorded, Follows
  <2>6. Reported
    BY <1>2, <1>7, <2>1 DEF Reported
  <2> QED
    BY <1>4, <1>5, <2>3, <2>4, <2>5, <2>6 DEF Good, IInv
<1>8. CASE /\ \/ "snap" \notin current /\ UNCHANGED faults
              \/ faults < MaxFaults /\ faults' = faults + 1
           /\ queue' = TRUE /\ current' = current \ {"snap"} /\ UNCHANGED obj
  <2>1. faults' \in 0..MaxFaults
    BY <1>1, <1>8 DEF Types
  <2>2. Types'
    BY <1>1, <1>3, <1>4, <1>8, <2>1, NoAddonTypes DEF Types, PC
  <2>3. Copies'
    BY <1>1, <1>3, <1>4, <1>8 DEF Copies
  <2>4. Records' /\ Reported
    BY <1>1, <1>3, <1>4, <1>8 DEF Records, Recorded, Follows, Reported
  <2> QED
    BY <1>4, <1>5, <2>2, <2>3, <2>4 DEF Good, IInv
<1> QED
  BY <1>7, <1>8 DEF updateStatus

-----------------------------------------------------------------------------
\* Every step of the specification is good.
LEMMA StepGood == IInv /\ [Next]_vars => Good
<1>1. ASSUME IInv, UNCHANGED vars PROVE Good
  <2>1. Types' /\ Lock'
    BY <1>1 DEF IInv, Types, Lock, vars
  <2>2. UNCHANGED <<objVars, policyState, ocmReport, completedAt, pc, snap>>
    BY <1>1 DEF vars
  <2> QED
    BY <1>1, <2>1, <2>2, Aside
<1> QED
  BY <1>1, WorldGood, ProcessGood, ReconcileGood, StatusGood, DecisionGood, UpgradeGood,
     UpdateGood DEF Next, Worker, policyCalls

\* In every reachable state, the records of the upgrade agree as far as they must.
THEOREM Invariance == Spec => []IInv
<1>1. IInv /\ [Next]_vars => IInv'
  BY StepGood DEF Good
<1> QED
  BY InitIInv, <1>1, PTL DEF Spec

\* The state of the reports to OCM has its type, and no call to the upgrade policy's
\* endpoint is made without a client or beside the injection of one.
THEOREM TypeCorrect == Spec => []TypeOK
<1>1. IInv => TypeOK
  BY TypeParts DEF IInv
<1> QED
  BY <1>1, Invariance, PTL

\* An upgrade that OCM was told is completed is never reported as started again for the
\* same version.
THEOREM NeverReopened == Spec => PolicyNotReopened
<1>1. IInv /\ [Next]_vars
      => [policyState = "completed" /\ policyState' = "started" => snap.version # completedAt]_vars
  BY StepGood DEF Good, NotReopened
<1> QED
  BY <1>1, Invariance, PTL DEF Spec, PolicyNotReopened

\* A status hash that is saved is the one of the report that OCM holds.
THEOREM HashesReported == Spec => HashIsReported
<1>1. IInv /\ [Next]_vars => [obj'.hash # obj.hash => obj'.hash = ocmReport]_vars
  BY StepGood DEF Good, Reported
<1> QED
  BY <1>1, Invariance, PTL DEF Spec, HashIsReported

-----------------------------------------------------------------------------
(* An upgrade is recorded before the operator rests.                       *)

\* There is a client, or the Addons have just been requeued for it.
Served == ocmClient \/ writer = "requeued"

\* The upgrade could be recorded as completed, and is not.
Outstanding(a) == upgradePolicyStatusEnabled /\ Served /\ healthy /\ requiresReporting(a)

\* What a pass over the current object knows: its Available condition is the one of the
\* cluster unless the version is new, and it either reports, changes the status, which
\* is an event, or has nothing to report.
Learned ==
    /\ snap.version = obj.version /\ snap.policy = obj.policy
    /\ snap.observedVersion = obj.observedVersion
    /\ snap.observedVersion # snap.version \/ snap.available = healthy
    /\ pc \in {"policy", "get", "start", "startFirst"} => snap.policyStatus = obj.policyStatus
    /\ pc \in Calls => requiresReporting(obj)
    /\ pc \in {"status", "post", "save"} =>
           \/ snap.observedVersion # snap.version
           \/ snap.policyStatus # obj.policyStatus
           \/ ~Outstanding(snap)

RecordInv ==
    /\ pc = "idle" => ~again
    /\ "cache" \in current /\ ~queue /\ ~again =>
           /\ pc = "idle" => ~Outstanding(obj)
           /\ "snap" \in current => Learned

\* The operator has a client, and neither a key, a pass nor an event.
AtRest == ocmClient /\ pc = "idle" /\ ~queue /\ "cache" \in current

\* The upgrade of a healthy Addon with an upgrade policy is recorded as completed.
RecordedAtRest ==
    AtRest /\ upgradePolicyStatusEnabled /\ healthy /\ obj.policy /\ obj.version # 0
        => obj.policyStatus = [version |-> obj.version, value |-> "completed"]

\* A step that brings the key back, an event or an error forgets nothing.
LEMMA LoudRecords ==
    ASSUME queue' \/ again' \/ "cache" \notin current', pc' = "idle" => ~again'
    PROVE  RecordInv'
BY DEF RecordInv

\* What goes on outside the pass.
LEMMA WorldRecords ==
    IInv /\ RecordInv /\ (\/ EditAddon \/ OCMSchedules \/ HealthChanges \/ Sync \/ Restart
                          \/ handleOCMClient \/ Injector \/ requeueAllAddonsFails
                          \/ UNCHANGED vars) => RecordInv'
<1> SUFFICES ASSUME IInv, RecordInv,
                    \/ EditAddon \/ OCMSchedules \/ HealthChanges \/ Sync \/ Restart
                    \/ handleOCMClient \/ Injector \/ requeueAllAddonsFails
                    \/ UNCHANGED vars
             PROVE  RecordInv'
  OBVIOUS
<1>1. CASE EditAddon \/ HealthChanges \/ Sync \/ Restart \/ InjectOCMClient
  <2>1. queue' \/ "cache" \notin current'
    BY <1>1 DEF EditAddon, HealthChanges, Sync, Restart, InjectOCMClient
  <2>2. UNCHANGED <<pc, again>> \/ ~again'
    BY <1>1 DEF EditAddon, HealthChanges, Sync, Restart, InjectOCMClient
  <2>3. pc' = "idle" => ~again'
    BY <2>2 DEF RecordInv
  <2> QED
    BY <2>1, <2>3, LoudRecords
<1>2. CASE OCMSchedules \/ handleOCMClient \/ storeOCMClient \/ requeueAllAddonsFails
           \/ UNCHANGED vars
  <2>1. UNCHANGED <<obj, healthy, current, queue, pc, snap, again>>
    BY <1>2 DEF OCMSchedules, handleOCMClient, storeOCMClient, requeueAllAddonsFails, vars
  <2>2. Served' <=> Served
    <3>1. CASE OCMSchedules \/ UNCHANGED vars
      BY <3>1 DEF OCMSchedules, vars, Served
    <3>2. CASE handleOCMClient \/ storeOCMClient \/ requeueAllAddonsFails
      BY <3>2 DEF handleOCMClient, storeOCMClient, requeueAllAddonsFails, Served
    <3> QED
      BY <1>2, <3>1, <3>2
  <2>3. Learned' <=> Learned
    BY <2>1, <2>2 DEF Learned, Outstanding, requiresReporting, UpgradeCompleteForCurrentVersion
  <2>4. Outstanding(obj)' <=> Outstanding(obj)
    BY <2>1, <2>2 DEF Outstanding, requiresReporting, UpgradeCompleteForCurrentVersion
  <2> QED
    BY <2>1, <2>3, <2>4 DEF RecordInv
<1> QED
  BY <1>1, <1>2 DEF Injector

\* The steps of a pass leave the object alone, and an error brings the key back: what is
\* left to show is what a pass on the current object knows.
LEMMA PassRecords ==
    ASSUME RecordInv, pc' # "idle", "cache" \in current' => "cache" \in current,
           queue => queue', again => again',
           "cache" \in current /\ ~queue /\ ~again /\ "snap" \in current' /\ ~again'
               => Learned'
    PROVE  RecordInv'
BY DEF RecordInv

\* The pass takes the cached object and looks at the resources of the Addon.
LEMMA ReconcileRecords == IInv /\ RecordInv /\ reconcile => RecordInv'
<1> SUFFICES ASSUME IInv, RecordInv, reconcile, "cache" \in current', "snap" \in current'
             PROVE  Learned'
  <2>1. reconcile => pc' = "policy"
    BY DEF reconcile, Goto
  <2> QED
    BY <2>1 DEF RecordInv
<1>1. cache = obj /\ obj \in Addon /\ healthy \in BOOLEAN
  BY DEF reconcile, IInv, Copies, Types
<1>2. /\ UNCHANGED <<obj, healthy>> /\ pc' = "policy"
      /\ snap' = IF addonIsBeingUpgraded(obj) THEN obj ELSE [obj EXCEPT !.available = healthy]
  BY <1>1 DEF reconcile, Goto
<1>3. LET n == [obj EXCEPT !.available = healthy]
      IN  /\ n.version = obj.version /\ n.policy = obj.policy
          /\ n.observedVersion = obj.observedVersion /\ n.policyStatus = obj.policyStatus
          /\ n.available = healthy
  BY <1>1 DEF Addon
<1>4. addonIsBeingUpgraded(obj) => obj.observedVersion # obj.version
  BY DEF addonIsBeingUpgraded
<1>5. /\ snap'.version = obj.version /\ snap'.policy = obj.policy
      /\ snap'.observedVersion = obj.observedVersion /\ snap'.policyStatus = obj.policyStatus
      /\ snap'.observedVersion # snap'.version \/ snap'.available = healthy
  BY <1>2, <1>3, <1>4
<1> QED
  BY <1>2, <1>5 DEF Learned, Calls

\* With the upgrade policy's status in hand, the pass reports, or there is no need to.
LEMMA PolicyRecords ==
    IInv /\ RecordInv /\ handleUpgradePolicyStatusReporting => RecordInv'
<1> SUFFICES ASSUME IInv, RecordInv, handleUpgradePolicyStatusReporting PROVE RecordInv'
  OBVIOUS
<1>1. /\ pc = "policy" /\ pc' \in {"get", "status"} /\ snap' = snap
      /\ UNCHANGED <<obj, healthy, current, queue, again, ocmClient, writer>>
  BY DEF handleUpgradePolicyStatusReporting, Goto
<1>2. ASSUME Learned PROVE Learned'
  <2>1. requiresReporting(snap) <=> requiresReporting(obj)
    BY <1>1, <1>2 DEF Learned, requiresReporting, UpgradeCompleteForCurrentVersion
  <2>2. requiresReporting(obj)' <=> requiresReporting(obj)
    BY <1>1 DEF requiresReporting, UpgradeCompleteForCurrentVersion
  <2>3. pc' = "get" => requiresReporting(snap)
    BY DEF handleUpgradePolicyStatusReporting, Goto
  <2>4. pc' = "status" => ~Outstanding(snap)
    BY DEF handleUpgradePolicyStatusReporting, Goto, Outstanding, Served
  <2>5. Outstanding(snap)' <=> Outstanding(snap)
    BY <1>1 DEF Outstanding, Served, requiresReporting, UpgradeCompleteForCurrentVersion
  <2> QED
    BY <1>1, <1>2, <2>1, <2>2, <2>3, <2>4, <2>5 DEF Learned, Calls
<1> QED
  BY <1>1, <1>2, PassRecords DEF RecordInv

\* What SetUpgradePolicyStatus leaves alone.
LEMMA PolicyKeeps ==
    ASSUME NEW a \in Addon, NEW val \in {"started", "completed"}
    PROVE  LET n == SetUpgradePolicyStatus(a, val)
           IN  /\ n.version = a.version /\ n.policy = a.policy
               /\ n.observedVersion = a.observedVersion /\ n.available = a.available
               /\ n.policyStatus = [version |-> a.version, value |-> val]
  BY DEF Addon, SetUpgradePolicyStatus

\* A pass that records another status of the policy than the saved one.
LEMMA SetLearns ==
    ASSUME IInv, Learned, NEW val \in {"started", "completed"},
           snap' = SetUpgradePolicyStatus(snap, val), pc' = "status", UNCHANGED <<obj, healthy>>,
           obj.policyStatus # [version |-> snap.version, value |-> val]
    PROVE  Learned'
<1>1. snap \in Addon
  BY DEF IInv, Types
<1>2. /\ snap'.version = snap.version /\ snap'.policy = snap.policy
      /\ snap'.observedVersion = snap.observedVersion /\ snap'.available = snap.available
      /\ snap'.policyStatus = [version |-> snap.version, value |-> val]
  BY <1>1, PolicyKeeps
<1> QED
  BY <1>2 DEF Learned, Calls

\* The decision on the state of the policy.
LEMMA DecisionRecords == IInv /\ RecordInv /\ getPreviousUpgradePolicyStateValue => RecordInv'
<1> SUFFICES ASSUME IInv, RecordInv, getPreviousUpgradePolicyStateValue PROVE RecordInv'
  OBVIOUS
<1>1. /\ pc = "get" /\ pc' # "idle"
      /\ UNCHANGED <<obj, healthy, current, queue, again, ocmClient, writer>>
  BY DEF getPreviousUpgradePolicyStateValue, Goto
<1>2. ASSUME Learned PROVE Learned'
  <2>1. requiresReporting(obj) /\ snap.policyStatus = obj.policyStatus
    BY <1>1, <1>2 DEF Learned, Calls
  <2>2. requiresReporting(obj)'
    BY <1>1, <2>1 DEF requiresReporting, UpgradeCompleteForCurrentVersion
  <2>3. CASE snap' = SetUpgradePolicyStatus(snap, "completed") /\ pc' = "status"
    <3>1. obj.policyStatus # [version |-> snap.version, value |-> "completed"]
      BY <1>2, <2>1 DEF requiresReporting, UpgradeCompleteForCurrentVersion, Learned
    <3> QED
      BY <1>1, <1>2, <2>3, <3>1, SetLearns
  <2>4. CASE snap' = snap /\ pc' \in {"start", "startFirst", "complete"}
    BY <1>1, <1>2, <2>1, <2>2, <2>4 DEF Learned
  <2>5. CASE snap' = snap /\ pc' = "status" /\ ~snap.available
    <3>1. snap.observedVersion # snap.version \/ ~healthy
      BY <1>2, <2>5 DEF Learned, IInv, Types
    <3>2. snap'.observedVersion # snap'.version \/ ~Outstanding(snap)'
      BY <1>1, <2>5, <3>1 DEF Outstanding
    <3> QED
      BY <1>1, <1>2, <2>5, <3>2 DEF Learned, Calls
  <2> QED
    BY <2>3, <2>4, <2>5 DEF getPreviousUpgradePolicyStateValue, Goto
<1> QED
  BY <1>1, <1>2, PassRecords DEF RecordInv


\* The reports to the policy's endpoint.
LEMMA ReportRecords ==
    IInv /\ RecordInv /\ (reportUpgradeStarted \/ reportUpgradeCompleted) => RecordInv'
<1> SUFFICES ASSUME IInv, RecordInv, reportUpgradeStarted \/ reportUpgradeCompleted
             PROVE  RecordInv'
  OBVIOUS
<1>1. /\ pc \in Calls /\ pc' \in {"status", "complete"}
      /\ UNCHANGED <<obj, healthy, current, queue, again, ocmClient, writer>>
  BY DEF reportUpgradeStarted, reportUpgradeCompleted, Goto, Calls
<1>2. ASSUME Learned PROVE Learned'
  <2>1. requiresReporting(obj) /\ snap.version = obj.version /\ snap \in Addon
    BY <1>1, <1>2 DEF Learned, IInv, Types
  <2>2. CASE reportUpgradeCompleted
    <3>1. snap' = SetUpgradePolicyStatus(snap, "completed") /\ pc' = "status"
      BY <2>2 DEF reportUpgradeCompleted, Goto
    <3>2. obj.policyStatus # [version |-> snap.version, value |-> "completed"]
      BY <2>1 DEF requiresReporting, UpgradeCompleteForCurrentVersion
    <3> QED
      BY <1>1, <1>2, <3>1, <3>2, SetLearns
  <2>3. CASE reportUpgradeStarted /\ pc = "start"
    <3>1. snap' = SetUpgradePolicyStatus(snap, "started") /\ pc' = "status"
      BY <2>3 DEF reportUpgradeStarted, Goto
    <3>2. /\ snap.policyStatus = obj.policyStatus
          /\ snap.policyStatus.value = "none" \/ snap.policyStatus.version # snap.version
      BY <1>2, <2>3 DEF Learned, IInv, Decided
    <3>3. obj.policyStatus # [version |-> snap.version, value |-> "started"]
      BY <3>2
    <3> QED
      BY <1>1, <1>2, <3>1, <3>3, SetLearns
  <2>4. CASE reportUpgradeStarted /\ pc = "startFirst"
    <3>1. snap' = SetUpgradePolicyStatus(snap, "started") /\ pc' = "complete"
      BY <2>4 DEF reportUpgradeStarted, Goto
    <3>2. /\ snap'.version = snap.version /\ snap'.policy = snap.policy
          /\ snap'.observedVersion = snap.observedVersion /\ snap'.available = snap.available
      BY <2>1, <3>1, PolicyKeeps
    <3>3. requiresReporting(obj)'
      BY <1>1, <2>1 DEF requiresReporting, UpgradeCompleteForCurrentVersion
    <3> QED
      BY <1>1, <1>2, <3>1, <3>2, <3>3 DEF Learned
  <2> QED
    BY <2>2, <2>3, <2>4 DEF reportUpgradeStarted
<1>3. pc # "idle" /\ pc' # "idle"
  BY <1>1 DEF Calls
<1> QED
  BY <1>1, <1>2, <1>3, PassRecords DEF RecordInv

\* The report of the status, and calls that fail.
LEMMA StatusRecords ==
    IInv /\ RecordInv /\ (\/ handleOCMAddOnStatusReporting \/ postAddonStatus
                          \/ upgradePolicyCallFails \/ postAddonStatusFails) => RecordInv'
<1> SUFFICES ASSUME IInv, RecordInv,
                    \/ handleOCMAddOnStatusReporting \/ postAddonStatus
                    \/ upgradePolicyCallFails \/ postAddonStatusFails
             PROVE  RecordInv'
  OBVIOUS
<1>1. CASE upgradePolicyCallFails \/ postAddonStatusFails
  <2>1. again' /\ pc' # "idle"
    BY <1>1 DEF upgradePolicyCallFails, postAddonStatusFails, Goto
  <2> QED
    BY <2>1, LoudRecords
<1>2. CASE handleOCMAddOnStatusReporting \/ postAddonStatus
  <2>1. /\ pc \in {"status", "post"} /\ pc' \in {"post", "save"}
        /\ UNCHANGED <<obj, healthy, current, queue, again, ocmClient, writer>>
    BY <1>2 DEF handleOCMAddOnStatusReporting, postAddonStatus, Goto
  <2>2. /\ snap'.version = snap.version /\ snap'.policy = snap.policy
        /\ snap'.observedVersion = snap.observedVersion /\ snap'.available = snap.available
        /\ snap'.policyStatus = snap.policyStatus
    <3>1. snap \in Addon
      BY DEF IInv, Types
    <3>2. LET n == setLastReportedStatus(snap)
          IN  /\ n.version = snap.version /\ n.policy = snap.policy
              /\ n.observedVersion = snap.observedVersion /\ n.available = snap.available
              /\ n.policyStatus = snap.policyStatus
      BY <3>1 DEF Addon, setLastReportedStatus
    <3>3. snap' = snap \/ snap' = setLastReportedStatus(snap)
      BY <1>2 DEF handleOCMAddOnStatusReporting, postAddonStatus, Goto
    <3> QED
      BY <3>2, <3>3
  <2>3. Outstanding(snap)' <=> Outstanding(snap)
    BY <2>1, <2>2 DEF Outstanding, Served, requiresReporting, UpgradeCompleteForCurrentVersion
  <2>4. ASSUME Learned PROVE Learned'
    BY <2>1, <2>2, <2>3, <2>4 DEF Learned, Calls
  <2> QED
    BY <2>1, <2>4, PassRecords DEF RecordInv
<1> QED
  BY <1>1, <1>2

\* The end of the pass: it changes the object, which is an event, fails, which brings the
\* key back, or had nothing to change.
LEMMA SaveRecords == IInv /\ RecordInv /\ updateStatus => RecordInv'
<1> SUFFICES ASSUME IInv, RecordInv, updateStatus, "cache" \in current', ~queue'
             PROVE  ~Outstanding(obj)' /\ "snap" \notin current'
  <2>1. updateStatus => ~again'
    BY DEF updateStatus, Goto
  <2> QED
    BY <2>1 DEF RecordInv
<1> DEFINE a == [snap EXCEPT !.observedVersion = snap.version]
<1>1. /\ pc = "save" /\ "snap" \in current /\ obj' = a /\ queue' = (queue \/ again)
      /\ current' = IF a = obj THEN current \ {"snap"} ELSE {}
      /\ UNCHANGED <<healthy, ocmClient, writer>>
  BY DEF updateStatus
<1>2. ~queue /\ ~again
  BY <1>1, Zenon
<1>3. a = obj /\ current' = current \ {"snap"} /\ "cache" \in current
  BY <1>1
<1>4. Learned
  BY <1>1, <1>2, <1>3 DEF RecordInv
<1>5. snap \in Addon
  BY DEF IInv, Types
<1>6. /\ a.observedVersion = snap.version /\ a.version = snap.version
      /\ a.policy = snap.policy /\ a.policyStatus = snap.policyStatus
  BY <1>5 DEF Addon
<1>7. ~Outstanding(snap)
  BY <1>1, <1>3, <1>4, <1>6 DEF Learned
<1>8. ~Outstanding(obj)'
  BY <1>1, <1>3, <1>6, <1>7
  DEF Outstanding, Served, requiresReporting, UpgradeCompleteForCurrentVersion
<1> QED
  BY <1>3, <1>8

\* The safety half of UpgradeRecorded: with a client, the operator never comes to rest on
\* a healthy Addon whose upgrade is not recorded as completed, whichever calls failed,
\* and although InjectOCMClient requeues the Addons before it stores the client.
THEOREM RestsRecorded == Spec => []RecordedAtRest
<1>1. Init => RecordInv
  BY DEF Init, RecordInv
<1>2. IInv /\ RecordInv /\ [Next]_vars => RecordInv'
  BY WorldRecords, ReconcileRecords, PolicyRecords, DecisionRecords, ReportRecords,
     StatusRecords, SaveRecords DEF Next, Worker, policyCalls
<1>3. RecordInv => RecordedAtRest
  BY DEF RecordInv, RecordedAtRest, AtRest, Outstanding, Served, requiresReporting,
         UpgradeCompleteForCurrentVersion
<1> QED
  BY Invariance, <1>1, <1>2, <1>3, PTL DEF Spec
=============================================================================
