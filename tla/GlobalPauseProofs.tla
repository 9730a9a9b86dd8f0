------------------------- MODULE GlobalPauseProofs -------------------------
(***************************************************************************)
(* For any number of Addons, restarts, edits and faults: no sub-reconciler *)
(* runs while the pause holds, the Paused condition of the AddonOperator   *)
(* follows the in-memory flag, and no live Addon is left out when the flag *)
(* changes.                                                                *)
(***************************************************************************)
EXTENDS GlobalPause, TLAPS

\* The RWMutex: the worker reads from RLock to its return, and the writer,
\* who is inside setGlobalPause, holds it alone.
LockInv ==
    /\ reader <=> wPc \in {"check", "sub"}
    /\ writer = "held" => ~reader
    /\ writer = "held" <=> aoPc = "requeue"
    /\ writer = "waiting" => aoPc = "lock"

\* A current copy equals the object.
CopyInv ==
    /\ "cache" \in current => aoCache = ao
    /\ "snap" \in current => snap = ao

\* Between setGlobalPause and the report, the flag is what snap asks for.
FlagInv ==
    aoPc \in {"requeue", "report"} => globalPause = snap.pause

IInv == TypeOK /\ LockInv /\ CopyInv /\ FlagInv /\ NoReconcileUnderPause

-----------------------------------------------------------------------------
(* The records: what an update of one field yields.                        *)

LEMMA AddonOperatorTypes ==
    ASSUME NEW o \in AddonOperator, NEW p \in BOOLEAN, NEW f \in FeatureFlags
    PROVE  /\ o.pause \in BOOLEAN /\ o.paused \in BOOLEAN /\ o.featureFlags \in FeatureFlags
           /\ [o EXCEPT !.paused = p] \in AddonOperator
           /\ [o EXCEPT !.pause = ~@] \in AddonOperator
           /\ [o EXCEPT !.featureFlags = f] \in AddonOperator
  BY DEF AddonOperator

LEMMA NewAddonOperatorTypes ==
    /\ NoAddonOperator \in AddonOperator
    /\ [NoAddonOperator EXCEPT !.exists = TRUE] \in AddonOperator
    /\ NoAddonOperator.featureFlags = NoFlags
    /\ [NoAddonOperator EXCEPT !.exists = TRUE].featureFlags = NoFlags
  BY GlobalPauseAssumption DEF AddonOperator, NoAddonOperator

LEMMA AddonObjectTypes ==
    /\ NoObject \in AddonObject
    /\ LiveObject \in AddonObject
    /\ \A o \in AddonObject: [o EXCEPT !.life = "deleting"] \in AddonObject
    /\ \A o \in AddonObject, c \in PausedCondition:
           o.cond \in PausedCondition /\ [o EXCEPT !.cond = c] \in AddonObject
  BY DEF AddonObject, NoObject, LiveObject, PausedCondition

-----------------------------------------------------------------------------
USE GlobalPauseAssumption DEF server, aoVars, lockVars, workVars, history

\* A fault stays within its bound.
LEMMA FaultType == ASSUME faults \in 0..MaxFaults, Fault PROVE faults' \in 0..MaxFaults
  BY DEF Fault

\* The initial states satisfy the inductive invariant.
LEMMA InitIInv == Init => IInv
<1> SUFFICES ASSUME Init PROVE IInv
  OBVIOUS
<1>1. 0 \in 0..MaxSpecChanges /\ 0 \in 0..MaxRestarts /\ 0 \in 0..MaxFaults
  OBVIOUS
<1>2. ao \in AddonOperator /\ aoCache \in AddonOperator /\ snap \in AddonOperator
  BY NewAddonOperatorTypes DEF Init
<1>3. addon \in [Addons -> AddonObject]
  BY AddonObjectTypes DEF Init
<1>4. /\ aoQueue \in BOOLEAN /\ aoTimer \in BOOLEAN
      /\ globalPause \in BOOLEAN /\ reader \in BOOLEAN /\ wFresh \in BOOLEAN
      /\ observed \in BOOLEAN /\ booted \in BOOLEAN
  BY DEF Init
<1>5. current \in SUBSET {"cache", "generation", "snap"} /\ flags \in FeatureFlags
  BY DEF Init
<1>6. /\ toRequeue \in SUBSET Addons /\ addonQueue \in SUBSET Addons
      /\ wAddon \in Addons \cup {NoAddon} /\ wCond \in PausedCondition
      /\ aoPc \in AOPc /\ wPc \in WorkerPc /\ wPc = "idle"
      /\ writer \in {"free", "waiting", "held"}
  BY DEF Init, PausedCondition, AOPc, WorkerPc
<1>7. changes \in 0..MaxSpecChanges /\ restarts \in 0..MaxRestarts /\ faults \in 0..MaxFaults
  BY <1>1 DEF Init
<1>10. TypeOK
  BY <1>2, <1>3, <1>4, <1>5, <1>6, <1>7 DEF TypeOK
<1>11. LockInv
  BY NewAddonOperatorTypes, AddonObjectTypes DEF Init, PausedCondition, NoAddonOperator, TypeOK, LockInv, AOPc, WorkerPc
<1>12. CopyInv
  BY NewAddonOperatorTypes, AddonObjectTypes DEF Init, PausedCondition, NoAddonOperator, CopyInv
<1>13. FlagInv /\ NoReconcileUnderPause
  BY NewAddonOperatorTypes, AddonObjectTypes DEF Init, PausedCondition, NoAddonOperator, TypeOK, LockInv, FlagInv, NoReconcileUnderPause, AOPc, WorkerPc
<1> QED
  BY <1>10, <1>11, <1>12, <1>13 DEF IInv

\* What the users of the API do preserves the inductive invariant.
LEMMA UsersIInv == IInv /\ Users => IInv'
<1> SUFFICES ASSUME IInv, Users PROVE IInv'
  OBVIOUS
<1>1. ASSUME NEW obj \in AddonOperator, UserWrites(obj) PROVE IInv'
  <2>1. changes' \in 0..MaxSpecChanges
    BY <1>1 DEF UserWrites, IInv, TypeOK
  <2>8. observed' \in BOOLEAN
    BY <1>1, <2>1 DEF UserWrites, IInv, TypeOK
  <2>10. TypeOK'
    BY <1>1, <2>1, <2>8 DEF UserWrites, IInv, TypeOK, AOPc, WorkerPc
  <2>11. LockInv'
    BY <1>1 DEF UserWrites, IInv, TypeOK, LockInv, AOPc, WorkerPc
  <2>12. CopyInv'
    BY <1>1 DEF UserWrites, IInv, CopyInv
  <2>13. FlagInv' /\ NoReconcileUnderPause'
    BY <1>1 DEF UserWrites, IInv, TypeOK, LockInv, FlagInv, NoReconcileUnderPause, AOPc, WorkerPc
  <2> QED
    BY <2>10, <2>11, <2>12, <2>13 DEF IInv
<1>2. CASE SetPause
  BY <1>1, <1>2, AddonOperatorTypes DEF SetPause, IInv, TypeOK
<1>3. CASE SetFeatureFlags
  BY <1>1, <1>3, AddonOperatorTypes DEF SetFeatureFlags, IInv, TypeOK
<1>4. CASE DeleteAddonOperator
  BY <1>1, <1>4, NewAddonOperatorTypes DEF DeleteAddonOperator, IInv, TypeOK
<1>5. ASSUME NEW a \in Addons, CreateAddon(a) PROVE IInv'
  <2>1. addon' \in [Addons -> AddonObject]
    BY <1>5, AddonObjectTypes DEF CreateAddon, IInv, TypeOK
  <2>10. TypeOK'
    BY <1>5, <2>1 DEF CreateAddon, IInv, TypeOK, AOPc, WorkerPc
  <2>11. LockInv'
    BY <1>5, <2>1 DEF CreateAddon, IInv, TypeOK, LockInv, AOPc, WorkerPc
  <2>12. CopyInv'
    BY <1>5, <2>1 DEF CreateAddon, IInv, CopyInv
  <2>13. FlagInv' /\ NoReconcileUnderPause'
    BY <1>5, <2>1 DEF CreateAddon, IInv, TypeOK, LockInv, FlagInv, NoReconcileUnderPause, AOPc, WorkerPc
  <2> QED
    BY <2>10, <2>11, <2>12, <2>13 DEF IInv
<1>6. ASSUME NEW a \in Addons, DeleteAddon(a) PROVE IInv'
  <2>1. addon' \in [Addons -> AddonObject]
    BY <1>6, AddonObjectTypes DEF DeleteAddon, IInv, TypeOK
  <2>10. TypeOK'
    BY <1>6, <2>1 DEF DeleteAddon, IInv, TypeOK, AOPc, WorkerPc
  <2>11. LockInv'
    BY <1>6, <2>1 DEF DeleteAddon, IInv, TypeOK, LockInv, AOPc, WorkerPc
  <2>12. CopyInv'
    BY <1>6, <2>1 DEF DeleteAddon, IInv, CopyInv
  <2>13. FlagInv' /\ NoReconcileUnderPause'
    BY <1>6, <2>1 DEF DeleteAddon, IInv, TypeOK, LockInv, FlagInv, NoReconcileUnderPause, AOPc, WorkerPc
  <2> QED
    BY <2>10, <2>11, <2>12, <2>13 DEF IInv
<1> QED
  BY <1>2, <1>3, <1>4, <1>5, <1>6 DEF Users

\* A fresh process satisfies it: its memory is empty and its cache synced.
LEMMA BootIInv ==
    ASSUME IInv, Boot, UNCHANGED <<server, observed, changes, faults>>,
           restarts' \in 0..MaxRestarts
    PROVE  IInv'
<1>1. NoAddonOperator \in AddonOperator /\ ao.featureFlags \in FeatureFlags
  BY NewAddonOperatorTypes, AddonOperatorTypes DEF IInv, TypeOK
<1>10. TypeOK'
  BY <1>1 DEF Boot, PausedCondition, IInv, TypeOK, AOPc, WorkerPc
<1>11. LockInv'
  BY <1>1 DEF Boot, PausedCondition, IInv, TypeOK, LockInv, AOPc, WorkerPc
<1>12. CopyInv'
  BY <1>1 DEF Boot, PausedCondition, IInv, CopyInv
<1>13. FlagInv' /\ NoReconcileUnderPause'
  BY <1>1 DEF Boot, PausedCondition, IInv, TypeOK, LockInv, FlagInv, NoReconcileUnderPause, AOPc, WorkerPc
<1> QED
  BY <1>10, <1>11, <1>12, <1>13 DEF IInv

\* A status update of the AddonOperator, done or failed, leaves well-typed
\* copies that are the object where they are current.
LEMMA StatusUpdateCopies ==
    ASSUME IInv, NEW p \in BOOLEAN, StatusUpdate(p) \/ StatusUpdateFails, aoCache' = aoCache
    PROVE  /\ ao' \in AddonOperator /\ snap' \in AddonOperator
           /\ current' \in SUBSET {"cache", "generation", "snap"}
           /\ observed' \in BOOLEAN
           /\ CopyInv'
<1>1. CASE StatusUpdate(p)
  BY <1>1, AddonOperatorTypes DEF StatusUpdate, IInv, TypeOK, CopyInv
<1>2. CASE StatusUpdateFails
  BY <1>2 DEF StatusUpdateFails, IInv, TypeOK, CopyInv
<1> QED
  BY <1>1, <1>2

\* The AddonOperator controller preserves it.
LEMMA ControllerIInv == IInv /\ AddonOperatorController => IInv'
<1> SUFFICES ASSUME IInv, AddonOperatorController PROVE IInv'
  OBVIOUS
<1>1. CASE AOGet
  <2>8. aoQueue' \in BOOLEAN /\ aoTimer' \in BOOLEAN
    BY <1>1, Zenon DEF AOGet, IInv, TypeOK
  <2>10. TypeOK'
    BY <1>1, <2>8 DEF AOGet, IInv, TypeOK, AOPc
  <2>11. LockInv'
    BY <1>1 DEF AOGet, IInv, TypeOK, LockInv, AOPc, WorkerPc
  <2>12. CopyInv'
    BY <1>1 DEF AOGet, IInv, CopyInv
  <2>13. FlagInv' /\ NoReconcileUnderPause'
    BY <1>1 DEF AOGet, IInv, TypeOK, LockInv, FlagInv, NoReconcileUnderPause, AOPc, WorkerPc
  <2> QED
    BY <2>10, <2>11, <2>12, <2>13 DEF IInv
<1>2. CASE AOExit
  BY <1>2, BootIInv DEF AOExit, IInv, TypeOK
<1>3. CASE handleAddonOperatorCreation
  <2>1. ao' \in AddonOperator
    BY <1>3, NewAddonOperatorTypes DEF handleAddonOperatorCreation, IInv, TypeOK
  <2>9. faults' \in 0..MaxFaults
    BY <1>3, FaultType DEF handleAddonOperatorCreation, IInv, TypeOK
  <2>8. aoQueue' \in BOOLEAN /\ observed' \in BOOLEAN
    BY <1>3, <2>1 DEF handleAddonOperatorCreation, AOError, IInv, TypeOK
  <2>10. TypeOK'
    BY <1>3, <2>1, <2>9, <2>8 DEF handleAddonOperatorCreation, AOError, IInv, TypeOK, AOPc, WorkerPc
  <2>11. LockInv'
    BY <1>3, <2>1 DEF handleAddonOperatorCreation, AOError, Fault, IInv, TypeOK, LockInv, AOPc, WorkerPc
  <2>12. CopyInv'
    BY <1>3, <2>1 DEF handleAddonOperatorCreation, AOError, Fault, IInv, CopyInv
  <2>13. FlagInv' /\ NoReconcileUnderPause'
    BY <1>3, <2>1 DEF handleAddonOperatorCreation, AOError, Fault, IInv, TypeOK, LockInv, FlagInv, NoReconcileUnderPause, AOPc, WorkerPc
  <2> QED
    BY <2>10, <2>11, <2>12, <2>13 DEF IInv
<1>4. CASE handleGlobalPause
  <2>10. TypeOK'
    BY <1>4 DEF handleGlobalPause, IInv, TypeOK, AOPc, WorkerPc
  <2>11. LockInv'
    BY <1>4 DEF handleGlobalPause, IInv, TypeOK, LockInv, AOPc, WorkerPc
  <2>12. CopyInv'
    BY <1>4 DEF handleGlobalPause, IInv, CopyInv
  <2>13. FlagInv' /\ NoReconcileUnderPause'
    BY <1>4 DEF handleGlobalPause, IInv, TypeOK, LockInv, FlagInv, NoReconcileUnderPause, AOPc, WorkerPc
  <2> QED
    BY <2>10, <2>11, <2>12, <2>13 DEF IInv
<1>5. CASE setGlobalPauseLock
  <2>10. TypeOK'
    BY <1>5 DEF setGlobalPauseLock, IInv, TypeOK, AOPc, WorkerPc
  <2>11. LockInv'
    BY <1>5 DEF setGlobalPauseLock, IInv, TypeOK, LockInv, AOPc, WorkerPc
  <2>12. CopyInv'
    BY <1>5 DEF setGlobalPauseLock, IInv, CopyInv
  <2>13. FlagInv' /\ NoReconcileUnderPause'
    BY <1>5 DEF setGlobalPauseLock, IInv, TypeOK, LockInv, FlagInv, NoReconcileUnderPause, AOPc, WorkerPc
  <2> QED
    BY <2>10, <2>11, <2>12, <2>13 DEF IInv
<1>6. CASE setGlobalPause
  <2>1. snap.pause \in BOOLEAN
    BY AddonOperatorTypes DEF IInv, TypeOK
  <2>9. faults' \in 0..MaxFaults
    BY <1>6, FaultType DEF setGlobalPause, IInv, TypeOK
  <2>8. globalPause' \in BOOLEAN /\ aoQueue' \in BOOLEAN
    BY <1>6, <2>1, Zenon DEF setGlobalPause, AOError, IInv, TypeOK
  <2>10. TypeOK'
    BY <1>6, <2>8, <2>9 DEF setGlobalPause, AOError, IInv, TypeOK, AOPc
  <2>11. LockInv'
    BY <1>6, <2>1 DEF setGlobalPause, AOError, Fault, IInv, TypeOK, LockInv, AOPc, WorkerPc
  <2>12. CopyInv'
    BY <1>6, <2>1 DEF setGlobalPause, AOError, Fault, IInv, CopyInv
  <2>13. FlagInv' /\ NoReconcileUnderPause'
    BY <1>6, <2>1 DEF setGlobalPause, AOError, Fault, IInv, TypeOK, LockInv, FlagInv, NoReconcileUnderPause, AOPc, WorkerPc
  <2> QED
    BY <2>10, <2>11, <2>12, <2>13 DEF IInv
<1>7. ASSUME NEW a \in Addons, requeueAllAddons(a) PROVE IInv'
  <2>10. TypeOK'
    BY <1>7 DEF requeueAllAddons, IInv, TypeOK, AOPc, WorkerPc
  <2>11. LockInv'
    BY <1>7 DEF requeueAllAddons, IInv, TypeOK, LockInv, AOPc, WorkerPc
  <2>12. CopyInv'
    BY <1>7 DEF requeueAllAddons, IInv, CopyInv
  <2>13. FlagInv' /\ NoReconcileUnderPause'
    BY <1>7 DEF requeueAllAddons, IInv, TypeOK, LockInv, FlagInv, NoReconcileUnderPause, AOPc, WorkerPc
  <2> QED
    BY <2>10, <2>11, <2>12, <2>13 DEF IInv
<1>8. CASE setGlobalPauseUnlock
  <2>10. TypeOK'
    BY <1>8 DEF setGlobalPauseUnlock, IInv, TypeOK, AOPc, WorkerPc
  <2>11. LockInv'
    BY <1>8 DEF setGlobalPauseUnlock, IInv, TypeOK, LockInv, AOPc, WorkerPc
  <2>12. CopyInv'
    BY <1>8 DEF setGlobalPauseUnlock, IInv, CopyInv
  <2>13. FlagInv' /\ NoReconcileUnderPause'
    BY <1>8 DEF setGlobalPauseUnlock, IInv, TypeOK, LockInv, FlagInv, NoReconcileUnderPause, AOPc, WorkerPc
  <2> QED
    BY <2>10, <2>11, <2>12, <2>13 DEF IInv
<1>9. CASE reportAddonOperatorPauseStatus
  <2>1. snap.pause \in BOOLEAN
    BY AddonOperatorTypes DEF IInv, TypeOK
  <2>2. /\ ao' \in AddonOperator /\ snap' \in AddonOperator
        /\ current' \in SUBSET {"cache", "generation", "snap"}
        /\ observed' \in BOOLEAN
        /\ CopyInv'
    BY <1>9, <2>1, StatusUpdateCopies DEF reportAddonOperatorPauseStatus
  <2>9. faults' \in 0..MaxFaults
    BY <1>9, FaultType DEF reportAddonOperatorPauseStatus, StatusUpdateFails, IInv, TypeOK
  <2>7. aoPc' \in AOPc /\ UNCHANGED <<addon, aoCache, flags, aoTimer, toRequeue, lockVars, workVars,
                                      booted, changes, restarts>>
    BY <1>9 DEF reportAddonOperatorPauseStatus, StatusUpdateFails, AOError, AOPc
  <2>8. aoQueue' \in BOOLEAN
    BY <1>9 DEF reportAddonOperatorPauseStatus, StatusUpdateFails, AOError, IInv, TypeOK
  <2>10. TypeOK'
    BY <2>2, <2>7, <2>8, <2>9 DEF IInv, TypeOK
  <2>11. LockInv'
    BY <1>9, <2>2 DEF reportAddonOperatorPauseStatus, StatusUpdateFails, AOError, Fault, IInv, TypeOK, LockInv, AOPc, WorkerPc
  <2>12. CopyInv'
    BY <1>9, <2>2 DEF reportAddonOperatorPauseStatus, StatusUpdateFails, AOError, Fault, IInv, CopyInv
  <2>13. FlagInv' /\ NoReconcileUnderPause'
    BY <1>9, <2>2 DEF reportAddonOperatorPauseStatus, StatusUpdateFails, AOError, Fault, IInv, TypeOK, LockInv, FlagInv, NoReconcileUnderPause, AOPc, WorkerPc
  <2> QED
    BY <2>10, <2>11, <2>12, <2>13 DEF IInv
<1>10. CASE reportAddonOperatorReadinessStatus
  <2>1. snap.paused \in BOOLEAN
    BY AddonOperatorTypes DEF IInv, TypeOK
  <2>2. /\ ao' \in AddonOperator /\ snap' \in AddonOperator
        /\ current' \in SUBSET {"cache", "generation", "snap"}
        /\ observed' \in BOOLEAN
        /\ CopyInv'
    BY <1>10, <2>1, StatusUpdateCopies DEF reportAddonOperatorReadinessStatus
  <2>9. faults' \in 0..MaxFaults
    BY <1>10, FaultType DEF reportAddonOperatorReadinessStatus, StatusUpdateFails, IInv, TypeOK
  <2>7. aoPc' \in AOPc /\ UNCHANGED <<addon, aoCache, flags, toRequeue, lockVars, workVars, changes, restarts>>
    BY <1>10 DEF reportAddonOperatorReadinessStatus, StatusUpdateFails, AOError, AOPc
  <2>8. aoQueue' \in BOOLEAN /\ aoTimer' \in BOOLEAN /\ booted' \in BOOLEAN
    BY <1>10 DEF reportAddonOperatorReadinessStatus, StatusUpdateFails, AOError, IInv, TypeOK
  <2>10. TypeOK'
    BY <2>2, <2>7, <2>8, <2>9 DEF IInv, TypeOK
  <2>11. LockInv'
    BY <1>10, <2>2 DEF reportAddonOperatorReadinessStatus, StatusUpdateFails, AOError, Fault, IInv, TypeOK, LockInv, AOPc, WorkerPc
  <2>12. CopyInv'
    BY <1>10, <2>2 DEF reportAddonOperatorReadinessStatus, StatusUpdateFails, AOError, Fault, IInv, CopyInv
  <2>13. FlagInv' /\ NoReconcileUnderPause'
    BY <1>10, <2>2 DEF reportAddonOperatorReadinessStatus, StatusUpdateFails, AOError, Fault, IInv, TypeOK, LockInv, FlagInv, NoReconcileUnderPause, AOPc, WorkerPc
  <2> QED
    BY <2>10, <2>11, <2>12, <2>13 DEF IInv
<1> QED
  BY <1>1, <1>2, <1>3, <1>4, <1>5, <1>6, <1>7, <1>8, <1>9, <1>10 DEF AddonOperatorController

\* The Addon controller's worker preserves it.
LEMMA WorkerIInv == IInv /\ AddonWorker => IInv'
<1> SUFFICES ASSUME IInv, AddonWorker PROVE IInv'
  OBVIOUS
<1>1. ASSUME NEW a \in Addons, Get(a) PROVE IInv'
  <2>1. addon[a].cond \in PausedCondition
    BY AddonObjectTypes DEF IInv, TypeOK, PausedCondition
  <2>8. wFresh' \in BOOLEAN
    BY <1>1, <2>1 DEF Get, IInv, TypeOK
  <2>10. TypeOK'
    BY <1>1, <2>1, <2>8 DEF Get, IInv, TypeOK, AOPc, WorkerPc
  <2>11. LockInv'
    BY <1>1, <2>1 DEF Get, IInv, TypeOK, LockInv, AOPc, WorkerPc
  <2>12. CopyInv'
    BY <1>1, <2>1 DEF Get, IInv, CopyInv
  <2>13. FlagInv' /\ NoReconcileUnderPause'
    BY <1>1, <2>1 DEF Get, IInv, TypeOK, LockInv, FlagInv, NoReconcileUnderPause, AOPc, WorkerPc
  <2> QED
    BY <2>10, <2>11, <2>12, <2>13 DEF IInv
<1>2. CASE handleAddonCRDeletion
  <2>1. addon' \in [Addons -> AddonObject]
    BY <1>2, AddonObjectTypes DEF handleAddonCRDeletion, IInv, TypeOK
  <2>8. wFresh' \in BOOLEAN
    BY <1>2, <2>1 DEF handleAddonCRDeletion, IInv, TypeOK
  <2>10. TypeOK'
    BY <1>2, <2>1, <2>8 DEF handleAddonCRDeletion, IInv, TypeOK, AOPc, WorkerPc
  <2>11. LockInv'
    BY <1>2, <2>1 DEF handleAddonCRDeletion, IInv, TypeOK, LockInv, AOPc, WorkerPc
  <2>12. CopyInv'
    BY <1>2, <2>1 DEF handleAddonCRDeletion, IInv, CopyInv
  <2>13. FlagInv' /\ NoReconcileUnderPause'
    BY <1>2, <2>1 DEF handleAddonCRDeletion, IInv, TypeOK, LockInv, FlagInv, NoReconcileUnderPause, AOPc, WorkerPc
  <2> QED
    BY <2>10, <2>11, <2>12, <2>13 DEF IInv
<1>3. CASE RLock
  <2>10. TypeOK'
    BY <1>3 DEF RLock, IInv, TypeOK, AOPc, WorkerPc
  <2>11. LockInv'
    BY <1>3 DEF RLock, IInv, TypeOK, LockInv, AOPc, WorkerPc
  <2>12. CopyInv'
    BY <1>3 DEF RLock, IInv, CopyInv
  <2>13. FlagInv' /\ NoReconcileUnderPause'
    BY <1>3 DEF RLock, IInv, TypeOK, LockInv, FlagInv, NoReconcileUnderPause, AOPc, WorkerPc
  <2> QED
    BY <2>10, <2>11, <2>12, <2>13 DEF IInv
<1>4. CASE checkGlobalPause
  <2>8. reader' \in BOOLEAN
    BY <1>4 DEF checkGlobalPause, IInv, TypeOK
  <2>10. TypeOK'
    BY <1>4, <2>8 DEF checkGlobalPause, PausedCondition, IInv, TypeOK, AOPc, WorkerPc
  <2>11. LockInv'
    BY <1>4 DEF checkGlobalPause, PausedCondition, IInv, TypeOK, LockInv, AOPc, WorkerPc
  <2>12. CopyInv'
    BY <1>4 DEF checkGlobalPause, PausedCondition, IInv, CopyInv
  <2>13. FlagInv' /\ NoReconcileUnderPause'
    BY <1>4 DEF checkGlobalPause, PausedCondition, IInv, TypeOK, LockInv, FlagInv, NoReconcileUnderPause, AOPc, WorkerPc
  <2> QED
    BY <2>10, <2>11, <2>12, <2>13 DEF IInv
<1>5. CASE subReconcilersReturn
  <2>8. wPc' \in WorkerPc /\ wAddon' \in Addons \cup {NoAddon} /\ wAddon' \in Addons
    BY <1>5 DEF subReconcilersReturn, IInv, TypeOK, WorkerPc
  <2>9. reader' \in BOOLEAN
    BY <1>5, Zenon DEF subReconcilersReturn
  <2>10. TypeOK'
    BY <1>5, <2>8, <2>9 DEF subReconcilersReturn, IInv, TypeOK
  <2>11. LockInv'
    BY <1>5 DEF subReconcilersReturn, IInv, TypeOK, LockInv, AOPc, WorkerPc
  <2>12. CopyInv'
    BY <1>5 DEF subReconcilersReturn, IInv, CopyInv
  <2>13. FlagInv' /\ NoReconcileUnderPause'
    BY <1>5 DEF subReconcilersReturn, IInv, TypeOK, LockInv, FlagInv, NoReconcileUnderPause, AOPc, WorkerPc
  <2> QED
    BY <2>10, <2>11, <2>12, <2>13 DEF IInv
<1>6. CASE updateStatus
  <2>1. addon' \in [Addons -> AddonObject]
    BY <1>6, AddonObjectTypes DEF updateStatus, IInv, TypeOK
  <2>9. faults' \in 0..MaxFaults
    BY <1>6, FaultType DEF updateStatus, IInv, TypeOK
  <2>10. TypeOK'
    BY <1>6, <2>1, <2>9 DEF updateStatus, IInv, TypeOK, AOPc, WorkerPc
  <2>11. LockInv'
    BY <1>6, <2>1 DEF updateStatus, Fault, IInv, TypeOK, LockInv, AOPc, WorkerPc
  <2>12. CopyInv'
    BY <1>6, <2>1 DEF updateStatus, Fault, IInv, CopyInv
  <2>13. FlagInv' /\ NoReconcileUnderPause'
    BY <1>6, <2>1 DEF updateStatus, Fault, IInv, TypeOK, LockInv, FlagInv, NoReconcileUnderPause, AOPc, WorkerPc
  <2> QED
    BY <2>10, <2>11, <2>12, <2>13 DEF IInv
<1> QED
  BY <1>1, <1>2, <1>3, <1>4, <1>5, <1>6 DEF AddonWorker

\* Every step preserves the inductive invariant.
LEMMA NextIInv == IInv /\ [Next]_vars => IInv'
<1> SUFFICES ASSUME IInv, [Next]_vars PROVE IInv'
  OBVIOUS
<1>1. CASE SyncAddonOperator
  <2>10. TypeOK'
    BY <1>1 DEF SyncAddonOperator, IInv, TypeOK, AOPc, WorkerPc
  <2>11. LockInv'
    BY <1>1 DEF SyncAddonOperator, IInv, TypeOK, LockInv, AOPc, WorkerPc
  <2>12. CopyInv'
    BY <1>1 DEF SyncAddonOperator, IInv, CopyInv
  <2>13. FlagInv' /\ NoReconcileUnderPause'
    BY <1>1 DEF SyncAddonOperator, IInv, TypeOK, LockInv, FlagInv, NoReconcileUnderPause, AOPc, WorkerPc
  <2> QED
    BY <2>10, <2>11, <2>12, <2>13 DEF IInv
<1>2. CASE AOTimer
  <2>8. aoQueue' \in BOOLEAN /\ aoTimer' \in BOOLEAN
    BY <1>2 DEF AOTimer, IInv, TypeOK
  <2>10. TypeOK'
    BY <1>2, <2>8 DEF AOTimer, IInv, TypeOK, AOPc, WorkerPc
  <2>11. LockInv'
    BY <1>2 DEF AOTimer, IInv, TypeOK, LockInv, AOPc, WorkerPc
  <2>12. CopyInv'
    BY <1>2 DEF AOTimer, IInv, CopyInv
  <2>13. FlagInv' /\ NoReconcileUnderPause'
    BY <1>2 DEF AOTimer, IInv, TypeOK, LockInv, FlagInv, NoReconcileUnderPause, AOPc, WorkerPc
  <2> QED
    BY <2>10, <2>11, <2>12, <2>13 DEF IInv
<1>3. CASE Restart
  <2>1. restarts' \in 0..MaxRestarts
    BY <1>3 DEF Restart, IInv, TypeOK
  <2> QED
    BY <1>3, <2>1, BootIInv DEF Restart
<1>4. CASE UNCHANGED vars
  <2>10. TypeOK'
    BY <1>4 DEF vars, IInv, TypeOK, AOPc, WorkerPc
  <2>11. LockInv'
    BY <1>4 DEF vars, IInv, TypeOK, LockInv, AOPc, WorkerPc
  <2>12. CopyInv'
    BY <1>4 DEF vars, IInv, CopyInv
  <2>13. FlagInv' /\ NoReconcileUnderPause'
    BY <1>4 DEF vars, IInv, TypeOK, LockInv, FlagInv, NoReconcileUnderPause, AOPc, WorkerPc
  <2> QED
    BY <2>10, <2>11, <2>12, <2>13 DEF IInv
<1> QED
  BY <1>1, <1>2, <1>3, <1>4, UsersIInv, ControllerIInv, WorkerIInv DEF Next

\* A step that writes the Paused condition writes the flag.
LEMMA StepConditionFollowsFlag ==
    ASSUME IInv, [Next]_vars, ao.exists, ao'.exists, ao'.paused # ao.paused
    PROVE  ao'.paused = globalPause
<1>1. CASE reportAddonOperatorPauseStatus
  BY <1>1 DEF reportAddonOperatorPauseStatus, StatusUpdate, StatusUpdateFails, IInv, TypeOK, CopyInv, FlagInv, AddonOperator
<1>2. CASE reportAddonOperatorReadinessStatus
  BY <1>2 DEF reportAddonOperatorReadinessStatus, StatusUpdate, StatusUpdateFails, IInv, TypeOK, CopyInv, FlagInv, AddonOperator
<1>3. CASE Users
  BY <1>3 DEF Users, SetPause, SetFeatureFlags, DeleteAddonOperator, UserWrites,
              CreateAddon, DeleteAddon, AddonOperator, NoAddonOperator, IInv, TypeOK
<1>4. CASE AddonWorker
  BY <1>4 DEF AddonWorker, Get, handleAddonCRDeletion, RLock, checkGlobalPause,
              subReconcilersReturn, updateStatus
<1>5. CASE handleAddonOperatorCreation
  BY <1>5 DEF handleAddonOperatorCreation
<1> QED
  BY <1>1, <1>2, <1>3, <1>4, <1>5
     DEF Next, AddonOperatorController, vars, SyncAddonOperator, AOTimer, Restart, AOGet,
         AOExit, handleGlobalPause, setGlobalPauseLock, setGlobalPause, requeueAllAddons,
         setGlobalPauseUnlock

-----------------------------------------------------------------------------
\* Every variable keeps its type, and the worker always has an Addon in hand
\* between Get and the closing status update of Reconcile.
THEOREM TypeCorrect == Spec => []TypeOK
<1>1. IInv => TypeOK
  BY DEF IInv
<1> QED
  BY <1>1, InitIInv, NextIInv, PTL DEF Spec

\* EnableGlobalPause is "Concurrency safe" (addon_controller.go:268): whatever
\* the interleaving, no sub-reconciler runs while the pause holds.
THEOREM PauseExcludesReconcile == Spec => []NoReconcileUnderPause
<1>1. IInv => NoReconcileUnderPause
  BY DEF IInv
<1> QED
  BY <1>1, InitIInv, NextIInv, PTL DEF Spec

\* handleGlobalPause reports the pause only after it is set, and its end only
\* after it is lifted, through conflicts, stale caches and restarts.
THEOREM ConditionFollows == Spec => ConditionFollowsFlag
<1>1. IInv /\ [Next]_vars =>
        [ao.exists /\ ao'.exists /\ ao'.paused # ao.paused => ao'.paused = globalPause]_vars
  BY StepConditionFollowsFlag
<1> QED
  BY <1>1, InitIInv, NextIInv, PTL DEF Spec, ConditionFollowsFlag

-----------------------------------------------------------------------------
(* The pause reaches the Addons.                                           *)

\* The Paused condition that the flag asks for.
Wanted == IF globalPause THEN "AddonOperatorPaused" ELSE "none"

\* The worker holds a copy of Addon a that it will save with the wanted condition, or
\* cannot save.
InHand(a) ==
    /\ wAddon = a /\ wPc # "idle"
    /\ wPc \in {"sub", "status"} /\ wFresh => wCond = Wanted

\* Addon a shows the flag, or a pass will bring it about.
Told(a) ==
    \/ a \in addonQueue
    \/ InHand(a)
    \/ ~(wAddon = a /\ wPc # "idle") /\ addon[a].cond = Wanted

\* Once setGlobalPause has set the flag, each live Addon knows or is still to be sent.
Announced ==
    aoPc \in {"requeue", "report"} =>
        \A a \in Addons: addon[a].life = "live" =>
            Told(a) \/ (aoPc = "requeue" /\ a \in toRequeue)

\* EnableGlobalPause and DisableGlobalPause return with every live Addon told.
AllTold == aoPc = "report" => \A a \in Addons: addon[a].life = "live" => Told(a)

\* Whoever was told stays so until the flag changes, whatever users, restarts and failing
\* calls do.
StaysTold ==
    [][\A a \in Addons: Told(a) /\ addon'[a].life = "live" /\ globalPause' = globalPause
                            => Told(a)']_vars

\* A step that leaves the Addons and the worker alone, but may queue keys.
LEMMA FrameTold ==
    ASSUME NEW a \in Addons, Told(a), addonQueue \subseteq addonQueue', addon'[a] = addon[a],
           UNCHANGED <<globalPause, wPc, wAddon, wCond, wFresh>>
    PROVE  Told(a)'
BY DEF Told, InHand, Wanted

\* Users make or delete an Addon: its key is queued, and a copy of it in hand is outdated.
LEMMA UsersTold ==
    ASSUME IInv, NEW a \in Addons, NEW b \in Addons, CreateAddon(b) \/ DeleteAddon(b)
    PROVE  /\ b \in addonQueue' /\ UNCHANGED <<globalPause, aoPc, toRequeue>>
           /\ a # b => addon'[a] = addon[a]
           /\ Told(a) => Told(a)'
<1>1. /\ addonQueue' = addonQueue \cup {b}
      /\ UNCHANGED <<globalPause, aoPc, toRequeue, wPc, wAddon, wCond>>
      /\ wFresh' = (wFresh /\ wAddon # b)
  BY DEF CreateAddon, DeleteAddon
<1>2. a # b => addon'[a] = addon[a]
  BY DEF CreateAddon, DeleteAddon, IInv, TypeOK
<1>3. wAddon = a /\ a # b => (wFresh' <=> wFresh)
  BY <1>1, Zenon
<1>4. ASSUME Told(a) PROVE Told(a)'
  <2>1. CASE a = b
    BY <1>1, <2>1 DEF Told
  <2>2. CASE a # b
    BY <1>1, <1>2, <1>3, <1>4, <2>2 DEF Told, InHand, Wanted
  <2> QED
    BY <2>1, <2>2
<1> QED
  BY <1>1, <1>2, <1>4

\* A process that starts has every Addon in its workqueue.
LEMMA BootTold ==
    ASSUME NEW a \in Addons, Boot, UNCHANGED addon, addon[a].life = "live" PROVE Told(a)'
BY DEF Boot, Told, Exists

\* The worker: the Addon it takes is in hand until its status is saved.
LEMMA WorkerTold ==
    ASSUME IInv, NEW a \in Addons, AddonWorker, Told(a), addon'[a].life = "live"
    PROVE  Told(a)'
<1>0. addon \in [Addons -> AddonObject] /\ (wPc # "idle" => wAddon \in Addons)
      /\ wPc \in WorkerPc /\ UNCHANGED globalPause
  BY DEF IInv, TypeOK, AddonWorker, Get, handleAddonCRDeletion, RLock, checkGlobalPause,
         subReconcilersReturn, updateStatus
<1>1. ASSUME NEW b \in Addons, Get(b) PROVE Told(a)'
  <2>1. CASE a = b
    <3>1. Exists(a) /\ addon[a].life # "deleting"
      BY <1>1, <2>1 DEF Get, Exists
    <3>2. wAddon' = a /\ wPc' = "rlock"
      BY <1>1, <2>1, <3>1 DEF Get
    <3> QED
      BY <3>2 DEF Told, InHand
  <2>2. CASE a # b
    <3>1. wPc = "idle" /\ UNCHANGED addon /\ addonQueue' = addonQueue \ {b}
      BY <1>1 DEF Get
    <3>2. a \in addonQueue \/ addon[a].cond = Wanted
      BY <3>1 DEF Told, InHand
    <3>3. wAddon' = b \/ wPc' = "idle"
      BY <1>1, <3>1 DEF Get
    <3> QED
      BY <1>0, <2>2, <3>1, <3>2, <3>3 DEF Told, Wanted
  <2> QED
    BY <2>1, <2>2
<1>2. CASE handleAddonCRDeletion
  <2>1. CASE wAddon = a
    BY <1>2, <2>1 DEF handleAddonCRDeletion, Told, InHand, Wanted
  <2>2. CASE wAddon # a
    <3>1. addon'[a] = addon[a] /\ addonQueue \subseteq addonQueue' /\ UNCHANGED wAddon
      BY <1>0, <1>2, <2>2 DEF handleAddonCRDeletion
    <3> QED
      BY <1>0, <2>2, <3>1 DEF Told, InHand, Wanted
  <2> QED
    BY <2>1, <2>2
<1>3. CASE RLock
  BY <1>3 DEF RLock, Told, InHand, Wanted
<1>4. CASE checkGlobalPause
  <2>1. /\ UNCHANGED <<addon, addonQueue, wAddon>> /\ wPc # "idle" /\ wPc' # "idle"
        /\ wCond' = Wanted /\ Wanted' = Wanted
    BY <1>0, <1>4 DEF checkGlobalPause, Wanted
  <2> QED
    BY <2>1 DEF Told, InHand
<1>5. CASE subReconcilersReturn
  BY <1>5 DEF subReconcilersReturn, Told, InHand, Wanted
<1>6. CASE updateStatus
  <2>0. wPc = "status" /\ wPc' = "idle" /\ Wanted' = Wanted /\ addonQueue \subseteq addonQueue'
    BY <1>0, <1>6 DEF updateStatus, Wanted
  <2>1. CASE wAddon = a
    <3>1. CASE a \in addonQueue'
      BY <3>1 DEF Told
    <3>2. CASE a \notin addonQueue'
      <4>1. wFresh /\ addon' = [addon EXCEPT ![a].cond = wCond] /\ a \notin addonQueue
        BY <1>6, <2>0, <2>1, <3>2 DEF updateStatus
      <4>2. wCond = Wanted
        BY <2>0, <2>1, <4>1 DEF Told, InHand
      <4>3. addon'[a].cond = wCond
        BY <1>0, <4>1 DEF AddonObject
      <4> QED
        BY <2>0, <4>2, <4>3 DEF Told
    <3> QED
      BY <3>1, <3>2
  <2>2. CASE wAddon # a
    <3>1. addon'[a] = addon[a]
      BY <1>0, <1>6, <2>0, <2>2 DEF updateStatus
    <3> QED
      BY <2>0, <2>2, <3>1 DEF Told, InHand
  <2> QED
    BY <2>1, <2>2
<1> QED
  BY <1>1, <1>2, <1>3, <1>4, <1>5, <1>6 DEF AddonWorker

\* What a step may do to an Addon that was told.
Stays(a) == Told(a) /\ addon'[a].life = "live" /\ globalPause' = globalPause => Told(a)'

\* The AddonOperator controller only queues Addons, unless its process exits.
LEMMA ControllerTold ==
    ASSUME IInv, NEW a \in Addons, AddonOperatorController PROVE Stays(a)
<1>1. CASE AOExit
  BY <1>1, BootTold DEF AOExit, Stays
<1>2. CASE ~AOExit
  <2>1. UNCHANGED <<addon, wPc, wAddon, wCond, wFresh>> /\ addonQueue \subseteq addonQueue'
    BY <1>2 DEF AddonOperatorController, AOGet, handleAddonOperatorCreation, handleGlobalPause,
                setGlobalPauseLock, setGlobalPause, requeueAllAddons, setGlobalPauseUnlock,
                reportAddonOperatorPauseStatus, reportAddonOperatorReadinessStatus
  <2> QED
    BY <2>1, FrameTold DEF Stays
<1> QED
  BY <1>1, <1>2

\* No step makes an Addon that was told lose it.
LEMMA StepStays == ASSUME IInv, [Next]_vars, NEW a \in Addons PROVE Stays(a)
<1>1. CASE SetPause \/ SetFeatureFlags \/ DeleteAddonOperator \/ SyncAddonOperator \/ AOTimer
           \/ UNCHANGED vars
  <2>1. UNCHANGED <<addon, addonQueue, wPc, wAddon, wCond, wFresh>>
    BY <1>1 DEF SetPause, SetFeatureFlags, DeleteAddonOperator, UserWrites, SyncAddonOperator,
                AOTimer, vars
  <2> QED
    BY <2>1, FrameTold DEF Stays
<1>2. CASE \E b \in Addons: CreateAddon(b) \/ DeleteAddon(b)
  BY <1>2, UsersTold DEF Stays
<1>3. CASE Restart
  BY <1>3, BootTold DEF Restart, Stays
<1>4. CASE AddonWorker
  BY <1>4, WorkerTold DEF Stays
<1> QED
  BY <1>1, <1>2, <1>3, <1>4, ControllerTold DEF Next, Users

\* An Addon comes to life in CreateAddon only, which queues its key.
LEMMA NewTold ==
    ASSUME IInv, [Next]_vars, NEW a \in Addons, addon[a].life # "live", addon'[a].life = "live"
    PROVE  Told(a)' /\ UNCHANGED <<globalPause, aoPc, toRequeue>>
<1>1. CASE \E b \in Addons: CreateAddon(b) \/ DeleteAddon(b)
  BY <1>1, UsersTold DEF Told
<1>2. addon \in [Addons -> AddonObject] /\ (wPc # "idle" => wAddon \in Addons)
  BY DEF IInv, TypeOK
<1>3. CASE handleAddonCRDeletion
  BY <1>2, <1>3 DEF handleAddonCRDeletion, NoObject
<1>4. CASE updateStatus
  <2> DEFINE o == addon[a]
             p == [o EXCEPT !.cond = wCond]
  <2>1. o \in AddonObject
    BY <1>2
  <2>2. UNCHANGED addon \/ addon' = [addon EXCEPT ![wAddon].cond = wCond]
    BY <1>4 DEF updateStatus
  <2>3. addon'[a] = o \/ addon'[a] = p
    BY <1>2, <2>2
  <2> HIDE DEF o
  <2>4. p.life = o.life
    BY <2>1 DEF AddonObject
  <2> HIDE DEF p
  <2>5. addon'[a].life = o.life
    BY <2>3, <2>4
  <2> QED
    BY <2>5 DEF o
<1>5. UNCHANGED addon => FALSE
  OBVIOUS
<1>6. CASE AddonOperatorController
  BY <1>5, <1>6
  DEF AddonOperatorController, AOExit, AOGet, handleAddonOperatorCreation, handleGlobalPause,
      setGlobalPauseLock, setGlobalPause, requeueAllAddons, setGlobalPauseUnlock,
      reportAddonOperatorPauseStatus, reportAddonOperatorReadinessStatus
<1>7. CASE RLock \/ checkGlobalPause \/ subReconcilersReturn
  BY <1>5, <1>7 DEF RLock, checkGlobalPause, subReconcilersReturn
<1>8. CASE \E b \in Addons: Get(b)
  BY <1>5, <1>8 DEF Get
<1>9. CASE SetPause \/ SetFeatureFlags \/ DeleteAddonOperator
  BY <1>5, <1>9 DEF SetPause, SetFeatureFlags, DeleteAddonOperator, UserWrites
<1>10. CASE SyncAddonOperator \/ AOTimer \/ Restart \/ UNCHANGED vars
  BY <1>5, <1>10 DEF SyncAddonOperator, AOTimer, Restart, vars
<1> QED
  BY <1>1, <1>3, <1>4, <1>6, <1>7, <1>8, <1>9, <1>10 DEF Next, Users, AddonWorker


\* From setGlobalPause on, every live Addon is told or still to be sent.
LEMMA StepAnnounced == IInv /\ Announced /\ [Next]_vars => Announced'
<1> SUFFICES ASSUME IInv, Announced, [Next]_vars, aoPc' \in {"requeue", "report"},
                    NEW a \in Addons, addon'[a].life = "live"
             PROVE  Told(a)' \/ (aoPc' = "requeue" /\ a \in toRequeue')
  BY DEF Announced
<1>1. CASE addon[a].life # "live"
  BY <1>1, NewTold
<1>2. CASE addon[a].life = "live"
  <2>1. CASE setGlobalPause
    BY <1>2, <2>1 DEF setGlobalPause, AOError, Exists
  <2>2. CASE \E b \in Addons: requeueAllAddons(b)
    <3>1. PICK b \in Addons: requeueAllAddons(b)
      BY <2>2
    <3>2. aoPc = "requeue" /\ UNCHANGED <<aoPc, globalPause>> /\ b \in addonQueue'
          /\ toRequeue' = toRequeue \ {b}
      BY <3>1 DEF requeueAllAddons
    <3>3. CASE a = b
      BY <3>2, <3>3 DEF Told
    <3>4. CASE a # b
      BY <1>2, <3>2, <3>4, StepStays DEF Announced, Stays
    <3> QED
      BY <3>3, <3>4
  <2>3. CASE setGlobalPauseUnlock
    <3>1. aoPc = "requeue" /\ toRequeue = {} /\ UNCHANGED globalPause
      BY <2>3 DEF setGlobalPauseUnlock
    <3> QED
      BY <1>2, <3>1, StepStays DEF Announced, Stays
  <2>4. CASE ~setGlobalPause /\ ~(\E b \in Addons: requeueAllAddons(b)) /\ ~setGlobalPauseUnlock
    <3>1. UNCHANGED <<aoPc, toRequeue, globalPause>>
      <4>1. CASE AddonOperatorController
        BY <2>4, <4>1
        DEF AddonOperatorController, AOExit, Boot, AOGet, AOError, handleAddonOperatorCreation,
            handleGlobalPause, setGlobalPauseLock, reportAddonOperatorPauseStatus,
            StatusUpdateFails, reportAddonOperatorReadinessStatus
      <4>2. CASE AddonWorker
        BY <4>2
        DEF AddonWorker, Get, handleAddonCRDeletion, RLock, checkGlobalPause,
            subReconcilersReturn, updateStatus
      <4>3. CASE Users
        BY <4>3
        DEF Users, SetPause, SetFeatureFlags, DeleteAddonOperator, UserWrites, CreateAddon,
            DeleteAddon
      <4>4. CASE SyncAddonOperator \/ AOTimer \/ Restart \/ UNCHANGED vars
        BY <4>4 DEF SyncAddonOperator, AOTimer, vars, Restart, Boot
      <4> QED
        BY <4>1, <4>2, <4>3, <4>4 DEF Next
    <3> QED
      BY <1>2, <3>1, StepStays DEF Announced, Stays
  <2> QED
    BY <2>1, <2>2, <2>3, <2>4
<1> QED
  BY <1>1, <1>2

\* When EnableGlobalPause or DisableGlobalPause has returned, every live Addon shows the
\* flag, is queued, or is in the hands of the worker that will show it, also those made
\* while requeueAllAddons was sending.
THEOREM PauseIsAnnounced == Spec => []AllTold
<1>1. Init => Announced
  BY DEF Init, Announced
<1>2. IInv /\ Announced => AllTold
  BY DEF Announced, AllTold
<1> QED
  BY InitIInv, NextIInv, StepAnnounced, <1>1, <1>2, PTL DEF Spec

\* With PauseIsAnnounced, the safety half of PauseReachesAddons: an Addon that was told of
\* the flag shows it as soon as its key is out of the workqueue and out of hand; a
\* restart, a conflict or a failed update puts the key back.
THEOREM ToldForGood == Spec => StaysTold
<1>1. IInv /\ [Next]_vars =>
        [\A a \in Addons: Told(a) /\ addon'[a].life = "live" /\ globalPause' = globalPause
                              => Told(a)']_vars
  BY StepStays DEF Stays
<1> QED
  BY <1>1, InitIInv, NextIInv, PTL DEF Spec, StaysTold
=============================================================================
