------------------------- MODULE SharedStateProofs -------------------------
(***************************************************************************)
(* State that several parties change. First the maps and the workqueue     *)
(* that the watch and the worker share (OperatorResourceHandler): the two  *)
(* maps are inverse, and no change of an Operator gets lost on its way to  *)
(* the Addon. Then the namespaces and Secrets that the sub-reconcilers of  *)
(* an Addon share (AddonResources): none deletes what another one of the   *)
(* same pass maintains. For any number of Addons and Operators, contents   *)
(* of Secrets, edits, failures and restarts.                               *)
(***************************************************************************)
EXTENDS OperatorResourceHandler, AddonResources, TLAPS

(* The handler.                                                            *)

\* What the cluster guarantees: an Addon that exists has a key of its own, and
\* the worker only holds Addons that exist.
KeysInv ==
    /\ \A a \in Addons: life[a] = "absent" <=> key[a] = NoKey
    /\ \A a, b \in Addons: key[a] = key[b] /\ key[a] # NoKey => a = b
    /\ cur # NoAddon => life[cur] # "absent"

HandlerInv == HandlerTypeOK /\ KeysInv /\ MapsInverse

\* Why no change of an Operator is missed. A live Addon is in the workqueue or can be
\* found from its Operator's key; and it acted on the last state of its Operator, or is
\* about to look: it is in the queue or the worker's hands, or an event is on its way.
Attended ==
    \A a \in Addons:
        life[a] = "live" =>
            /\ a \in workqueue \/ operatorKeyToAddon[key[a]] = a
            /\ \/ observed[a] = operator[key[a]]
               \/ a \in workqueue \/ cur = a \/ key[a] \in events

\* The initial states satisfy the inductive invariant.
LEMMA InitHandler == HandlerInit => HandlerInv
<1> SUFFICES ASSUME HandlerInit PROVE HandlerInv
  OBVIOUS
<1>1. HandlerTypeOK
  BY HandlerAssumption DEF HandlerInit, HandlerTypeOK
<1>2. KeysInv
  BY HandlerAssumption DEF HandlerInit, KeysInv
<1>3. MapsInverse
  BY HandlerAssumption DEF HandlerInit, MapsInverse
<1> QED
  BY <1>1, <1>2, <1>3 DEF HandlerInv

\* Every step preserves the inductive invariant.
LEMMA NextHandler == HandlerInv /\ [HandlerNext]_handlerVars => HandlerInv'
<1> SUFFICES ASSUME HandlerInv, [HandlerNext]_handlerVars PROVE HandlerInv'
  OBVIOUS
<1> USE HandlerAssumption DEF maps
<1>1. ASSUME NEW a \in Addons, CreateAddon(a) PROVE HandlerInv'
  <2>1. HandlerTypeOK'
    BY <1>1 DEF CreateAddon, HandlerInv, HandlerTypeOK
  <2>2. KeysInv'
    BY <1>1 DEF CreateAddon, HandlerInv, HandlerTypeOK, KeysInv
  <2>3. MapsInverse'
    BY <1>1 DEF CreateAddon, HandlerInv, HandlerTypeOK, KeysInv, MapsInverse
  <2> QED
    BY <2>1, <2>2, <2>3 DEF HandlerInv
<1>2. ASSUME NEW a \in Addons, DeleteAddon(a) PROVE HandlerInv'
  <2>1. HandlerTypeOK'
    BY <1>2 DEF DeleteAddon, HandlerInv, HandlerTypeOK
  <2>2. KeysInv'
    BY <1>2 DEF DeleteAddon, HandlerInv, HandlerTypeOK, KeysInv
  <2>3. MapsInverse'
    BY <1>2 DEF DeleteAddon, HandlerInv, HandlerTypeOK, KeysInv, MapsInverse
  <2> QED
    BY <2>1, <2>2, <2>3 DEF HandlerInv
<1>3. ASSUME NEW a \in Addons, observeOperatorResource(a) PROVE HandlerInv'
  <2>1. key[a] \in OperatorKeys
    BY <1>3 DEF observeOperatorResource, HandlerInv, HandlerTypeOK, KeysInv
  <2>2. HandlerTypeOK'
    BY <1>3, <2>1 DEF observeOperatorResource, UpdateMap, HandlerInv, HandlerTypeOK
  <2>3. KeysInv'
    BY <1>3 DEF observeOperatorResource, HandlerInv, HandlerTypeOK, KeysInv
  <2>4. MapsInverse'
    BY <1>3, <2>1 DEF observeOperatorResource, UpdateMap, HandlerInv, HandlerTypeOK, KeysInv,
                      MapsInverse
  <2> QED
    BY <2>2, <2>3, <2>4 DEF HandlerInv
<1>4. ASSUME NEW a \in Addons, handleAddonCRDeletion(a) PROVE HandlerInv'
  <2>1. HandlerTypeOK'
    BY <1>4 DEF handleAddonCRDeletion, Free, HandlerInv, HandlerTypeOK
  <2>2. KeysInv'
    BY <1>4 DEF handleAddonCRDeletion, HandlerInv, HandlerTypeOK, KeysInv
  <2>3. MapsInverse'
    BY <1>4 DEF handleAddonCRDeletion, Free, HandlerInv, HandlerTypeOK, KeysInv, MapsInverse
  <2> QED
    BY <2>1, <2>2, <2>3 DEF HandlerInv
<1>5. ASSUME NEW a \in Addons, GetNotFound(a) PROVE HandlerInv'
  BY <1>5 DEF GetNotFound, HandlerInv, HandlerTypeOK, KeysInv, MapsInverse
<1>6. ASSUME NEW k \in OperatorKeys, OperatorChanges(k) PROVE HandlerInv'
  <2>1. operator[k] + 1 \in 0..MaxChanges
    BY <1>6 DEF OperatorChanges, HandlerInv, HandlerTypeOK
  <2> QED
    BY <1>6, <2>1 DEF OperatorChanges, HandlerInv, HandlerTypeOK, KeysInv, MapsInverse
<1>7. ASSUME NEW k \in OperatorKeys, enqueueObject(k) PROVE HandlerInv'
  BY <1>7 DEF enqueueObject, HandlerInv, HandlerTypeOK, KeysInv, MapsInverse
<1>8. CASE getOperator
  <2>1. cur \in Addons /\ key[cur] \in OperatorKeys
    BY <1>8 DEF getOperator, HandlerInv, HandlerTypeOK, KeysInv
  <2> QED
    BY <1>8, <2>1 DEF getOperator, HandlerInv, HandlerTypeOK, KeysInv, MapsInverse
<1>9. CASE Restart
  <2>1. HandlerTypeOK'
    BY <1>9 DEF Restart, HandlerInv, HandlerTypeOK
  <2>2. KeysInv'
    BY <1>9 DEF Restart, HandlerInv, HandlerTypeOK, KeysInv
  <2>3. MapsInverse'
    BY <1>9 DEF Restart, HandlerInv, HandlerTypeOK, MapsInverse
  <2> QED
    BY <2>1, <2>2, <2>3 DEF HandlerInv
<1>10. CASE UNCHANGED handlerVars
  BY <1>10 DEF handlerVars, HandlerInv, HandlerTypeOK, KeysInv, MapsInverse
<1> QED
  BY <1>1, <1>2, <1>3, <1>4, <1>5, <1>6, <1>7, <1>8, <1>9, <1>10 DEF HandlerNext, Worker

\* Whatever the order of UpdateMap, Free and restarts, the handler's two maps
\* are inverse and mention existing Addons only.
THEOREM MapsStayInverse == HandlerSpec => []MapsInverse
<1>1. HandlerInv => MapsInverse
  BY DEF HandlerInv
<1> QED
  BY <1>1, InitHandler, NextHandler, PTL DEF HandlerSpec

\* Handler and worker keep every live Addon attended to.
LEMMA NextAttended ==
    HandlerInv /\ Attended /\ [HandlerNext]_handlerVars => Attended'
<1> SUFFICES ASSUME HandlerInv, Attended, [HandlerNext]_handlerVars PROVE Attended'
  OBVIOUS
<1> USE HandlerAssumption DEF maps
<1>1. ASSUME NEW a \in Addons, CreateAddon(a) PROVE Attended'
  BY <1>1 DEF CreateAddon, HandlerInv, HandlerTypeOK, Attended
<1>2. ASSUME NEW a \in Addons, DeleteAddon(a) PROVE Attended'
  BY <1>2 DEF DeleteAddon, HandlerInv, HandlerTypeOK, Attended
<1>3. ASSUME NEW a \in Addons, observeOperatorResource(a) PROVE Attended'
  <2>1. key[a] \in OperatorKeys
    BY <1>3 DEF observeOperatorResource, HandlerInv, HandlerTypeOK, KeysInv
  <2>2. \A b \in Addons: life[b] = "live" /\ b # a => key[b] # key[a]
    BY <2>1 DEF HandlerInv, HandlerTypeOK, KeysInv
  <2>3. operatorKeyToAddon'[key[a]] = a
        /\ \A k \in OperatorKeys \ {key[a]}: operatorKeyToAddon'[k] = operatorKeyToAddon[k]
    BY <1>3, <2>1 DEF observeOperatorResource, UpdateMap, HandlerInv, HandlerTypeOK
  <2> QED
    BY <1>3, <2>1, <2>2, <2>3
    DEF observeOperatorResource, HandlerInv, HandlerTypeOK, KeysInv, Attended
<1>4. ASSUME NEW a \in Addons, handleAddonCRDeletion(a) PROVE Attended'
  BY <1>4 DEF handleAddonCRDeletion, Free, HandlerInv, HandlerTypeOK, KeysInv, MapsInverse,
              Attended
<1>5. ASSUME NEW a \in Addons, GetNotFound(a) PROVE Attended'
  BY <1>5 DEF GetNotFound, HandlerInv, HandlerTypeOK, Attended
<1>6. ASSUME NEW k \in OperatorKeys, OperatorChanges(k) PROVE Attended'
  BY <1>6 DEF OperatorChanges, HandlerInv, HandlerTypeOK, KeysInv, Attended
<1>7. ASSUME NEW k \in OperatorKeys, enqueueObject(k) PROVE Attended'
  BY <1>7 DEF enqueueObject, HandlerInv, HandlerTypeOK, KeysInv, Attended
<1>8. CASE getOperator
  BY <1>8 DEF getOperator, HandlerInv, HandlerTypeOK, KeysInv, Attended
<1>9. CASE Restart
  BY <1>9 DEF Restart, HandlerInv, HandlerTypeOK, Attended
<1>10. CASE UNCHANGED handlerVars
  BY <1>10 DEF handlerVars, Attended
<1> QED
  BY <1>1, <1>2, <1>3, <1>4, <1>5, <1>6, <1>7, <1>8, <1>9, <1>10 DEF HandlerNext, Worker

\* The handler's maps, the queue and the worker's Addon have the types of the model.
THEOREM HandlerTypes == HandlerSpec => []HandlerTypeOK
<1>1. HandlerInv => HandlerTypeOK
  BY DEF HandlerInv
<1> QED
  BY <1>1, InitHandler, NextHandler, PTL DEF HandlerSpec

\* No change of an Operator gets lost: whatever the order of events, UpdateMap, Free and
\* restarts, a live Addon that has not acted on the last state of its Operator has a pass
\* or an event before it, and enqueueObject finds it from the Operator's key.
THEOREM NoChangeLost == HandlerSpec => []Attended
<1>1. HandlerInit => Attended
  BY DEF HandlerInit, Attended
<1> QED
  BY <1>1, InitHandler, NextHandler, NextAttended, PTL DEF HandlerSpec

-----------------------------------------------------------------------------
(* The resources of an Addon.                                              *)

\* What is true of every object: one without content does not exist, and the bearer token
\* never has the common labels.
Sound(k, o) == o \in Object /\ (o.data = 0 => o = Absent) /\ (k = "token" => ~o.labelled)

ObjectsInv == obj \in [Keys -> Object] /\ \A k \in Keys: Sound(k, obj[k])

\* The informers hold sound copies, of Secrets only those with the cache label.
CacheInv ==
    /\ cache \in [Keys -> Object]
    /\ \A k \in Keys: Sound(k, cache[k])
    /\ \A k \in Secrets: cache[k] # Absent => cache[k].labelled

\* The pass: it has read a source Secret that exists, and it takes the federation down
\* only if the Addon does not want it.
PassInv ==
    /\ want \in Spec_ /\ pc \in PC /\ queue \in BOOLEAN
    /\ src \in 0..MaxData /\ (pc = "dest" => src # 0)
    /\ pc \in {"unwantedToken", "unwantedMon"} => ~want.federation

Counts ==
    /\ spec \in Spec_ /\ installed \in BOOLEAN
    /\ edits \in 0..MaxEdits /\ moves \in 0..MaxMoves /\ faults \in 0..MaxFaults

ResourcesInv == ObjectsInv /\ CacheInv /\ PassInv /\ Counts

\* What NoUndoing asks of a step of the pass.
Kept ==
    \A k \in Wanted(want):
        obj[k] # Absent => /\ obj'[k] # Absent
                           /\ obj'[k].terminating => obj[k].terminating

\* What a step of the pass does to the objects and to itself.
Maintains == ObjectsInv' /\ Kept /\ PassInv'

-----------------------------------------------------------------------------
(* Objects.                                                                *)

LEMMA AbsentSound == \A k: Sound(k, Absent)
BY AddonResourcesAssumption DEF Sound, Absent, Object

\* What the operator writes is sound, and is not on its way out unless it was before.
LEMMA DesiredSound ==
    ASSUME NEW k \in Keys, NEW d \in 1..MaxData
    PROVE  /\ Sound(k, desired(k, d)) /\ desired(k, d) # Absent /\ ~desired(k, d).terminating
           /\ ObjectsInv => /\ Sound(k, Adopted(k, desired(k, d)))
                            /\ Adopted(k, desired(k, d)) # Absent
                            /\ Adopted(k, desired(k, d)).terminating = obj[k].terminating
<1> DEFINE l == k # "token"
           o == [data |-> d, owned |-> TRUE, labelled |-> l, terminating |-> FALSE]
<1>1. l \in BOOLEAN /\ (k = "token" => ~l)
  BY Zenon
<1> HIDE DEF l
<1>2. Sound(k, o) /\ o # Absent /\ ~o.terminating
  BY <1>1, AddonResourcesAssumption DEF Sound, Object, Absent
<1>3. ASSUME NEW t \in BOOLEAN
      PROVE  LET e == [o EXCEPT !.terminating = t]
             IN  Sound(k, e) /\ e # Absent /\ e.terminating = t
  <2> DEFINE e == [o EXCEPT !.terminating = t]
  <2>1. o \in Object /\ o.data # 0 /\ (k = "token" => ~o.labelled)
    BY <1>1, AddonResourcesAssumption DEF Object
  <2> HIDE DEF o
  <2>2. e \in Object /\ e.data = o.data /\ e.labelled = o.labelled /\ e.terminating = t
    BY <2>1 DEF Object
  <2>3. e # Absent
    BY <2>1, <2>2 DEF Absent
  <2> QED
    BY <2>1, <2>2, <2>3 DEF Sound
<1>4. desired(k, d) = o
  BY DEF desired, l
<1>5. ObjectsInv => obj[k].terminating \in BOOLEAN
  BY DEF ObjectsInv, Object
<1> QED
  BY <1>2, <1>3, <1>4, <1>5 DEF Adopted

\* A write of one object.
LEMMA WriteMaintains ==
    ASSUME ObjectsInv, NEW k \in Keys, NEW o, Sound(k, o), Write(k, o),
           k \in Wanted(want) /\ obj[k] # Absent =>
               o # Absent /\ (o.terminating => obj[k].terminating)
    PROVE  ObjectsInv' /\ Kept
<1>1. obj' = [obj EXCEPT ![k] = o] /\ obj \in [Keys -> Object] /\ o \in Object
  BY DEF Write, ObjectsInv, Sound
<1>2. obj'[k] = o /\ \A j \in Keys \ {k}: obj'[j] = obj[j]
  BY <1>1
<1>3. Wanted(want) \subseteq Keys
  BY DEF Wanted, Keys, Namespaces, Secrets
<1>4. obj' \in [Keys -> Object] /\ \A j \in Keys: Sound(j, obj'[j])
  BY <1>1, <1>2 DEF ObjectsInv
<1>5. ObjectsInv'
  BY <1>4 DEF ObjectsInv, Sound
<1>6. Kept
  BY <1>2, <1>3 DEF Kept
<1> QED
  BY <1>5, <1>6

LEMMA NoWriteMaintains ==
    ASSUME ObjectsInv, UNCHANGED obj
    PROVE  ObjectsInv' /\ Kept
BY DEF ObjectsInv, Sound, Kept

\* How a step of the pass goes on, ends, or fails.
LEMMA ProceedPass ==
    ASSUME PassInv, NEW p \in PC, Proceed(p), p # "dest",
           p \in {"unwantedToken", "unwantedMon"} => ~want.federation
    PROVE  PassInv'
BY DEF PassInv, Proceed

LEMMA EndPass ==
    ASSUME PassInv, NEW again \in BOOLEAN, End(again)
    PROVE  PassInv'
<1>1. queue' \in BOOLEAN
  BY Zenon DEF End
<1>2. want' \in Spec_ /\ pc' = "idle" /\ src' = 0
  BY DEF End, Nothing, Spec_
<1> QED
  BY <1>1, <1>2, AddonResourcesAssumption DEF PassInv, PC

LEMMA FailMaintains ==
    ASSUME ObjectsInv, PassInv, Fail
    PROVE  Maintains
BY EndPass, NoWriteMaintains DEF Fail, Maintains

LEMMA GoOnMaintains ==
    ASSUME ObjectsInv, PassInv, UNCHANGED obj, NEW p \in PC, Proceed(p), p # "dest",
           p \in {"unwantedToken", "unwantedMon"} => ~want.federation
    PROVE  Maintains
BY ProceedPass, NoWriteMaintains DEF Maintains

-----------------------------------------------------------------------------
(* The steps of the pass.                                                  *)

\* One namespace is created, adopted or waited for.
LEMMA NamespaceMaintains ==
    ASSUME ResourcesInv, NEW k \in Namespaces, NEW p \in {"unwantedNamespaces", "token"},
           reconcileNamespace(k, p)
    PROVE  Maintains
<1>1. ObjectsInv /\ PassInv /\ k \in Keys /\ p \in PC /\ 1 \in 1..MaxData
  BY AddonResourcesAssumption DEF ResourcesInv, Keys, PC
<1>2. CASE cache[k] = Absent /\ CanCreate(k) /\ Write(k, desired(k, 1)) /\ Proceed(p)
  <2>1. ObjectsInv' /\ Kept
    BY <1>1, <1>2, DesiredSound, WriteMaintains
  <2> QED
    BY <1>1, <1>2, <2>1, ProceedPass DEF Maintains
<1>3. CASE Fail
  BY <1>1, <1>3, FailMaintains
<1>4. CASE /\ Write(k, Adopted(k, desired(k, 1)))
           /\ IF cache[k].terminating THEN End(TRUE) ELSE Proceed(p)
  <2>1. ObjectsInv' /\ Kept
    BY <1>1, <1>4, DesiredSound, WriteMaintains
  <2>2. PassInv'
    BY <1>1, <1>4, ProceedPass, EndPass
  <2> QED
    BY <2>1, <2>2 DEF Maintains
<1> QED
  BY <1>2, <1>3, <1>4 DEF reconcileNamespace

LEMMA WantedNamespaces == ASSUME ResourcesInv, ensureWantedNamespaces PROVE Maintains
<1>1. CASE reconcileNamespace("app", "unwantedNamespaces")
  BY <1>1, NamespaceMaintains DEF Namespaces
<1>2. CASE Proceed("unwantedNamespaces") /\ UNCHANGED obj
  BY <1>2, GoOnMaintains DEF ResourcesInv, PC
<1> QED
  BY <1>1, <1>2 DEF ensureWantedNamespaces

\* The monitoring namespace is not unwanted, nor is the listed one.
LEMMA UnwantedNamespaces == ASSUME ResourcesInv, ensureDeletionOfUnwantedNamespaces PROVE Maintains
<1> DEFINE gone == {n \in Namespaces: cache[n].labelled} \ wantedNamespaceNames
<1>1. /\ obj' = [k \in Keys |-> IF k \in gone /\ obj[k] # Absent
                                THEN [obj[k] EXCEPT !.terminating = TRUE] ELSE obj[k]]
      /\ Proceed("secrets")
  BY DEF ensureDeletionOfUnwantedNamespaces
<1>2. gone \cap Wanted(want) = {}
  BY DEF wantedNamespaceNames, Wanted, Namespaces
<1> HIDE DEF gone
<1>3. ASSUME NEW k \in Keys PROVE Sound(k, obj'[k])
  <2>1. Sound(k, obj[k])
    BY DEF ResourcesInv, ObjectsInv
  <2>2. CASE obj'[k] = obj[k]
    BY <2>1, <2>2
  <2>3. CASE obj[k] # Absent /\ obj'[k] = [obj[k] EXCEPT !.terminating = TRUE]
    BY <2>1, <2>3 DEF Sound, Object
  <2> QED
    BY <1>1, <2>2, <2>3
<1>4. obj' = [k \in Keys |-> obj'[k]]
  BY <1>1
<1>5. obj' \in [Keys -> Object]
  BY <1>3, <1>4 DEF Sound
<1>6. ObjectsInv'
  BY <1>3, <1>5 DEF ObjectsInv, Sound
<1>7. Kept
  <2>1. Wanted(want) \subseteq Keys
    BY DEF Wanted, Keys, Namespaces, Secrets
  <2>2. \A k \in Wanted(want): obj'[k] = obj[k]
    BY <1>1, <1>2, <2>1
  <2> QED
    BY <2>2 DEF Kept
<1>8. PassInv'
  BY <1>1, ProceedPass DEF ResourcesInv, PC
<1> QED
  BY <1>6, <1>7, <1>8 DEF Maintains

\* The source Secret is only labelled and owned.
LEMMA SourceMaintains == ASSUME ResourcesInv, getDestinationSecretsWithoutNamespace PROVE Maintains
<1>1. "source" \in Keys /\ "source" \in Secrets /\ ObjectsInv /\ PassInv /\ CacheInv
  BY DEF ResourcesInv, Keys, Secrets
<1>2. obj["source"] \in Object /\ Sound("source", obj["source"]) /\ Sound("source", cache["source"])
  BY <1>1 DEF ObjectsInv, CacheInv
<1>3. ASSUME NEW d \in 1..MaxData, src' = d, pc' = "dest", UNCHANGED <<queue, want>>
      PROVE  PassInv'
  BY <1>1, <1>3 DEF PassInv, PC
<1>4. CASE /\ cache["source"] # Absent /\ src' = cache["source"].data /\ UNCHANGED obj
           /\ pc' = "dest" /\ UNCHANGED <<queue, want>>
  <2>1. cache["source"].data \in 1..MaxData
    BY <1>2, <1>4, AddonResourcesAssumption DEF Sound, Object
  <2> QED
    BY <1>1, <1>3, <1>4, <2>1, NoWriteMaintains DEF Maintains
<1>5. CASE /\ obj["source"] # Absent /\ src' = obj["source"].data
           /\ obj' = [obj EXCEPT !["source"].owned = TRUE, !["source"].labelled = TRUE]
           /\ pc' = "dest" /\ UNCHANGED <<queue, want>>
  <2> DEFINE o == [obj["source"] EXCEPT !.owned = TRUE, !.labelled = TRUE]
  <2>1. obj["source"].data \in 1..MaxData
    BY <1>2, <1>5, AddonResourcesAssumption DEF Sound, Object
  <2>2. o \in Object /\ o.data = obj["source"].data /\ o.terminating = obj["source"].terminating
    BY <1>2 DEF Object
  <2>3. obj' = [obj EXCEPT !["source"] = o]
    BY <1>1, <1>5 DEF ObjectsInv
  <2> HIDE DEF o
  <2>4. Sound("source", o) /\ o # Absent
    BY <2>1, <2>2 DEF Sound, Absent
  <2>5. ObjectsInv' /\ Kept
    BY <1>1, <2>2, <2>3, <2>4, WriteMaintains DEF Write
  <2> QED
    BY <1>3, <1>5, <2>1, <2>5 DEF Maintains
<1>6. CASE Fail
  BY <1>1, <1>6, FailMaintains
<1>7. CASE Proceed("cleanup") /\ UNCHANGED obj
  BY <1>1, <1>7, GoOnMaintains DEF PC
<1> QED
  BY <1>4, <1>5, <1>6, <1>7 DEF getDestinationSecretsWithoutNamespace, getReferencedSecret

\* The propagated Secret is created or rewritten.
LEMMA DestMaintains == ASSUME ResourcesInv, reconcileSecretsInAddonNamespaces PROVE Maintains
<1>1. "dest" \in Keys /\ ObjectsInv /\ PassInv /\ "cleanup" \in PC
  BY DEF ResourcesInv, Keys, Secrets, PC
<1>2. src \in 1..MaxData
  BY <1>1, AddonResourcesAssumption DEF reconcileSecretsInAddonNamespaces, PassInv
<1>3. CASE Write("dest", desired("dest", src)) /\ Proceed("cleanup")
  <2>1. ObjectsInv' /\ Kept
    BY <1>1, <1>2, <1>3, DesiredSound, WriteMaintains
  <2> QED
    BY <1>1, <1>3, <2>1, ProceedPass DEF Maintains
<1>4. CASE Fail
  BY <1>1, <1>4, FailMaintains
<1>5. CASE Proceed("cleanup") /\ UNCHANGED obj
  BY <1>1, <1>5, GoOnMaintains
<1> QED
  BY <1>3, <1>4, <1>5 DEF reconcileSecretsInAddonNamespaces, reconcileSecret

\* The cleanup goes by label in the cache, where the bearer token never is.
LEMMA CleanupMaintains == ASSUME ResourcesInv, cleanupUnknownSecrets PROVE Maintains
<1> DEFINE unknown == {k \in {"dest", "token"}: cache[k].labelled} \ knownSecrets
<1>1. ObjectsInv /\ PassInv /\ CacheInv
  BY DEF ResourcesInv
<1>2. CASE Fail
  BY <1>1, <1>2, FailMaintains
<1>3. CASE /\ obj' = [k \in Keys |-> IF k \in unknown THEN Absent ELSE obj[k]]
           /\ pc' = "rest" /\ src' = 0 /\ UNCHANGED <<queue, want>>
  <2>1. ~cache["token"].labelled
    BY <1>1 DEF CacheInv, Sound, Keys, Secrets
  <2>2. unknown \cap Wanted(want) = {}
    BY <2>1 DEF knownSecrets, Wanted
  <2> HIDE DEF unknown
  <2>3. ASSUME NEW k \in Keys PROVE Sound(k, obj'[k])
    BY <1>1, <1>3, AbsentSound DEF ObjectsInv
  <2>4. obj' = [k \in Keys |-> obj'[k]]
    BY <1>3
  <2>5. obj' \in [Keys -> Object]
    BY <2>3, <2>4 DEF Sound
  <2>6. ObjectsInv'
    BY <2>3, <2>5 DEF ObjectsInv, Sound
  <2>7. Kept
    <3>1. Wanted(want) \subseteq Keys
      BY DEF Wanted, Keys, Namespaces, Secrets
    <3>2. \A k \in Wanted(want): obj'[k] = obj[k]
      BY <1>3, <2>2, <3>1
    <3> QED
      BY <3>2 DEF Kept
  <2>8. PassInv'
    BY <1>1, <1>3, AddonResourcesAssumption DEF PassInv, PC
  <2> QED
    BY <2>6, <2>7, <2>8 DEF Maintains
<1> QED
  BY <1>2, <1>3 DEF cleanupUnknownSecrets

LEMMA OthersMaintain == ASSUME ResourcesInv, otherSubReconcilers PROVE Maintains
<1>1. ObjectsInv /\ PassInv /\ "federation" \in PC /\ UNCHANGED obj
  BY DEF ResourcesInv, PC, otherSubReconcilers
<1>2. CASE Proceed("federation")
  BY <1>1, <1>2, GoOnMaintains
<1>3. CASE \E again \in BOOLEAN: End(again)
  BY <1>1, <1>3, EndPass, NoWriteMaintains DEF Maintains
<1> QED
  BY <1>2, <1>3 DEF otherSubReconcilers

LEMMA FederationMaintains == ASSUME ResourcesInv, ensureMonitoringFederation PROVE Maintains
<1>1. ObjectsInv /\ PassInv /\ "token" \in PC /\ "unwantedSM" \in PC /\ "mon" \in Namespaces
  BY DEF ResourcesInv, PC, Namespaces
<1>2. CASE Proceed("token") /\ UNCHANGED obj
  BY <1>1, <1>2, GoOnMaintains
<1>3. CASE reconcileNamespace("mon", "token")
  BY <1>1, <1>3, NamespaceMaintains
<1>4. CASE Proceed("unwantedSM") /\ UNCHANGED obj
  BY <1>1, <1>4, GoOnMaintains
<1> QED
  BY <1>2, <1>3, <1>4 DEF ensureMonitoringFederation, ensureMonitoringNamespace

LEMMA TokenMaintains == ASSUME ResourcesInv, reconcileBearerTokenSecretForAddon PROVE Maintains
<1>1. ObjectsInv /\ PassInv /\ "token" \in Keys /\ "sm" \in PC /\ 1 \in 1..MaxData
  BY AddonResourcesAssumption DEF ResourcesInv, PC, Keys, Secrets
<1>2. CASE Write("token", desired("token", 1)) /\ End(TRUE)
  <2>1. ObjectsInv' /\ Kept
    BY <1>1, <1>2, DesiredSound, WriteMaintains
  <2> QED
    BY <1>1, <1>2, <2>1, EndPass DEF Maintains
<1>3. CASE Fail
  BY <1>1, <1>3, FailMaintains
<1>4. CASE Write("token", Adopted("token", desired("token", 1))) /\ End(TRUE)
  <2>1. ObjectsInv' /\ Kept
    BY <1>1, <1>4, DesiredSound, WriteMaintains
  <2> QED
    BY <1>1, <1>4, <2>1, EndPass DEF Maintains
<1>5. CASE Proceed("sm") /\ UNCHANGED obj
  BY <1>1, <1>5, GoOnMaintains
<1> QED
  BY <1>2, <1>3, <1>4, <1>5 DEF reconcileBearerTokenSecretForAddon

LEMMA ServiceMonitorMaintains == ASSUME ResourcesInv, reconcileServiceMonitor PROVE Maintains
<1>1. ObjectsInv /\ PassInv /\ "sm" \in Keys /\ "unwantedSM" \in PC /\ 1 \in 1..MaxData
  BY AddonResourcesAssumption DEF ResourcesInv, PC, Keys
<1>2. CASE Write("sm", desired("sm", 1)) /\ Proceed("unwantedSM")
  <2>1. ObjectsInv' /\ Kept
    BY <1>1, <1>2, DesiredSound, WriteMaintains
  <2> QED
    BY <1>1, <1>2, <2>1, ProceedPass DEF Maintains
<1>3. CASE Fail
  BY <1>1, <1>3, FailMaintains
<1>4. CASE Write("sm", Adopted("sm", desired("sm", 1))) /\ Proceed("unwantedSM")
  <2>1. ObjectsInv' /\ Kept
    BY <1>1, <1>4, DesiredSound, WriteMaintains
  <2> QED
    BY <1>1, <1>4, <2>1, ProceedPass DEF Maintains
<1>5. CASE Proceed("unwantedSM") /\ UNCHANGED obj
  BY <1>1, <1>5, GoOnMaintains
<1> QED
  BY <1>2, <1>3, <1>4, <1>5 DEF reconcileServiceMonitor


\* The federation is taken down object by object, and only if it is not wanted.
LEMMA UnwantedMaintains ==
    ASSUME ResourcesInv,
           \/ deleteUnwantedServiceMonitor \/ deleteUnwantedBearerToken
           \/ deleteUnwantedMonitoringNamespace
    PROVE  Maintains
<1>1. ObjectsInv /\ PassInv /\ {"sm", "token", "mon"} \subseteq Keys
      /\ "unwantedToken" \in PC /\ "unwantedMon" \in PC
  BY DEF ResourcesInv, PC, Keys, Secrets, Namespaces
<1>2. ~want.federation => {"sm", "token", "mon"} \cap Wanted(want) = {}
  BY DEF Wanted
<1>3. CASE End(FALSE) /\ UNCHANGED obj
  BY <1>1, <1>3, EndPass, NoWriteMaintains DEF Maintains
<1>4. CASE ~want.federation /\ Proceed("unwantedMon") /\ UNCHANGED obj
  BY <1>1, <1>4, GoOnMaintains
<1>5. CASE ~want.federation /\ Write("sm", Absent) /\ Proceed("unwantedToken")
  <2>1. ObjectsInv' /\ Kept
    BY <1>1, <1>2, <1>5, AbsentSound, WriteMaintains
  <2> QED
    BY <1>1, <1>5, <2>1, ProceedPass DEF Maintains
<1>6. CASE ~want.federation /\ Write("token", Absent) /\ Proceed("unwantedMon")
  <2>1. ObjectsInv' /\ Kept
    BY <1>1, <1>2, <1>6, AbsentSound, WriteMaintains
  <2> QED
    BY <1>1, <1>6, <2>1, ProceedPass DEF Maintains
<1>7. CASE ~want.federation /\ DeleteNamespace("mon") /\ End(FALSE)
  <2>1. CASE obj["mon"] = Absent
    BY <1>1, <1>7, <2>1, EndPass, NoWriteMaintains DEF Maintains, DeleteNamespace
  <2>2. CASE obj["mon"] # Absent
    <3> DEFINE o == [obj["mon"] EXCEPT !.terminating = TRUE]
    <3>1. obj["mon"] \in Object /\ Sound("mon", obj["mon"])
      BY <1>1 DEF ObjectsInv
    <3>2. Sound("mon", o)
      BY <3>1, <2>2 DEF Sound, Object
    <3>3. obj' = [obj EXCEPT !["mon"] = o]
      BY <1>1, <1>7, <2>2 DEF DeleteNamespace, ObjectsInv
    <3> HIDE DEF o
    <3>4. ObjectsInv' /\ Kept
      BY <1>1, <1>2, <1>7, <3>2, <3>3, WriteMaintains DEF Write
    <3> QED
      BY <1>1, <1>7, <3>4, EndPass DEF Maintains
  <2> QED
    BY <2>1, <2>2
<1>8. pc \in {"unwantedToken", "unwantedMon"} => ~want.federation
  BY <1>1 DEF PassInv
<1> QED
  BY <1>3, <1>4, <1>5, <1>6, <1>7, <1>8
  DEF deleteUnwantedServiceMonitor, deleteUnwantedBearerToken, deleteUnwantedMonitoringNamespace

LEMMA BeginMaintains == ASSUME ResourcesInv, Begin PROVE Maintains
<1>1. ObjectsInv' /\ Kept
  BY NoWriteMaintains DEF Begin, ResourcesInv
<1>2. PassInv'
  BY DEF Begin, ResourcesInv, PassInv, Counts, PC
<1> QED
  BY <1>1, <1>2 DEF Maintains

\* Every step of the pass.
LEMMA ReconcileMaintains ==
    ASSUME ResourcesInv, Reconcile PROVE Maintains /\ UNCHANGED rest
<1>1. Maintains
  BY BeginMaintains, WantedNamespaces, UnwantedNamespaces, SourceMaintains, DestMaintains,
     CleanupMaintains, OthersMaintain, FederationMaintains, TokenMaintains,
     ServiceMonitorMaintains, UnwantedMaintains DEF Reconcile
<1>2. UNCHANGED rest
  BY DEF Reconcile, rest, Begin, ensureWantedNamespaces, ensureDeletionOfUnwantedNamespaces,
         getDestinationSecretsWithoutNamespace, reconcileSecretsInAddonNamespaces,
         cleanupUnknownSecrets, otherSubReconcilers, ensureMonitoringFederation,
         reconcileBearerTokenSecretForAddon, reconcileServiceMonitor,
         deleteUnwantedServiceMonitor, deleteUnwantedBearerToken,
         deleteUnwantedMonitoringNamespace
<1> QED
  BY <1>1, <1>2

-----------------------------------------------------------------------------
(* The users, the cluster and the informers.                               *)

\* Objects go.
LEMMA VanishSound == ASSUME ObjectsInv, NEW K, Vanish(K) PROVE ObjectsInv' /\ queue' \in BOOLEAN
<1>1. obj' = [k \in Keys |-> IF k \in K THEN Absent ELSE obj[k]]
  BY DEF Vanish
<1>2. ASSUME NEW k \in Keys PROVE Sound(k, obj'[k])
  BY <1>1, AbsentSound DEF ObjectsInv
<1>3. obj' = [k \in Keys |-> obj'[k]]
  BY <1>1
<1>4. obj' \in [Keys -> Object]
  BY <1>2, <1>3 DEF Sound
<1>5. ObjectsInv'
  BY <1>2, <1>4 DEF ObjectsInv, Sound
<1>6. queue' \in BOOLEAN
  BY Zenon DEF Vanish
<1> QED
  BY <1>5, <1>6

LEMMA ClusterSound == ASSUME ResourcesInv, ClusterMoves PROVE ResourcesInv'
<1>1. /\ moves < MaxMoves /\ moves' = moves + 1
      /\ UNCHANGED <<spec, cache, pc, want, src, edits, faults>>
  BY DEF ClusterMoves
<1>2. ObjectsInv /\ queue \in BOOLEAN /\ installed \in BOOLEAN
  BY DEF ResourcesInv, PassInv, Counts
<1>3. ObjectsInv' /\ queue' \in BOOLEAN /\ installed' \in BOOLEAN
  <2>1. ASSUME NEW d \in 1..MaxData, obj' = [obj EXCEPT !["source"].data = d],
               UNCHANGED <<installed, queue>>
        PROVE  ObjectsInv' /\ queue' \in BOOLEAN /\ installed' \in BOOLEAN
    <3> DEFINE o == [obj["source"] EXCEPT !.data = d]
    <3>1. "source" \in Keys /\ obj["source"] \in Object
      BY <1>2 DEF Keys, Secrets, ObjectsInv
    <3>2. Sound("source", o)
      BY <3>1, AddonResourcesAssumption DEF Sound, Object
    <3>3. obj' = [obj EXCEPT !["source"] = o]
      BY <1>2, <2>1, <3>1 DEF ObjectsInv
    <3> HIDE DEF o
    <3>4. \A k \in Keys: Sound(k, obj'[k])
      BY <1>2, <3>1, <3>2, <3>3 DEF ObjectsInv
    <3>5. obj' \in [Keys -> Object]
      BY <1>2, <3>1, <3>2, <3>3 DEF ObjectsInv, Sound
    <3> QED
      BY <1>2, <2>1, <3>4, <3>5 DEF ObjectsInv, Sound
  <2>2. ASSUME NEW k \in {"source", "dest", "sm"}, Vanish({k}), UNCHANGED installed
        PROVE  ObjectsInv' /\ queue' \in BOOLEAN /\ installed' \in BOOLEAN
    BY <1>2, <2>2, VanishSound
  <2>3. ASSUME NEW n \in Namespaces, Active(n), DeleteNamespace(n), UNCHANGED <<installed, queue>>
        PROVE  ObjectsInv' /\ queue' \in BOOLEAN /\ installed' \in BOOLEAN
    <3> DEFINE o == [obj[n] EXCEPT !.terminating = TRUE]
    <3>1. n \in Keys /\ obj[n] \in Object /\ Sound(n, obj[n]) /\ obj[n] # Absent
      BY <1>2, <2>3 DEF Keys, ObjectsInv, Active
    <3>2. Sound(n, o)
      BY <3>1 DEF Sound, Object
    <3>3. obj' = [obj EXCEPT ![n] = o]
      BY <1>2, <2>3, <3>1 DEF DeleteNamespace, ObjectsInv
    <3> HIDE DEF o
    <3>4. \A k \in Keys: Sound(k, obj'[k])
      BY <1>2, <3>1, <3>2, <3>3 DEF ObjectsInv
    <3>5. obj' \in [Keys -> Object]
      BY <1>2, <3>1, <3>2, <3>3 DEF ObjectsInv, Sound
    <3> QED
      BY <1>2, <2>3, <3>4, <3>5 DEF ObjectsInv, Sound
  <2>4. CASE installed' = ~installed /\ queue' = TRUE /\ UNCHANGED obj
    <3>1. ObjectsInv'
      BY <1>2, <2>4, NoWriteMaintains
    <3>2. queue' \in BOOLEAN /\ installed' \in BOOLEAN
      BY <1>2, <2>4
    <3> QED
      BY <3>1, <3>2
  <2> QED
    BY <2>1, <2>2, <2>3, <2>4 DEF ClusterMoves
<1>4. CacheInv' /\ PassInv'
  BY <1>1, <1>3 DEF ResourcesInv, CacheInv, PassInv, Sound
<1>5. Counts'
  BY <1>1, <1>3, AddonResourcesAssumption DEF ResourcesInv, Counts
<1> QED
  BY <1>3, <1>4, <1>5 DEF ResourcesInv

LEMMA EditSound == ASSUME ResourcesInv, EditAddon PROVE ResourcesInv'
<1>1. /\ edits < MaxEdits /\ edits' = edits + 1 /\ queue' = TRUE
      /\ UNCHANGED <<obj, installed, cache, pc, want, src, moves, faults>>
  BY DEF EditAddon
<1>2. spec' \in Spec_
  BY DEF EditAddon, ResourcesInv, Counts, Spec_
<1>3. ObjectsInv' /\ CacheInv'
  BY <1>1 DEF ResourcesInv, ObjectsInv, CacheInv, Sound
<1>4. PassInv'
  BY <1>1 DEF ResourcesInv, PassInv
<1>5. Counts'
  BY <1>1, <1>2, AddonResourcesAssumption DEF ResourcesInv, Counts
<1> QED
  BY <1>3, <1>4, <1>5 DEF ResourcesInv

LEMMA NamespaceGoneSound ==
    ASSUME ResourcesInv, NEW n \in Namespaces, NamespaceGone(n) PROVE ResourcesInv'
<1>1. UNCHANGED <<spec, installed, cache, pc, want, src, edits, moves, faults>>
  BY DEF NamespaceGone, bounds
<1>2. ObjectsInv' /\ queue' \in BOOLEAN
  BY VanishSound DEF NamespaceGone, ResourcesInv
<1>3. CacheInv' /\ PassInv' /\ Counts'
  BY <1>1, <1>2 DEF ResourcesInv, CacheInv, PassInv, Counts, Sound
<1> QED
  BY <1>2, <1>3 DEF ResourcesInv

\* A copy is what the informer can see, which for the bearer token is nothing.
LEMMA SyncSound == ASSUME ResourcesInv, NEW k \in Keys, Sync(k) PROVE ResourcesInv'
<1>1. /\ cache' = [cache EXCEPT ![k] = Visible(k)]
      /\ UNCHANGED <<spec, obj, installed, pc, want, src, edits, moves, faults>>
  BY DEF Sync, bounds
<1>2. queue' \in BOOLEAN
  BY Zenon DEF Sync
<1>3. Sound(k, Visible(k)) /\ (k \in Secrets /\ Visible(k) # Absent => Visible(k).labelled)
  BY AbsentSound DEF Visible, ResourcesInv, ObjectsInv
<1>4. CacheInv'
  <2>1. cache'[k] = Visible(k) /\ \A j \in Keys \ {k}: cache'[j] = cache[j]
    BY <1>1 DEF ResourcesInv, CacheInv
  <2>2. cache' \in [Keys -> Object]
    BY <1>1, <1>3 DEF ResourcesInv, CacheInv, Sound
  <2>3. \A j \in Keys: Sound(j, cache'[j])
    BY <1>3, <2>1 DEF ResourcesInv, CacheInv
  <2>4. \A j \in Secrets: cache'[j] # Absent => cache'[j].labelled
    BY <1>3, <2>1 DEF ResourcesInv, CacheInv, Keys
  <2> QED
    BY <2>2, <2>3, <2>4 DEF CacheInv, Sound
<1>5. ObjectsInv' /\ PassInv' /\ Counts'
  BY <1>1, <1>2 DEF ResourcesInv, ObjectsInv, PassInv, Counts, Sound
<1> QED
  BY <1>4, <1>5 DEF ResourcesInv

LEMMA CallFailsSound == ASSUME ResourcesInv, CallFails PROVE ResourcesInv' /\ Kept
<1>1. /\ faults < MaxFaults /\ faults' = faults + 1 /\ Fail
      /\ UNCHANGED <<spec, installed, cache, edits, moves>>
  BY DEF CallFails
<1>2. Maintains
  BY <1>1, FailMaintains DEF ResourcesInv
<1>3. CacheInv' /\ Counts'
  BY <1>1, AddonResourcesAssumption DEF ResourcesInv, CacheInv, Counts, Sound
<1> QED
  BY <1>2, <1>3 DEF ResourcesInv, Maintains

\* An Addon that is new, among objects that somebody else made.
LEMMA InitResources == Init => ResourcesInv
<1> SUFFICES ASSUME Init PROVE ResourcesInv
  OBVIOUS
<1>1. Foreign \in Object /\ ~Foreign.labelled /\ Foreign.data = 1
      /\ [Foreign EXCEPT !.labelled = TRUE] \in Object
      /\ [Foreign EXCEPT !.labelled = TRUE].data = 1
  <2>1. Absent \in Object /\ ~Absent.labelled
    BY AbsentSound DEF Sound, Absent
  <2>2. Foreign \in Object /\ Foreign.labelled = Absent.labelled /\ Foreign.data = 1
    BY <2>1, AddonResourcesAssumption DEF Foreign, Object
  <2>3. [Foreign EXCEPT !.labelled = TRUE] \in Object
        /\ [Foreign EXCEPT !.labelled = TRUE].data = 1
    BY <2>2 DEF Object
  <2> QED
    BY <2>1, <2>2, <2>3
<1>2. PICK source \in {Absent, Foreign, [Foreign EXCEPT !.labelled = TRUE]},
           there \in {{}, Keys \ {"source", "dest"}}:
          obj = [k \in Keys |-> IF k = "source" THEN source
                                ELSE IF k \in there THEN Foreign ELSE Absent]
  BY DEF Init
<1>3. ASSUME NEW k \in Keys PROVE Sound(k, obj[k])
  <2>1. Sound(k, Absent) /\ Sound(k, Foreign)
    BY <1>1, AbsentSound DEF Sound
  <2>2. k = "source" => Sound(k, [Foreign EXCEPT !.labelled = TRUE])
    BY <1>1 DEF Sound
  <2> QED
    BY <1>2, <2>1, <2>2
<1>4. ObjectsInv
  BY <1>2, <1>3 DEF ObjectsInv, Sound
<1>5. cache = [k \in Keys |-> Visible(k)]
  BY DEF Init
<1>6. ASSUME NEW k \in Keys
      PROVE  Sound(k, cache[k]) /\ (k \in Secrets /\ cache[k] # Absent => cache[k].labelled)
  BY <1>3, <1>5, AbsentSound DEF Visible
<1>7. CacheInv
  BY <1>5, <1>6 DEF CacheInv, Sound, Keys
<1>8. PassInv /\ Counts
  BY AddonResourcesAssumption DEF Init, PassInv, Counts, PC, Nothing, Spec_
<1> QED
  BY <1>4, <1>7, <1>8 DEF ResourcesInv

\* Every step preserves the invariant, and one of the pass keeps what the Addon wants.
LEMMA NextResources == ResourcesInv /\ [Next]_vars => ResourcesInv' /\ (pc' # pc => Kept)
<1> SUFFICES ASSUME ResourcesInv, [Next]_vars PROVE ResourcesInv' /\ (pc' # pc => Kept)
  OBVIOUS
<1>1. CASE EditAddon
  BY <1>1, EditSound DEF EditAddon
<1>2. CASE ClusterMoves
  BY <1>2, ClusterSound DEF ClusterMoves
<1>3. CASE Requeue
  <2>1. ObjectsInv' /\ CacheInv' /\ PassInv' /\ Counts'
    BY <1>3 DEF Requeue, bounds, ResourcesInv, ObjectsInv, CacheInv, PassInv, Counts, Sound
  <2> QED
    BY <1>3, <2>1 DEF Requeue, ResourcesInv
<1>4. CASE CallFails
  BY <1>4, CallFailsSound
<1>5. CASE \E n \in Namespaces: NamespaceGone(n)
  BY <1>5, NamespaceGoneSound DEF NamespaceGone
<1>6. CASE \E k \in Keys: Sync(k)
  BY <1>6, SyncSound DEF Sync
<1>7. CASE Reconcile
  <2>1. Maintains /\ UNCHANGED <<spec, installed, cache, edits, moves, faults>>
    BY <1>7, ReconcileMaintains DEF rest, bounds
  <2>2. CacheInv' /\ Counts'
    BY <2>1 DEF ResourcesInv, CacheInv, Counts, Sound
  <2> QED
    BY <2>1, <2>2 DEF ResourcesInv, Maintains
<1>8. CASE UNCHANGED vars
  <2>1. ObjectsInv' /\ CacheInv' /\ PassInv' /\ Counts'
    BY <1>8 DEF vars, bounds, ResourcesInv, ObjectsInv, CacheInv, PassInv, Counts, Sound
  <2> QED
    BY <1>8, <2>1 DEF vars, ResourcesInv
<1> QED
  BY <1>1, <1>2, <1>3, <1>4, <1>5, <1>6, <1>7, <1>8 DEF Next

THEOREM ResourcesInvariance == Spec => []ResourcesInv
BY InitResources, NextResources, PTL DEF Spec

\* Objects, copies and the pass have the types of the model; the cache holds Secrets with
\* the cache label only, and a Secret is propagated only from a source that was found.
THEOREM ResourceTypes == Spec => []TypeOK
<1>1. ResourcesInv => TypeOK
  BY DEF ResourcesInv, ObjectsInv, CacheInv, PassInv, Counts, Sound, TypeOK
<1> QED
  BY ResourcesInvariance, <1>1, PTL

\* No sub-reconciler deletes or terminates what another one of the same pass maintains,
\* whatever the caches show it and whichever calls fail.
THEOREM NothingUndone == Spec => NoUndoing
<1>1. ResourcesInv /\ [Next]_vars =>
        [pc' # pc => \A k \in Wanted(want):
                         obj[k] # Absent => /\ obj'[k] # Absent
                                            /\ obj'[k].terminating => obj[k].terminating]_vars
  BY NextResources DEF Kept
<1> QED
  BY ResourcesInvariance, <1>1, PTL DEF Spec, NoUndoing
=============================================================================
