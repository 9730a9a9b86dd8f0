--------------------------- MODULE AddonResources ---------------------------
(***************************************************************************)
(* The sub-reconcilers that share the namespaces and Secrets of an Addon:  *)
(* namespaceReconciler, addonSecretPropagationReconciler and               *)
(* monitoringFederationReconciler, in the order reconcile runs them. The   *)
(* ADDONS_PLUG_AND_PLAY toggle, whose sub-reconciler would come before     *)
(* the Secrets, is off.                                                    *)
(*                                                                         *)
(* "app" is a namespace that .spec.namespaces may list, "mon" the one      *)
(* named redhat-monitoring-<addon>; "dest" is the propagated Secret in     *)
(* app, "source" what it is a copy of; "sm" and "token" are the            *)
(* ServiceMonitor and the bearer token Secret in mon.                      *)
(*                                                                         *)
(* A read through the cached client is a read of cache, which follows the  *)
(* API server's obj (Sync) and holds Secrets with the cache label only.    *)
(* An update of a cached copy that differs from the object is a conflict.  *)
(***************************************************************************)
EXTENDS Naturals

CONSTANTS
    Specs,       \* what Addons are created with
    MaxData,     \* the contents of Secrets are 1..MaxData
    MaxEdits,    \* bound: edits of the Addon's spec
    MaxMoves,    \* bound: changes by the cluster's administrators and by OLM
    MaxFaults    \* bound: API calls that fail, or kills of the process

VARIABLES
    spec,        \* what the Addon's spec asks for
    obj,         \* the objects in the API server
    installed,   \* whether the AddonInstance and OLM sub-reconcilers return resultNil
    cache,       \* the informers' copies of obj
    queue,       \* whether the key is in the workqueue, or due to return to it
    pc, want,    \* where the running pass stands, and the spec it works on
    src,         \* the content of the source Secret it has read
    edits, moves, faults

bounds == <<edits, moves, faults>>
vars   == <<spec, obj, installed, cache, queue, pc, want, src, bounds>>

Namespaces == {"app", "mon"}
Secrets == {"source", "dest", "token"}
Keys == Namespaces \cup Secrets \cup {"sm"}
Home(k) == IF k = "dest" THEN "app" ELSE "mon"

\* data 0 is an object that does not exist; owned: the Addon is an owner; labelled:
\* it has the common labels (source: the cache label).
Object == [data: 0..MaxData, owned: BOOLEAN, labelled: BOOLEAN, terminating: BOOLEAN]
Absent == [data |-> 0, owned |-> FALSE, labelled |-> FALSE, terminating |-> FALSE]
Foreign == [Absent EXCEPT !.data = 1]

Spec_ == [app: BOOLEAN, secrets: BOOLEAN, federation: BOOLEAN]
ASSUME AddonResourcesAssumption ==
    /\ Specs \subseteq Spec_
    /\ MaxData \in Nat \ {0} /\ MaxEdits \in Nat /\ MaxMoves \in Nat /\ MaxFaults \in Nat

Nothing == [app |-> FALSE, secrets |-> FALSE, federation |-> FALSE]

PC == {"idle", "namespaces", "unwantedNamespaces", "secrets", "dest", "cleanup", "rest",
       "federation", "token", "sm", "unwantedSM", "unwantedToken", "unwantedMon"}

TypeOK ==
    /\ spec \in Spec_ /\ want \in Spec_
    /\ obj \in [Keys -> Object] /\ cache \in [Keys -> Object]
    /\ \A k \in Keys: obj[k].data = 0 => obj[k] = Absent
    /\ \A k \in Secrets: cache[k] # Absent => cache[k].labelled
    /\ installed \in BOOLEAN /\ queue \in BOOLEAN
    /\ pc \in PC
    /\ src \in 0..MaxData /\ (pc = "dest" => src # 0)
    /\ edits \in 0..MaxEdits /\ moves \in 0..MaxMoves /\ faults \in 0..MaxFaults

Active(n) == obj[n] # Absent /\ ~obj[n].terminating

\* Mutant: NotFound is not told from success.
DeleteNamespaceBlind(n) == obj' = [obj EXCEPT ![n].terminating = TRUE]

DeleteNamespace(n) ==
    obj' = IF obj[n] = Absent THEN obj ELSE [obj EXCEPT ![n].terminating = TRUE]

\* What the informers can see: main.go restricts the one for Secrets to the cache label.
Visible(k) == IF k \in Secrets /\ ~obj[k].labelled THEN Absent ELSE obj[k]

\* The objects of K go. The informers get every version of an object in turn: the owner
\* of one that the cache has not seen still has its event.
Vanish(K) ==
    /\ obj' = [k \in Keys |-> IF k \in K THEN Absent ELSE obj[k]]
    /\ queue' = (queue \/ \E k \in K: Visible(k) # cache[k] /\ Visible(k).owned)

-----------------------------------------------------------------------------
(* The users, the cluster and the informers.                               *)

EditAddon ==
    /\ edits < MaxEdits
    /\ edits' = edits + 1
    /\ \/ spec' = [spec EXCEPT !.app = ~@]
       \/ spec' = [spec EXCEPT !.secrets = ~@]
       \/ spec' = [spec EXCEPT !.federation = ~@]
    /\ queue' = TRUE
    /\ UNCHANGED <<obj, installed, cache, pc, want, src, moves, faults>>

\* The source Secret is created, changed or deleted; an object the operator watches
\* is deleted; OLM installs the Addon or takes it back.
ClusterMoves ==
    /\ moves < MaxMoves
    /\ moves' = moves + 1
    /\ \/ /\ \E d \in 1..MaxData \ {obj["source"].data}: obj' = [obj EXCEPT !["source"].data = d]
          /\ UNCHANGED <<installed, queue>>
       \/ /\ \E k \in {"source", "dest", "sm"}: obj[k] # Absent /\ Vanish({k})
          /\ UNCHANGED installed
       \/ /\ \E n \in Namespaces: Active(n) /\ DeleteNamespace(n)
          /\ UNCHANGED <<installed, queue>>
       \/ installed' = ~installed /\ queue' = TRUE /\ UNCHANGED obj
    /\ UNCHANGED <<spec, cache, pc, want, src, edits, faults>>

\* The namespace controller removes the content of a deleted namespace, then the namespace.
NamespaceGone(n) ==
    /\ obj[n].terminating
    /\ Vanish({n} \cup {k \in {"dest", "token", "sm"}: Home(k) = n})
    /\ UNCHANGED <<spec, installed, cache, pc, want, src, bounds>>

\* Owns and EnqueueRequestForOwner: the old and the new owner get the event.
Sync(k) ==
    /\ cache[k] # Visible(k)
    /\ cache' = [cache EXCEPT ![k] = Visible(k)]
    /\ queue' = (queue \/ cache[k].owned \/ Visible(k).owned)
    /\ UNCHANGED <<spec, obj, installed, pc, want, src, bounds>>

\* Any other event for the Addon, its own status updates included.
Requeue ==
    /\ pc = "idle" /\ ~queue
    /\ queue' = TRUE
    /\ UNCHANGED <<spec, obj, installed, cache, pc, want, src, bounds>>

-----------------------------------------------------------------------------
(* A pass.                                                                 *)

Proceed(p) == pc' = p /\ UNCHANGED <<queue, want, src>>
End(again) == pc' = "idle" /\ want' = Nothing /\ src' = 0 /\ queue' = (queue \/ again)
Fail == End(TRUE) /\ UNCHANGED obj

Write(k, o) == obj' = [obj EXCEPT ![k] = o]

desired(k, d) == [data |-> d, owned |-> TRUE, labelled |-> k # "token", terminating |-> FALSE]

\* Client.Create: AlreadyExists, or the namespace is missing or terminating.
CanCreate(k) == obj[k] = Absent /\ (k \in Namespaces \/ Active(Home(k)))

\* Client.Update of the cached copy: the data, owner and labels of o.
CanUpdate(k) == cache[k] = obj[k]
Adopted(k, o) == [o EXCEPT !.terminating = obj[k].terminating]

Begin ==
    /\ pc = "idle" /\ queue
    /\ queue' = FALSE
    /\ want' = spec
    /\ pc' = "namespaces"
    /\ UNCHANGED <<spec, obj, installed, cache, src, bounds>>

rest == <<spec, installed, cache, bounds>>

\* Mutant: a namespace that exists is not adopted.
reconcileNamespaceCreates(k, p) ==
    \/ cache[k] = Absent /\ CanCreate(k) /\ Write(k, desired(k, 1)) /\ Proceed(p)
    \/ cache[k] = Absent /\ ~CanCreate(k) /\ Fail
    \/ /\ cache[k] # Absent /\ UNCHANGED obj
       /\ IF cache[k].terminating THEN End(TRUE) ELSE Proceed(p)

reconcileNamespace(k, p) ==
    \/ cache[k] = Absent /\ CanCreate(k) /\ Write(k, desired(k, 1)) /\ Proceed(p)
    \/ cache[k] = Absent /\ ~CanCreate(k) /\ Fail
    \/ /\ cache[k] # Absent /\ CanUpdate(k)
       /\ Write(k, Adopted(k, desired(k, 1)))
       /\ IF cache[k].terminating THEN End(TRUE) ELSE Proceed(p)
    \/ cache[k] # Absent /\ ~CanUpdate(k) /\ Fail

ensureWantedNamespaces ==
    /\ pc = "namespaces"
    /\ \/ want.app /\ reconcileNamespace("app", "unwantedNamespaces")
       \/ ~want.app /\ Proceed("unwantedNamespaces") /\ UNCHANGED obj
    /\ UNCHANGED rest

\* Mutant: the monitoring namespace is not exempt.
wantedNamespaceNamesListed == IF want.app THEN {"app"} ELSE {}

wantedNamespaceNames == {"mon"} \cup (IF want.app THEN {"app"} ELSE {})

\* Deletes what the cache lists under the common labels, with no look at the owner.
ensureDeletionOfUnwantedNamespaces ==
    /\ pc = "unwantedNamespaces"
    /\ LET unwanted == {n \in Namespaces: cache[n].labelled} \ wantedNamespaceNames IN
       obj' = [k \in Keys |-> IF k \in unwanted /\ obj[k] # Absent
                              THEN [obj[k] EXCEPT !.terminating = TRUE] ELSE obj[k]]
    /\ Proceed("secrets")
    /\ UNCHANGED rest

\* The cached copy of the source Secret, or else the Secret itself, which is then
\* labelled for the cache and owned, so that its events reach the Addon.
getReferencedSecret ==
    \/ /\ cache["source"] # Absent
       /\ src' = cache["source"].data
       /\ UNCHANGED obj
       /\ pc' = "dest" /\ UNCHANGED <<queue, want>>
    \/ /\ cache["source"] = Absent /\ obj["source"] # Absent
       /\ src' = obj["source"].data
       /\ obj' = [obj EXCEPT !["source"].owned = TRUE, !["source"].labelled = TRUE]
       /\ pc' = "dest" /\ UNCHANGED <<queue, want>>
    \/ cache["source"] = Absent /\ obj["source"] = Absent /\ Fail

getDestinationSecretsWithoutNamespace ==
    /\ pc = "secrets"
    /\ \/ want.secrets /\ getReferencedSecret
       \/ ~want.secrets /\ Proceed("cleanup") /\ UNCHANGED obj
    /\ UNCHANGED rest

\* Mutant: the update leaves the content.
reconcileSecretAdopts ==
    \/ cache["dest"] = Absent /\ CanCreate("dest") /\ Write("dest", desired("dest", src)) /\ Proceed("cleanup")
    \/ cache["dest"] = Absent /\ obj["dest"] # Absent /\ Proceed("cleanup") /\ UNCHANGED obj
    \/ cache["dest"] = Absent /\ obj["dest"] = Absent /\ ~CanCreate("dest") /\ Fail
    \/ cache["dest"] # Absent /\ CanUpdate("dest") /\ Proceed("cleanup") /\ UNCHANGED obj
    \/ cache["dest"] # Absent /\ ~CanUpdate("dest") /\ Fail

\* Create's AlreadyExists is ignored, whoever made the Secret.
reconcileSecret ==
    \/ cache["dest"] = Absent /\ CanCreate("dest") /\ Write("dest", desired("dest", src)) /\ Proceed("cleanup")
    \/ cache["dest"] = Absent /\ obj["dest"] # Absent /\ Proceed("cleanup") /\ UNCHANGED obj
    \/ cache["dest"] = Absent /\ obj["dest"] = Absent /\ ~CanCreate("dest") /\ Fail
    \/ /\ cache["dest"] # Absent /\ CanUpdate("dest")
       /\ Write("dest", desired("dest", src))
       /\ Proceed("cleanup")
    \/ cache["dest"] # Absent /\ ~CanUpdate("dest") /\ Fail

reconcileSecretsInAddonNamespaces ==
    /\ pc = "dest"
    /\ \/ want.app /\ reconcileSecret
       \/ ~want.app /\ Proceed("cleanup") /\ UNCHANGED obj
    /\ UNCHANGED rest

knownSecrets == IF want.secrets /\ want.app THEN {"dest"} ELSE {}

\* NotFound is an error here, unlike in the other deletions.
cleanupUnknownSecrets ==
    /\ pc = "cleanup"
    /\ LET unknown == {k \in {"dest", "token"}: cache[k].labelled} \ knownSecrets IN
       IF \A k \in unknown: obj[k] # Absent
       THEN /\ obj' = [k \in Keys |-> IF k \in unknown THEN Absent ELSE obj[k]]
            /\ pc' = "rest" /\ src' = 0 /\ UNCHANGED <<queue, want>>
       ELSE Fail
    /\ UNCHANGED rest

\* The AddonInstance and OLM sub-reconcilers let the pass go on, or stop it.
otherSubReconcilers ==
    /\ pc = "rest"
    /\ \/ installed /\ Proceed("federation")
       \/ ~installed /\ \E again \in BOOLEAN: End(again)
    /\ UNCHANGED <<obj, rest>>

\* Equal labels and the Addon as controller: nothing to do, even in a namespace that
\* terminates. A label from elsewhere (the API server adds one with the name) is a
\* difference too, so with the operator's own labels both cases are possible.
ensureMonitoringNamespace ==
    \/ /\ cache["mon"].owned /\ cache["mon"].labelled
       /\ Proceed("token") /\ UNCHANGED obj
    \/ reconcileNamespace("mon", "token")

ensureMonitoringFederation ==
    /\ pc = "federation"
    /\ \/ want.federation /\ ensureMonitoringNamespace
       \/ ~want.federation /\ Proceed("unwantedSM") /\ UNCHANGED obj
    /\ UNCHANGED rest

\* Mutant: the pass stops after it has written the Secret, and is not due again.
reconcileBearerTokenSecretForAddonStops ==
    /\ pc = "token"
    /\ \/ obj["token"] = Absent /\ CanCreate("token") /\ Write("token", desired("token", 1)) /\ End(FALSE)
       \/ obj["token"] = Absent /\ ~CanCreate("token") /\ Fail
       \/ /\ obj["token"] # Absent /\ ~obj["token"].owned
          /\ Write("token", Adopted("token", desired("token", 1)))
          /\ End(FALSE)
       \/ obj["token"].owned /\ Proceed("sm") /\ UNCHANGED obj
    /\ UNCHANGED rest

\* The operator's own token, which it copies, is there and does not change.
\* Reads past the cache; whatever it writes ends the pass, which is due again later.
reconcileBearerTokenSecretForAddon ==
    /\ pc = "token"
    /\ \/ obj["token"] = Absent /\ CanCreate("token") /\ Write("token", desired("token", 1)) /\ End(TRUE)
       \/ obj["token"] = Absent /\ ~CanCreate("token") /\ Fail
       \/ /\ obj["token"] # Absent /\ ~obj["token"].owned
          /\ Write("token", Adopted("token", desired("token", 1)))
          /\ End(TRUE)
       \/ obj["token"].owned /\ Proceed("sm") /\ UNCHANGED obj
    /\ UNCHANGED rest

reconcileServiceMonitor ==
    /\ pc = "sm"
    /\ \/ cache["sm"] = Absent /\ CanCreate("sm") /\ Write("sm", desired("sm", 1)) /\ Proceed("unwantedSM")
       \/ cache["sm"] = Absent /\ ~CanCreate("sm") /\ Fail
       \/ cache["sm"] = desired("sm", 1) /\ Proceed("unwantedSM") /\ UNCHANGED obj
       \/ /\ cache["sm"] \notin {Absent, desired("sm", 1)} /\ CanUpdate("sm")
          /\ Write("sm", Adopted("sm", desired("sm", 1)))
          /\ Proceed("unwantedSM")
       \/ cache["sm"] \notin {Absent, desired("sm", 1)} /\ ~CanUpdate("sm") /\ Fail
    /\ UNCHANGED rest

\* ensureDeletionOfUnwantedMonitoringFederation, one step for each object it deletes.
deleteUnwantedServiceMonitor ==
    /\ pc = "unwantedSM"
    /\ \/ want.federation /\ End(FALSE) /\ UNCHANGED obj
       \/ ~want.federation /\ ~cache["sm"].labelled /\ Proceed("unwantedMon") /\ UNCHANGED obj
       \/ /\ ~want.federation /\ cache["sm"].labelled
          /\ Write("sm", Absent)
          /\ Proceed("unwantedToken")
    /\ UNCHANGED rest

deleteUnwantedBearerToken ==
    /\ pc = "unwantedToken"
    /\ Write("token", Absent)
    /\ Proceed("unwantedMon")
    /\ UNCHANGED rest

deleteUnwantedMonitoringNamespace ==
    /\ pc = "unwantedMon"
    /\ DeleteNamespace("mon")
    /\ End(FALSE)
    /\ UNCHANGED rest

\* An API call of the pass fails and has no effect. A process killed here is no different:
\* it starts with every Addon in the queue, and with a cache that the Syncs yield.
CallFails ==
    /\ pc # "idle" /\ faults < MaxFaults
    /\ faults' = faults + 1
    /\ Fail
    /\ UNCHANGED <<spec, installed, cache, edits, moves>>

Reconcile ==
    \/ Begin
    \/ ensureWantedNamespaces
    \/ ensureDeletionOfUnwantedNamespaces
    \/ getDestinationSecretsWithoutNamespace
    \/ reconcileSecretsInAddonNamespaces
    \/ cleanupUnknownSecrets
    \/ otherSubReconcilers
    \/ ensureMonitoringFederation
    \/ reconcileBearerTokenSecretForAddon
    \/ reconcileServiceMonitor
    \/ deleteUnwantedServiceMonitor
    \/ deleteUnwantedBearerToken
    \/ deleteUnwantedMonitoringNamespace

-----------------------------------------------------------------------------
\* The namespaces may be there before the Addon, and in mon objects of the names that
\* the operator uses; another Addon may have had the source Secret labelled. The name
\* of dest is free: a Secret of somebody else there is left as it is (reconcileSecret).
Init ==
    /\ spec \in Specs /\ want = Nothing
    /\ \E source \in {Absent, Foreign, [Foreign EXCEPT !.labelled = TRUE]},
          there \in {{}, Keys \ {"source", "dest"}}:
          obj = [k \in Keys |-> IF k = "source" THEN source
                                ELSE IF k \in there THEN Foreign ELSE Absent]
    /\ cache = [k \in Keys |-> Visible(k)]
    /\ installed = TRUE
    /\ queue = TRUE
    /\ pc = "idle" /\ src = 0
    /\ edits = 0 /\ moves = 0 /\ faults = 0

Next ==
    \/ EditAddon \/ ClusterMoves \/ Requeue \/ CallFails
    \/ \E n \in Namespaces: NamespaceGone(n)
    \/ \E k \in Keys: Sync(k)
    \/ Reconcile

Spec ==
    /\ Init /\ [][Next]_vars
    /\ WF_vars(Reconcile)
    /\ \A k \in Keys: WF_vars(Sync(k))
    /\ \A n \in Namespaces: WF_vars(NamespaceGone(n))

-----------------------------------------------------------------------------
(* Properties.                                                             *)

Wanted(w) ==
    {"source"} \cup (IF w.app THEN {"app"} ELSE {})
               \cup (IF w.app /\ w.secrets THEN {"dest"} ELSE {})
               \cup (IF w.federation THEN {"mon", "token", "sm"} ELSE {})

\* No sub-reconciler deletes what another one of the same pass maintains: the
\* namespaces and the Secrets are cleaned up by label (ensureDeletionOfUnwantedNamespaces,
\* cleanupUnknownSecrets), which must not reach the federation's namespace and bearer
\* token while the Addon wants them, nor the source Secret ever.
NoUndoing ==
    [][pc' # pc =>
         \A k \in Wanted(want):
             obj[k] # Absent => /\ obj'[k] # Absent
                                /\ obj'[k].terminating => obj[k].terminating]_vars

\* Once the spec stops changing the listed namespace is there, active and owned, even
\* if it was terminating when it was listed; an unlisted one that the operator has
\* labelled is gone (ensureWantedNamespaces, ensureDeletionOfUnwantedNamespaces).
NamespaceSettles ==
    /\ <>[]spec.app => <>[](Active("app") /\ obj["app"].owned)
    /\ <>[]~spec.app => <>[](obj["app"] = Absent \/ ~obj["app"].labelled)

\* The propagated Secret ends up with the source Secret's content, if the source stops
\* changing: the owner reference that getReferencedSecret adds brings its changes to
\* the Addon. Not claimed for a source that another Addon had labelled, which gets no
\* owner reference.
SecretsPropagated ==
    \A d \in 1..MaxData:
        <>[](/\ spec.app /\ spec.secrets
             /\ obj["source"].data = d /\ obj["source"].owned)
        => <>[](obj["dest"].data = d)

\* Once the spec stops changing, and the sub-reconcilers before it let the pass through,
\* the federation's namespace, bearer token and ServiceMonitor are all there, or all
\* gone (ensureMonitoringFederation, ensureDeletionOfUnwantedMonitoringFederation).
FederationSettles ==
    LET reached == installed /\ (spec.secrets => obj["source"] # Absent) IN
    /\ <>[](reached /\ spec.federation) =>
           <>[](Active("mon") /\ \A k \in {"mon", "token", "sm"}: obj[k].owned)
    /\ <>[](reached /\ ~spec.federation) =>
           <>[](\A k \in {"mon", "token", "sm"}: obj[k] = Absent)

=============================================================================
