--------------------------- MODULE OLMReconciler ---------------------------
(***************************************************************************)
(* How an Addon is installed: the admission webhook that accepts or denies *)
(* what is asked for in .spec.install, the olmReconciler that makes an     *)
(* OperatorGroup, a NetworkPolicy, CatalogSources and a Subscription out   *)
(* of it, and the monitoringStackReconciler, which handles its             *)
(* MonitoringStack in the same manner.                                     *)
(*                                                                         *)
(* An object is known by its namespace and name. content is its spec (and  *)
(* the labels the operator puts on it), reduced to what the Addon decides. *)
(* lag holds the objects of which the informer's copy is not the last      *)
(* version: an update from such a copy is a conflict. due holds those with *)
(* an event still to come that concerns the Addon as their owner.          *)
(***************************************************************************)
EXTENDS Naturals, Sequences, FiniteSets, SequencesExt

CONSTANTS
    Created,         \* the Addon objects that users create, valid or not
    Requests,        \* the Addon objects that updates ask for, valid or not
    Name,            \* .metadata.name of the Addon
    MainCatalog,     \* CatalogSourceName(addon)
    Namespaces, Extras, Images, Channels,
    MaxTroubles,     \* bound: what others do to the objects, and the API calls that fail
                     \* without a conflict
    MaxEvents        \* bound: these and the updates of the Addon together

ASSUME OLMAssumption ==
    /\ MainCatalog # Name
    /\ (Extras \cup {MainCatalog}) \cap {"group", "policy", "subscription", "stack"} = {}
    /\ IsFiniteSet(Extras)
    /\ MaxTroubles \in Nat /\ MaxEvents \in Nat

VARIABLES
    addon,           \* the Addon in the API server
    cluster,         \* the objects in the API server
    cache, lag, due, \* the informers' copies, which are out of date, which the owner hears of
    queue,           \* whether the Addon's key is in the workqueue
    snap,            \* the Addon the running pass works on
    todo,            \* the objects it has still to see to, in order; <<>> when idle
    edits, moves, faults

passVars == <<snap, todo>>
bounds   == <<edits, moves, faults>>
vars     == <<addon, cluster, cache, lag, due, queue, passVars, bounds>>

Room == edits + moves + faults < MaxEvents
Trouble == Room /\ moves + faults < MaxTroubles

-----------------------------------------------------------------------------
(* .spec.install and the webhook.                                          *)

Config ==
    [namespace: Namespaces, image: Images, channel: Channels,
     extras: SUBSET (Extras \cup {Name, MainCatalog})]
Nil == [namespace |-> "", image |-> "", channel |-> "", extras |-> {}]

\* The type, the configuration for each type, the Secrets that are propagated (with
\* "pull" for the pull secret), and whether a MonitoringStack is wanted.
Addon ==
    [type: {"OwnNamespace", "AllNamespaces"}, own: Config \cup {Nil}, all: Config \cup {Nil},
     pullSecret: BOOLEAN, propagated: SUBSET {"pull", "other"}, stack: BOOLEAN]

ASSUME AddonAssumption == Created \subseteq Addon /\ Requests \subseteq Addon

\* The configuration the type points at: Nil where the code stops or dereferences nil.
parseAddonInstallConfig(a) == IF a.type = "OwnNamespace" THEN a.own ELSE a.all

\* A propagation without Secrets stands for none at all.
validateSecretPropagation(a) ==
    a.pullSecret /\ a.propagated # {} => "pull" \in a.propagated

validateInstallSpec(a) ==
    /\ a.all = Nil \/ a.own = Nil
    /\ parseAddonInstallConfig(a) # Nil
    /\ Name \notin parseAddonInstallConfig(a).extras

validateAddon(a) == validateInstallSpec(a) /\ validateSecretPropagation(a)

\* What is left of a configuration when the fields that may change are emptied.
Fixed(c) == c.namespace

\* Mutant: the type alone is compared.
validateTypeImmutability(a, old) == a.type = old.type

validateAddonImmutability(a, old) ==
    /\ a.type = old.type
    /\ Fixed(a.own) = Fixed(old.own)
    /\ Fixed(a.all) = Fixed(old.all)

\* An update that the webhook admits, and its event. The rest is denied.
UpdateAddon ==
    /\ Room
    /\ edits' = edits + 1
    /\ \E a \in Requests \ {addon}:
           /\ validateAddon(a) /\ validateAddonImmutability(a, addon)
           /\ addon' = a
    /\ queue' = TRUE
    /\ UNCHANGED <<cluster, cache, lag, due, passVars, moves, faults>>

-----------------------------------------------------------------------------
(* What an Addon asks for.                                                 *)

Catalogs == Extras \cup {MainCatalog}
Names == {"group", "policy", "subscription", "stack"} \cup Catalogs
Keys == Namespaces \X Names

\* status: of a CatalogSource that it is READY, of a Subscription that it names CSVs, of a
\* MonitoringStack that it is Available. manual: .spec.installPlanApproval is Manual.
Object ==
    [exists: BOOLEAN, owned: BOOLEAN, status: BOOLEAN, manual: BOOLEAN,
     content: SUBSET (Namespaces \cup Images \cup Channels \cup Names \cup {"changed"})]

Absent ==
    [exists |-> FALSE, owned |-> FALSE, status |-> FALSE, manual |-> FALSE, content |-> {}]

CatalogNames(a) == {MainCatalog} \cup parseAddonInstallConfig(a).extras

\* The specs of the objects.
desiredOperatorGroup(a) ==
    IF a.type = "OwnNamespace" THEN {parseAddonInstallConfig(a).namespace} ELSE {}
desiredCatalogSourcesNetworkPolicy(a) == CatalogNames(a)
desiredCatalogSource(a) == {parseAddonInstallConfig(a).image}
desiredSubscription(a) == {parseAddonInstallConfig(a).channel}
getDesiredMonitoringStack(a) == {"stack"}

Desired(a, n) ==
    CASE n = "group" -> desiredOperatorGroup(a)
      [] n = "policy" -> desiredCatalogSourcesNetworkPolicy(a)
      [] n = "subscription" -> desiredSubscription(a)
      [] n = "stack" -> getDesiredMonitoringStack(a)
      [] n = MainCatalog -> desiredCatalogSource(a)
      [] OTHER -> {n}

\* Mutant: the NetworkPolicy comes after the CatalogSources.
PlanLatePolicy(a) ==
    LET c == parseAddonInstallConfig(a)
        names == <<"group", MainCatalog>> \o SetToSeq(c.extras) \o <<"policy", "subscription">>
                    \o (IF a.stack THEN <<"stack">> ELSE <<>>)
    IN  [i \in 1..Len(names) |-> <<c.namespace, names[i]>>]

\* The phases of olmReconciler.Reconcile, then the monitoringStackReconciler.
Plan(a) ==
    LET c == parseAddonInstallConfig(a)
        names == <<"group", "policy", MainCatalog>> \o SetToSeq(c.extras) \o <<"subscription">>
                    \o (IF a.stack THEN <<"stack">> ELSE <<>>)
    IN  [i \in 1..Len(names) |-> <<c.namespace, names[i]>>]

Wanted(a) ==
    {parseAddonInstallConfig(a).namespace} \X
        ({"group", "policy", "subscription"} \cup CatalogNames(a) \cup IF a.stack THEN {"stack"} ELSE {})
Fits(o, a, n) == o.exists /\ o.owned /\ o.content = Desired(a, n)

TypeOK ==
    /\ addon \in Addon /\ snap \in Addon
    /\ cluster \in [Keys -> Object] /\ cache \in [Keys -> Object]
    /\ \A k \in Keys: ~cluster[k].exists => cluster[k] = Absent
    /\ due \subseteq lag /\ lag \subseteq Keys /\ (\A k \in Keys \ lag: cache[k] = cluster[k])
    /\ queue \in BOOLEAN
    /\ todo \in Seq(Keys)
    /\ edits \in Nat /\ moves \in Nat /\ faults \in Nat
    /\ edits + moves + faults <= MaxEvents /\ moves + faults <= MaxTroubles

-----------------------------------------------------------------------------
(* The cluster: OLM, the observability operator, and others.               *)

\* Mutant: the cached copy counts as current after a write.
WriteThrough(k, o) == cluster' = [cluster EXCEPT ![k] = o] /\ UNCHANGED <<lag, due>>

Write(k, o) ==
    /\ cluster' = [cluster EXCEPT ![k] = o]
    /\ IF o = cluster[k]
       THEN UNCHANGED <<lag, due>>
       ELSE /\ lag' = lag \cup {k}
            /\ due' = due \cup {j \in {k}: cluster[j].owned \/ o.owned}

\* Whether OLM reaches the CatalogSource k.
Reachable(k) == k[2] \in cluster[<<k[1], "policy">>].content

\* What becomes of the status of k: a CatalogSource is READY as long as the NetworkPolicy
\* lets OLM in, a Subscription gets its CSVs from a CatalogSource that is.
StatusOf(k) ==
    IF k[2] \in Catalogs THEN Reachable(k)
    ELSE IF k[2] = "subscription" THEN cluster[k].status \/ cluster[<<k[1], MainCatalog>>].status
    ELSE TRUE

StatusMoves(k) ==
    /\ cluster[k].exists /\ k[2] \in Catalogs \cup {"subscription", "stack"}
    /\ cluster[k].status # StatusOf(k)
    /\ Write(k, [cluster[k] EXCEPT !.status = StatusOf(k)])
    /\ UNCHANGED <<addon, cache, queue, passVars, bounds>>

\* Someone deletes or changes an object, or makes one of that name; the addon's operator
\* takes control of its upgrades.
OthersMove(k) ==
    /\ Trouble
    /\ moves' = moves + 1
    /\ \/ cluster[k].exists /\ Write(k, Absent)
       \/ cluster[k].exists /\ Write(k, [cluster[k] EXCEPT !.content = {"changed"}])
       \/ ~cluster[k].exists /\ Write(k, [Absent EXCEPT !.exists = TRUE, !.content = {"changed"}])
       \/ /\ k[2] = "subscription" /\ cluster[k].exists
          /\ Write(k, [cluster[k] EXCEPT !.manual = TRUE])
    /\ UNCHANGED <<addon, cache, queue, passVars, edits, faults>>

\* A watch delivers all that happened to k; Owns() maps the owners before and after each
\* change to the Addon's key. NetworkPolicies are not watched.
Sync(k) ==
    /\ lag' = lag \ {k} /\ due' = due \ {k}
    /\ cache' = [cache EXCEPT ![k] = cluster[k]]
    /\ queue' = (queue \/ (k[2] # "policy" /\ k \in due))
    /\ UNCHANGED <<addon, cluster, passVars, bounds>>

-----------------------------------------------------------------------------
(* The pass.                                                               *)

Begin ==
    /\ todo = <<>> /\ queue
    /\ queue' = FALSE
    /\ snap' = addon
    /\ todo' = Plan(addon)
    /\ UNCHANGED <<addon, cluster, cache, lag, due, bounds>>

\* Mutant: the desired spec is written as it is built.
UpdatedAnew(o, n) ==
    [o EXCEPT !.content = Desired(snap, n), !.owned = TRUE, !.manual = FALSE]

\* The object in hand with the desired spec and owner; a Subscription keeps its
\* installPlanApproval.
Updated(o, n) == [o EXCEPT !.content = Desired(snap, n), !.owned = TRUE]

\* The status of a MonitoringStack is known when it says Available.
propagateMonitoringStackStatusToAddon(k) == cache[k].status

\* What ends a pass early: a CatalogSource or Subscription that was just created or is
\* not ready (resultRetry), a MonitoringStack that is not available (resultRequeue).
Unready(k) ==
    \/ k[2] \in Catalogs \cup {"subscription"} /\ ~cache[k].status
    \/ k[2] = "stack" /\ ~propagateMonitoringStackStatusToAddon(k)


Proceed(k) ==
    IF Unready(k) THEN todo' = <<>> /\ queue' = TRUE
                  ELSE todo' = Tail(todo) /\ UNCHANGED queue

\* An error brings the key back.
Fail ==
    /\ todo' = <<>> /\ queue' = TRUE
    /\ UNCHANGED <<cluster, lag, due>>

\* What the phases have in common, for the next object if its name is in names: get it
\* from the cache; create, update if spec or owner differ, or leave.
reconcileObject(names) ==
    LET k == Head(todo)
        new == [Absent EXCEPT !.exists = TRUE, !.owned = TRUE, !.content = Desired(snap, k[2])]
    IN
    /\ todo # <<>> /\ k[2] \in names
    /\ \/ /\ ~cache[k].exists
          /\ IF cluster[k].exists THEN Fail ELSE Write(k, new) /\ Proceed(k)
       \/ /\ cache[k].exists /\ ~Fits(cache[k], snap, k[2])
          /\ IF k \in lag THEN Fail ELSE Write(k, Updated(cache[k], k[2])) /\ Proceed(k)
       \/ /\ Fits(cache[k], snap, k[2])
          /\ Proceed(k) /\ UNCHANGED <<cluster, lag, due>>
    /\ UNCHANGED <<addon, cache, snap, bounds>>

ensureOperatorGroup == reconcileObject({"group"})
ensureCatalogSourcesNetworkPolicy == reconcileObject({"policy"})
ensureCatalogSource == reconcileObject({MainCatalog})
ensureAdditionalCatalogSources == reconcileObject(Extras)
ensureSubscription == reconcileObject({"subscription"})
ensureMonitoringStack == reconcileObject({"stack"})

CallFails ==
    /\ todo # <<>>
    /\ Trouble
    /\ faults' = faults + 1
    /\ Fail
    /\ UNCHANGED <<addon, cache, snap, edits, moves>>

-----------------------------------------------------------------------------
\* What an earlier process of the operator leaves when its work on a is done.
Installed(a) ==
    [k \in Keys |-> IF k \in Wanted(a)
        THEN [exists |-> TRUE, owned |-> TRUE, content |-> Desired(a, k[2]), manual |-> FALSE,
              status |-> k[2] \notin {"group", "policy"}]
        ELSE Absent]

\* The operator starts, for an Addon that is new or that is installed.
Init ==
    /\ addon \in {a \in Created: validateAddon(a)}
    /\ snap = addon
    /\ cluster \in {[k \in Keys |-> Absent], Installed(addon)}
    /\ cache = cluster /\ lag = {} /\ due = {}
    /\ queue = TRUE /\ todo = <<>>
    /\ edits = 0 /\ moves = 0 /\ faults = 0

Worker ==
    \/ Begin
    \/ ensureOperatorGroup \/ ensureCatalogSourcesNetworkPolicy
    \/ ensureCatalogSource \/ ensureAdditionalCatalogSources
    \/ ensureSubscription \/ ensureMonitoringStack

Next ==
    \/ UpdateAddon
    \/ \E k \in Wanted(addon): OthersMove(k)
    \/ \E k \in Keys: StatusMoves(k)
    \/ \E k \in lag: Sync(k)
    \/ Worker \/ CallFails

Spec == Init /\ [][Next]_vars

\* The worker serves its key, the watches deliver, the other operators do their part.
Fairness ==
    /\ WF_vars(Worker)
    /\ WF_vars(\E k \in lag: Sync(k)) /\ WF_vars(\E k \in Keys: StatusMoves(k))

FairSpec == Spec /\ Fairness

-----------------------------------------------------------------------------
(* Properties.                                                             *)

\* An Addon's objects have one home: through every update the webhook admits, what the
\* operator made lies in the namespace the Addon names, and the configuration for its
\* type is there, so that no phase stops or dereferences nil.
OneHome ==
    /\ parseAddonInstallConfig(addon) # Nil
    /\ \A k \in Keys: cluster[k].owned => k[1] = parseAddonInstallConfig(addon).namespace

\* A Subscription that was set to Manual stays so while it exists, although the operator
\* builds its desired spec anew on a cached copy ("ATTENTION: When reconciling the
\* subscription, we need to make sure to keep the current value of this field").
ApprovalKept ==
    [][\A k \in Keys: cluster[k].manual /\ cluster'[k].exists => cluster'[k].manual]_vars

\* No CatalogSource is made before its NetworkPolicy ("This Phase must preempt
\* CatalogSource reconciliation"), through changes of the Addon during a pass, failed
\* calls and stale caches, as long as nobody else touches the objects: a policy is there,
\* and it lets OLM reach the main CatalogSource. It lists an additional one too if the
\* Addon changed at most once: one that is dropped and asked for again while the informer
\* of the policy lags comes first.
PolicyFirst ==
    [][\A k \in Keys:
          k[2] \in Catalogs /\ ~cluster[k].exists /\ cluster'[k].exists /\ moves' = 0 =>
              /\ cluster[<<k[1], "policy">>].exists
              /\ k[2] = MainCatalog \/ edits <= 1 => Reachable(k)]_vars

\* The main CatalogSource is also one of the additional ones.
Collides(a) == MainCatalog \in parseAddonInstallConfig(a).extras

\* What an Addon is promised of its objects. One with two CatalogSources of one name is
\* excepted.
Settled ==
    \/ Collides(addon)
    \/ \A k \in Wanted(addon):
          /\ k[2] # "policy" => Fits(cluster[k], addon, k[2])
          /\ k[2] \in Catalogs => cluster[k].status /\ Reachable(k)

=============================================================================
