----------------------- MODULE OperatorResourceHandler -----------------------
(***************************************************************************)
(* The OperatorResourceHandler, which turns events on OLM's Operator       *)
(* objects into requests for the Addon they belong to, with the two sides  *)
(* that call it: the watch (enqueueObject) and the Addon controller's      *)
(* worker (UpdateMap in observeOperatorResource, Free in                   *)
(* handleAddonCRDeletion).                                                 *)
(*                                                                         *)
(* An Addon's operator key is made of its package name and namespace,      *)
(* which are immutable; a namespace has one owning Addon, so two Addons    *)
(* that exist never have the same key.                                     *)
(***************************************************************************)
EXTENDS Naturals, FiniteSets

CONSTANTS
    Addons,            \* names of Addon objects
    OperatorKeys,      \* names of Operator objects
    NoAddon, NoKey,    \* no such Addon, no such key
    MaxChanges,        \* bound: changes of one Operator object
    MaxRestarts        \* bound: restarts of the operator's process

ASSUME HandlerAssumption ==
    /\ NoAddon \notin Addons
    /\ NoKey \notin OperatorKeys
    /\ MaxChanges \in Nat
    /\ MaxRestarts \in Nat

VARIABLES
    addonKeytoOperatorKeys,  \* the handler's map from Addon to its Operators
    operatorKeyToAddon,      \* and the one back
    life,                    \* "absent", "live" or "deleting", for each Addon
    key,                     \* the operator key in its spec
    operator,                \* how often each Operator object has changed
    events,                  \* Operator objects with an undelivered watch event
    workqueue,               \* the Addon workqueue
    cur,                     \* the Addon in the worker's hands after UpdateMap
    observed,                \* the state of its Operator each Addon has acted on
    restarts

maps == <<addonKeytoOperatorKeys, operatorKeyToAddon>>
handlerVars == <<maps, life, key, operator, events, workqueue, cur, observed, restarts>>

HandlerTypeOK ==
    /\ addonKeytoOperatorKeys \in [Addons -> SUBSET OperatorKeys]
    /\ operatorKeyToAddon \in [OperatorKeys -> Addons \cup {NoAddon}]
    /\ life \in [Addons -> {"absent", "live", "deleting"}]
    /\ key \in [Addons -> OperatorKeys \cup {NoKey}]
    /\ operator \in [OperatorKeys -> 0..MaxChanges]
    /\ events \in SUBSET OperatorKeys
    /\ workqueue \in SUBSET Addons
    /\ cur \in Addons \cup {NoAddon}
    /\ observed \in [Addons -> 0..MaxChanges]
    /\ restarts \in 0..MaxRestarts

HandlerInit ==
    /\ addonKeytoOperatorKeys = [a \in Addons |-> {}]
    /\ operatorKeyToAddon = [k \in OperatorKeys |-> NoAddon]
    /\ life = [a \in Addons |-> "absent"]
    /\ key = [a \in Addons |-> NoKey]
    /\ operator = [k \in OperatorKeys |-> 0]
    /\ events = {}
    /\ workqueue = {}
    /\ cur = NoAddon
    /\ observed = [a \in Addons |-> 0]
    /\ restarts = 0

-----------------------------------------------------------------------------
(* The cluster.                                                            *)

CreateAddon(a) ==
    /\ life[a] = "absent"
    /\ \E k \in OperatorKeys \ {key[b]: b \in Addons}: key' = [key EXCEPT ![a] = k]
    /\ life' = [life EXCEPT ![a] = "live"]
    /\ observed' = [observed EXCEPT ![a] = 0]
    /\ workqueue' = workqueue \cup {a}
    /\ UNCHANGED <<maps, operator, events, cur, restarts>>

DeleteAddon(a) ==
    /\ life[a] = "live"
    /\ life' = [life EXCEPT ![a] = "deleting"]
    /\ workqueue' = workqueue \cup {a}
    /\ UNCHANGED <<maps, key, operator, events, cur, observed, restarts>>

\* OLM changes an Operator object; the watch folds changes of one object.
OperatorChanges(k) ==
    /\ operator[k] < MaxChanges
    /\ operator' = [operator EXCEPT ![k] = @ + 1]
    /\ events' = events \cup {k}
    /\ UNCHANGED <<maps, life, key, workqueue, cur, observed, restarts>>

\* A new process has empty maps, and every Addon in its queue.
Restart ==
    /\ restarts < MaxRestarts
    /\ restarts' = restarts + 1
    /\ addonKeytoOperatorKeys' = [a \in Addons |-> {}]
    /\ operatorKeyToAddon' = [k \in OperatorKeys |-> NoAddon]
    /\ events' = {}
    /\ workqueue' = {a \in Addons: life[a] # "absent"}
    /\ cur' = NoAddon
    /\ UNCHANGED <<life, key, operator, observed>>

-----------------------------------------------------------------------------
(* The handler.                                                            *)

\* Mutant: the outcome of the lookup is ignored.
enqueueUnknown(k) ==
    /\ k \in events
    /\ events' = events \ {k}
    /\ workqueue' = workqueue \cup {operatorKeyToAddon[k]}
    /\ UNCHANGED <<maps, life, key, operator, cur, observed, restarts>>

enqueueObject(k) ==
    /\ k \in events
    /\ events' = events \ {k}
    /\ workqueue' = workqueue \cup ({operatorKeyToAddon[k]} \ {NoAddon})
    /\ UNCHANGED <<maps, life, key, operator, cur, observed, restarts>>

\* Mutant: the way back is left in place.
FreeForward(a) ==
    /\ addonKeytoOperatorKeys' = [addonKeytoOperatorKeys EXCEPT ![a] = {}]
    /\ UNCHANGED operatorKeyToAddon

Free(a) ==
    /\ operatorKeyToAddon' =
           [k \in OperatorKeys |-> IF k \in addonKeytoOperatorKeys[a]
                                   THEN NoAddon ELSE operatorKeyToAddon[k]]
    /\ addonKeytoOperatorKeys' = [addonKeytoOperatorKeys EXCEPT ![a] = {}]

UpdateMap(a, k) ==
    /\ addonKeytoOperatorKeys' = [addonKeytoOperatorKeys EXCEPT ![a] = @ \cup {k}]
    /\ operatorKeyToAddon' = [operatorKeyToAddon EXCEPT ![k] = a]

\* What UpdateMap(a, k) returns.
changed(a, k) ==
    \/ k \notin addonKeytoOperatorKeys[a]
    \/ operatorKeyToAddon[k] # a

-----------------------------------------------------------------------------
(* The worker, as far as it calls the handler.                             *)

\* Mutant: the Operator is read, and no mapping is recorded.
observeWithoutMapping(a) ==
    /\ cur = NoAddon
    /\ a \in workqueue
    /\ life[a] = "live"
    /\ workqueue' = workqueue \ {a}
    /\ cur' = a
    /\ UNCHANGED <<maps, life, key, operator, events, observed, restarts>>

\* A changed mapping sends the Addon back to the queue.
observeOperatorResource(a) ==
    /\ cur = NoAddon
    /\ a \in workqueue
    /\ life[a] = "live"
    /\ UpdateMap(a, key[a])
    /\ IF changed(a, key[a])
       THEN UNCHANGED <<workqueue, cur>>
       ELSE /\ workqueue' = workqueue \ {a}
            /\ cur' = a
    /\ UNCHANGED <<life, key, operator, events, observed, restarts>>

\* The uncached read of the Operator, and the rest of the pass.
getOperator ==
    /\ cur # NoAddon
    /\ observed' = [observed EXCEPT ![cur] = operator[key[cur]]]
    /\ cur' = NoAddon
    /\ UNCHANGED <<maps, life, key, operator, events, workqueue, restarts>>

\* Free, then the removal of the finalizer.  The key comes back either way: with the
\* event of the removed object, or because the removal failed.
handleAddonCRDeletion(a) ==
    /\ cur = NoAddon
    /\ a \in workqueue
    /\ life[a] = "deleting"
    /\ Free(a)
    /\ \/ /\ life' = [life EXCEPT ![a] = "absent"]
          /\ key' = [key EXCEPT ![a] = NoKey]
       \/ UNCHANGED <<life, key>>
    /\ UNCHANGED <<operator, events, workqueue, cur, observed, restarts>>

\* The Addon is not found.
GetNotFound(a) ==
    /\ cur = NoAddon
    /\ a \in workqueue
    /\ life[a] = "absent"
    /\ workqueue' = workqueue \ {a}
    /\ UNCHANGED <<maps, life, key, operator, events, cur, observed, restarts>>

Worker(a) == observeOperatorResource(a) \/ handleAddonCRDeletion(a) \/ GetNotFound(a)

HandlerNext ==
    \/ \E a \in Addons: CreateAddon(a) \/ DeleteAddon(a) \/ Worker(a)
    \/ \E k \in OperatorKeys: OperatorChanges(k) \/ enqueueObject(k)
    \/ getOperator
    \/ Restart

HandlerSpec == HandlerInit /\ [][HandlerNext]_handlerVars

\* The watch delivers what it holds and the workqueue serves every key.
Fairness ==
    /\ \A a \in Addons: SF_handlerVars(Worker(a))
    /\ \A k \in OperatorKeys: WF_handlerVars(enqueueObject(k))
    /\ WF_handlerVars(getOperator)

FairSpec == HandlerSpec /\ Fairness

-----------------------------------------------------------------------------
(* Properties.                                                             *)

\* The two maps are each other's inverse and hold existing Addons only: Free
\* leaves nothing behind, UpdateMap never lets one side run ahead of the other.
MapsInverse ==
    \A k \in OperatorKeys, a \in Addons:
        /\ operatorKeyToAddon[k] = a <=> k \in addonKeytoOperatorKeys[a]
        /\ operatorKeyToAddon[k] = a => life[a] # "absent" /\ key[a] = k

\* No change of an Operator is missed: an Addon comes to act on the last state
\* of its Operator, although events before UpdateMap's mapping are dropped.
ChangesObserved ==
    \A a \in Addons:
        [](life[a] = "live" => <>(life[a] # "live" \/ observed[a] = operator[key[a]]))
==============================================================================
