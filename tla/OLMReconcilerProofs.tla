------------------------ MODULE OLMReconcilerProofs ------------------------
(***************************************************************************)
(* For any finite set of additional CatalogSources and any sets of         *)
(* namespaces, images, channels, requests, updates and troubles: what the  *)
(* operator makes of an Addon stays in one namespace, a Subscription's     *)
(* Manual approval is kept, no CatalogSource is made before the            *)
(* NetworkPolicy that lets it be reached, and the operator does not rest   *)
(* before the objects it watches are as the Addon asks and every           *)
(* CatalogSource can be reached.                                           *)
(***************************************************************************)
EXTENDS OLMReconciler, FiniteSetTheorems, SequenceTheorems, TLAPS

Home(a) == parseAddonInstallConfig(a).namespace
Content == Namespaces \cup Images \cup Channels \cup Names \cup {"changed"}

\* The Addon and the one the pass works on are valid and name the same namespace, which
\* is that of all the pass has still to do.
OneAddon ==
    /\ validateInstallSpec(addon) /\ validateInstallSpec(snap)
    /\ Home(snap) = Home(addon)
    /\ todo \in Seq({Home(addon)} \X Names)

\* The type invariant in parts: the Addons, the objects, and the bounds.
Addons == addon \in Addon /\ snap \in Addon /\ queue \in BOOLEAN
Objects ==
    /\ cluster \in [Keys -> Object] /\ cache \in [Keys -> Object]
    /\ \A k \in Keys: ~cluster[k].exists => cluster[k] = Absent
    /\ due \subseteq lag /\ lag \subseteq Keys /\ (\A k \in Keys \ lag: cache[k] = cluster[k])
Bounds ==
    /\ edits \in Nat /\ moves \in Nat /\ faults \in Nat
    /\ edits + moves + faults <= MaxEvents /\ moves + faults <= MaxTroubles

\* Where the objects are that the operator owns.
Housed == \A k \in Keys: cluster[k].owned => k[1] = Home(addon)

\* The NetworkPolicy of the Addon's CatalogSources.
Policy == <<Home(addon), "policy">>

\* The NetworkPolicy is the second thing a pass sees to, after the OperatorGroup; the
\* CatalogSources are those of the Addon the pass works on.
InOrder ==
    \A i \in 1..Len(todo):
        /\ todo[i][2] = "policy" => i = 1 \/ (i = 2 /\ todo[1][2] = "group")
        /\ todo[i][2] \in Catalogs => todo[i][2] \in CatalogNames(snap)

\* The pass is beyond the NetworkPolicy.
Past == todo # <<>> /\ \A i \in 1..Len(todo): todo[i][2] # "policy"

\* As long as nobody else touches the objects: no NetworkPolicy goes, each lets OLM reach
\* the main CatalogSource, and it is there when the pass is beyond it.
Untouched ==
    /\ cache[Policy].exists => cluster[Policy].exists
    /\ cluster[Policy].exists => MainCatalog \in cluster[Policy].content
    /\ Past => cluster[Policy].exists

\* And if the Addon changed once at most: the NetworkPolicy is that of the Addon before the
\* change until a pass on the Addon after it writes another. So a copy that lists what the
\* pass wants is not an older one of the same content.
OnceEdited ==
    /\ edits = 0 => snap = addon
    /\ edits = 0 \/ snap # addon =>
          /\ cluster[Policy].exists => cluster[Policy].content = CatalogNames(snap)
          /\ cache[Policy].exists => cache[Policy].content = CatalogNames(snap)
    /\ cache[Policy].exists /\ cache[Policy].content = CatalogNames(snap) =>
          cluster[Policy].content = CatalogNames(snap)
    /\ Past => cluster[Policy].content = CatalogNames(snap)

PolicyInv == /\ InOrder
             /\ moves = 0 => Untouched
             /\ moves = 0 /\ edits <= 1 => OnceEdited

IInv == Addons /\ Objects /\ Bounds /\ OneAddon /\ Housed

\* What ApprovalKept asks of a step.
Approves == \A k \in Keys: cluster[k].manual /\ cluster'[k].exists => cluster'[k].manual

Good == IInv' /\ Approves

-----------------------------------------------------------------------------
(* Addons and what they ask for.                                           *)

\* A valid Addon has a configuration, and none of its CatalogSources has its name.
LEMMA ValidConfig ==
    ASSUME NEW a \in Addon, validateInstallSpec(a)
    PROVE  LET c == parseAddonInstallConfig(a)
           IN  /\ c \in Config /\ c.namespace \in Namespaces /\ c.image \in Images
               /\ c.channel \in Channels
               /\ c.extras \subseteq Catalogs
<1>1. parseAddonInstallConfig(a) \in Config
  BY DEF Addon, parseAddonInstallConfig, validateInstallSpec
<1>2. Name \notin parseAddonInstallConfig(a).extras
  BY DEF validateInstallSpec
<1> QED
  BY <1>1, <1>2 DEF Config, Catalogs

\* The specs of the objects are contents.
LEMMA DesiredType ==
    ASSUME NEW a \in Addon, validateInstallSpec(a), NEW n \in Names
    PROVE  Desired(a, n) \subseteq Content
<1> DEFINE c == parseAddonInstallConfig(a)
<1>1. /\ c.namespace \in Namespaces /\ c.image \in Images /\ c.channel \in Channels
      /\ c.extras \subseteq Catalogs
  BY ValidConfig
<1>2. Catalogs \subseteq Names /\ MainCatalog \in Catalogs /\ "stack" \in Names
  BY DEF Names, Catalogs
<1>3. /\ desiredOperatorGroup(a) \subseteq Content /\ desiredCatalogSource(a) \subseteq Content
      /\ desiredCatalogSourcesNetworkPolicy(a) \subseteq Content
      /\ desiredSubscription(a) \subseteq Content /\ getDesiredMonitoringStack(a) \subseteq Content
      /\ {n} \subseteq Content
  BY <1>1, <1>2 DEF desiredOperatorGroup, desiredCatalogSourcesNetworkPolicy, CatalogNames,
                    desiredCatalogSource, desiredSubscription, getDesiredMonitoringStack, Content
<1> QED
  BY <1>3 DEF Desired

\* A finite set in some order.
LEMMA SetToSeqType ==
    ASSUME NEW S, IsFiniteSet(S) PROVE SetToSeq(S) \in Seq(S)
<1>1. Cardinality(S) \in Nat /\ ExistsBijection(1..Cardinality(S), S)
  BY FS_CardinalityType
<1>2. \E f \in [1..Cardinality(S) -> S]: IsInjective(f)
  BY <1>1 DEF ExistsBijection, Bijection, Injection
<1>3. SetToSeq(S) \in [1..Cardinality(S) -> S]
  BY <1>2 DEF SetToSeq
<1> QED
  BY <1>1, <1>3

\* The phases of a pass over a valid Addon are about objects in its namespace.
LEMMA PlanType ==
    ASSUME NEW a \in Addon, validateInstallSpec(a)
    PROVE  Plan(a) \in Seq({Home(a)} \X Names)
<1> DEFINE c == parseAddonInstallConfig(a)
           first == <<"group", "policy", MainCatalog>>
           last == IF a.stack THEN <<"stack">> ELSE <<>>
           names == first \o SetToSeq(c.extras) \o <<"subscription">> \o last
<1>1. c.extras \subseteq Catalogs
  BY ValidConfig
<1>2. IsFiniteSet(Catalogs)
  BY OLMAssumption, FS_AddElement DEF Catalogs
<1>3. IsFiniteSet(c.extras)
  BY <1>1, <1>2, FS_Subset
<1>4. SetToSeq(c.extras) \in Seq(c.extras)
  BY <1>3, SetToSeqType
<1>5. SetToSeq(c.extras) \in Seq(Names)
  <2>1. c.extras \subseteq Names
    BY <1>1 DEF Names
  <2> QED
    BY <1>4, <2>1
<1>6. first \in Seq(Names) /\ last \in Seq(Names) /\ <<"subscription">> \in Seq(Names)
  <2>1. {"group", "policy", MainCatalog, "subscription", "stack"} \subseteq Names
    BY DEF Names, Catalogs
  <2>2. first \in Seq(Names)
    BY <2>1
  <2>3. <<"stack">> \in Seq(Names) /\ <<"subscription">> \in Seq(Names) /\ <<>> \in Seq(Names)
    BY <2>1
  <2> QED
    BY <2>2, <2>3
<1> HIDE DEF first, last
<1>7. names \in Seq(Names)
  BY <1>5, <1>6
<1> HIDE DEF names
<1>8. [i \in 1..Len(names) |-> <<c.namespace, names[i]>>] \in Seq({c.namespace} \X Names)
  BY <1>7
<1> QED
  BY <1>8 DEF Plan, Home, names, first, last

\* What an Addon asks for has keys in its namespace.
LEMMA WantedType ==
    ASSUME NEW a \in Addon, validateInstallSpec(a)
    PROVE  Home(a) \in Namespaces /\ Wanted(a) \subseteq {Home(a)} \X Names /\ Wanted(a) \subseteq Keys
<1>1. Home(a) \in Namespaces /\ parseAddonInstallConfig(a).extras \subseteq Catalogs
  BY ValidConfig DEF Home
<1>2. CatalogNames(a) \subseteq Names
  BY <1>1 DEF CatalogNames, Names, Catalogs
<1>3. {"group", "policy", "subscription"} \cup CatalogNames(a)
        \cup (IF a.stack THEN {"stack"} ELSE {}) \subseteq Names
  BY <1>2 DEF Names
<1> QED
  BY <1>1, <1>3 DEF Wanted, Home, Keys

-----------------------------------------------------------------------------
(* Writes.                                                                 *)

\* A write of an object that lies at home if it is owned, and that keeps the approval.
LEMMA WriteKeeps ==
    ASSUME Objects, Housed, NEW k \in Keys, NEW o \in Object, Write(k, o),
           UNCHANGED cache, ~o.exists => o = Absent, o.owned => k[1] = Home(addon),
           cluster[k].manual /\ o.exists => o.manual
    PROVE  /\ Objects' /\ Approves
           /\ \A j \in Keys: cluster'[j].owned => j[1] = Home(addon)
<1>1. cluster' = [cluster EXCEPT ![k] = o] /\ cluster \in [Keys -> Object]
  BY DEF Write, Objects
<1>2. cluster'[k] = o /\ \A j \in Keys \ {k}: cluster'[j] = cluster[j]
  BY <1>1
<1>3. cluster' \in [Keys -> Object]
  BY <1>1
<1>4. \A j \in Keys: ~cluster'[j].exists => cluster'[j] = Absent
  BY <1>2 DEF Objects
<1>5. due' \subseteq lag' /\ lag' \subseteq Keys /\ \A j \in Keys \ lag': cache'[j] = cluster'[j]
  <2>1. CASE o = cluster[k]
    BY <2>1, <1>2 DEF Write, Objects
  <2>2. CASE o # cluster[k]
    BY <2>2, <1>2 DEF Write, Objects
  <2> QED
    BY <2>1, <2>2
<1>6. Objects'
  BY <1>3, <1>4, <1>5 DEF Objects
<1>7. \A j \in Keys: cluster'[j].owned => j[1] = Home(addon)
  BY <1>2 DEF Housed
<1>8. Approves
  <2>1. ASSUME NEW j \in Keys, cluster[j].manual, cluster'[j].exists PROVE cluster'[j].manual
    BY <2>1, <1>2
  <2> QED
    BY <2>1 DEF Approves
<1> QED
  BY <1>6, <1>7, <1>8

\* A step that leaves the objects alone.
LEMMA NoWrite ==
    ASSUME Objects, Housed, UNCHANGED <<cluster, cache, lag, due>>
    PROVE  /\ Objects' /\ Approves
           /\ \A j \in Keys: cluster'[j].owned => j[1] = Home(addon)
BY DEF Objects, Housed, Approves

\* One phase, whatever names it is about.
LEMMA PhaseKeeps ==
    ASSUME IInv, NEW names, reconcileObject(names) PROVE Good
<1> DEFINE k == Head(todo)
           d == Desired(snap, k[2])
           new == [Absent EXCEPT !.exists = TRUE, !.owned = TRUE, !.content = d]
<1>1. todo # <<>> /\ UNCHANGED <<addon, cache, snap, bounds>>
  BY DEF reconcileObject
<1>2. k \in {Home(addon)} \X Names /\ Tail(todo) \in Seq({Home(addon)} \X Names)
  BY <1>1 DEF IInv, OneAddon
<1>3. k \in Keys /\ k[1] = Home(addon) /\ k[2] \in Names
  <2>1. Home(addon) \in Namespaces
    BY WantedType DEF IInv, Addons, OneAddon
  <2> QED
    BY <1>2, <2>1 DEF Keys
<1>4. d \subseteq Content
  BY <1>3, DesiredType DEF IInv, Addons, OneAddon
<1>5. cluster[k] \in Object /\ cache[k] \in Object
  BY <1>3 DEF IInv, Objects
<1>6. todo' \in Seq({Home(addon)} \X Names) /\ queue' \in BOOLEAN
  <2>1. \/ todo' = <<>> /\ queue' = TRUE
        \/ todo' = Tail(todo) /\ queue' = queue
    BY DEF reconcileObject, Fail, Proceed
  <2>2. todo' \in Seq({Home(addon)} \X Names)
    <3>1. todo' = <<>> \/ todo' = Tail(todo)
      BY <2>1
    <3>2. <<>> \in Seq({Home(addon)} \X Names)
      BY EmptySeq, Zenon
    <3> QED
      BY <1>2, <3>1, <3>2, Zenon
  <2>3. queue' \in BOOLEAN
    BY <2>1 DEF IInv, Addons
  <2> QED
    BY <2>2, <2>3
<1>7. /\ Objects' /\ Approves
      /\ \A j \in Keys: cluster'[j].owned => j[1] = Home(addon)
  <2>1. \/ UNCHANGED <<cluster, lag, due>>
        \/ ~cluster[k].exists /\ Write(k, new)
        \/ cache[k].exists /\ k \notin lag /\ Write(k, Updated(cache[k], k[2]))
    BY DEF reconcileObject, Fail
  <2>2. CASE UNCHANGED <<cluster, lag, due>>
    BY <1>1, <2>2, NoWrite DEF IInv
  <2>3. CASE ~cluster[k].exists /\ Write(k, new)
    <3> HIDE DEF d
    <3>1. d \in SUBSET (Namespaces \cup Images \cup Channels \cup Names \cup {"changed"})
      BY <1>4 DEF Content
    <3>2. new \in Object /\ new.exists
      BY <3>1 DEF Object, Absent
    <3>3. ~cluster[k].manual
      <4>1. cluster[k] = Absent
        BY <1>3, <2>3 DEF IInv, Objects
      <4> QED
        BY <4>1 DEF Absent
    <3> HIDE DEF new, k
    <3> QED
      BY <1>1, <1>3, <2>3, <3>2, <3>3, WriteKeeps DEF IInv
  <2>4. CASE cache[k].exists /\ k \notin lag /\ Write(k, Updated(cache[k], k[2]))
    <3> DEFINE o == Updated(cache[k], k[2])
    <3>1. cache[k] = cluster[k]
      BY <1>3, <2>4 DEF IInv, Objects
    <3>2. /\ o \in Object /\ o.exists = cache[k].exists /\ o.manual = cache[k].manual
      BY <1>4, <1>5 DEF Updated, Object, Content
    <3>3. o.exists /\ (cluster[k].manual => o.manual)
      BY <2>4, <3>1, <3>2
    <3> HIDE DEF o, k
    <3>4. Write(k, o)
      BY <2>4 DEF o
    <3> QED
      BY <1>1, <1>3, <3>2, <3>3, <3>4, WriteKeeps DEF IInv
  <2> QED
    BY <2>1, <2>2, <2>3, <2>4
<1> HIDE DEF k, d, new
<1>8. Home(addon)' = Home(addon) /\ Home(snap)' = Home(snap)
  BY <1>1 DEF Home, parseAddonInstallConfig
<1>9. Addons' /\ OneAddon'
  BY <1>1, <1>6, <1>8 DEF IInv, Addons, OneAddon, validateInstallSpec, parseAddonInstallConfig
<1>10. Bounds'
  BY <1>1 DEF IInv, Bounds, bounds
<1>11. Housed'
  BY <1>7, <1>8 DEF Housed
<1> QED
  BY <1>7, <1>9, <1>10, <1>11 DEF Good, IInv

-----------------------------------------------------------------------------
(* The invariant.                                                          *)

LEMMA Initially == Init => IInv
<1> SUFFICES ASSUME Init PROVE IInv
  OBVIOUS
<1>1. addon \in Addon /\ validateInstallSpec(addon) /\ snap = addon
  BY AddonAssumption DEF Init, validateAddon
<1>2. Addons
  BY <1>1 DEF Init, Addons
<1>3. OneAddon
  <2>1. todo \in Seq({Home(addon)} \X Names)
    BY EmptySeq, Zenon DEF Init
  <2> QED
    BY <1>1, <2>1 DEF OneAddon
<1>4. Bounds
  BY OLMAssumption DEF Init, Bounds
<1>5. Absent \in Object /\ ~Absent.owned /\ ~Absent.exists
  BY DEF Absent, Object
<1>6. /\ cluster \in [Keys -> Object]
      /\ \A k \in Keys: /\ ~cluster[k].exists => cluster[k] = Absent
                        /\ cluster[k].owned => k[1] = Home(addon)
  <2>1. CASE cluster = [k \in Keys |-> Absent]
    BY <1>5, <2>1
  <2>2. CASE cluster = Installed(addon)
    <3>1. ASSUME NEW k \in Keys
          PROVE  /\ Installed(addon)[k] \in Object
                 /\ ~Installed(addon)[k].exists => Installed(addon)[k] = Absent
                 /\ Installed(addon)[k].owned => k[1] = Home(addon)
      <4>1. CASE k \in Wanted(addon)
        <5> DEFINE d == Desired(addon, k[2])
                   b == k[2] \notin {"group", "policy"}
                   o == [exists |-> TRUE, owned |-> TRUE, content |-> d, manual |-> FALSE,
                         status |-> b]
        <5>1. k[1] = Home(addon) /\ k[2] \in Names
          BY <4>1, <1>1, WantedType
        <5>2. d \in SUBSET (Namespaces \cup Images \cup Channels \cup Names \cup {"changed"})
          BY <1>1, <5>1, DesiredType DEF Content
        <5>3. Installed(addon)[k] = o
          BY <4>1 DEF Installed
        <5>4. b \in BOOLEAN
          BY Zenon
        <5> HIDE DEF d, b
        <5>5. o \in Object /\ o.exists
          BY <5>2, <5>4 DEF Object
        <5> QED
          BY <5>1, <5>3, <5>5
      <4>2. CASE k \notin Wanted(addon)
        <5>1. Installed(addon)[k] = Absent
          BY <4>2 DEF Installed
        <5> QED
          BY <1>5, <5>1
      <4> QED
        BY <4>1, <4>2
    <3>2. Installed(addon) = [k \in Keys |-> Installed(addon)[k]]
      BY DEF Installed
    <3>3. Installed(addon) \in [Keys -> Object]
      BY <3>1, <3>2
    <3> QED
      BY <2>2, <3>1, <3>3
  <2> QED
    BY <2>1, <2>2 DEF Init
<1>7. Objects /\ Housed
  BY <1>6 DEF Init, Objects, Housed
<1> QED
  BY <1>2, <1>3, <1>4, <1>7 DEF IInv

\* A step that is not the worker's on an object.
LEMMA OthersKeep ==
    ASSUME IInv, UNCHANGED <<addon, snap, todo>>, queue' \in BOOLEAN, Bounds',
           Objects', Approves, \A j \in Keys: cluster'[j].owned => j[1] = Home(addon)
    PROVE  Good
<1>1. Home(addon)' = Home(addon) /\ Home(snap)' = Home(snap)
  BY DEF Home, parseAddonInstallConfig
<1>2. Addons'
  BY DEF IInv, Addons
<1>3. OneAddon'
  BY <1>1 DEF IInv, OneAddon, validateInstallSpec, parseAddonInstallConfig
<1>4. Housed'
  BY <1>1 DEF Housed
<1> QED
  BY <1>2, <1>3, <1>4 DEF Good, IInv

\* What the webhook admits keeps the namespace.
LEMMA UpdateKeeps == ASSUME IInv, UpdateAddon PROVE Good
<1>1. /\ addon' \in Addon /\ validateInstallSpec(addon') /\ validateAddonImmutability(addon', addon)
      /\ queue' = TRUE /\ edits' = edits + 1 /\ Room
      /\ UNCHANGED <<cluster, cache, lag, due, snap, todo, moves, faults>>
  BY AddonAssumption DEF UpdateAddon, validateAddon, passVars
<1>2. Home(addon') = Home(addon)
  BY <1>1 DEF validateAddonImmutability, Fixed, Home, parseAddonInstallConfig
<1>3. Home(addon)' = Home(addon) /\ Home(snap)' = Home(snap)
  BY <1>1, <1>2 DEF Home, parseAddonInstallConfig
<1>4. Addons'
  BY <1>1 DEF IInv, Addons
<1>5. OneAddon'
  BY <1>1, <1>3 DEF IInv, OneAddon, validateInstallSpec, parseAddonInstallConfig
<1>6. Bounds'
  BY <1>1, OLMAssumption DEF IInv, Bounds, Room
<1>7. /\ Objects' /\ Approves
      /\ \A j \in Keys: cluster'[j].owned => j[1] = Home(addon)
  BY <1>1, NoWrite DEF IInv
<1>8. Housed'
  BY <1>3, <1>7 DEF Housed
<1> QED
  BY <1>4, <1>5, <1>6, <1>7, <1>8 DEF Good, IInv

LEMMA BeginKeeps == ASSUME IInv, Begin PROVE Good
<1>1. /\ snap' = addon /\ todo' = Plan(addon) /\ queue' = FALSE
      /\ UNCHANGED <<addon, cluster, cache, lag, due, bounds>>
  BY DEF Begin
<1>2. todo' \in Seq({Home(addon)} \X Names)
  BY <1>1, PlanType DEF IInv, Addons, OneAddon
<1>3. Home(addon)' = Home(addon) /\ Home(snap)' = Home(addon)
  BY <1>1 DEF Home, parseAddonInstallConfig
<1>4. Addons'
  BY <1>1 DEF IInv, Addons
<1>5. OneAddon'
  BY <1>1, <1>2, <1>3 DEF IInv, OneAddon, validateInstallSpec, parseAddonInstallConfig
<1>6. Bounds'
  BY <1>1 DEF IInv, Bounds, bounds
<1>7. /\ Objects' /\ Approves
      /\ \A j \in Keys: cluster'[j].owned => j[1] = Home(addon)
  BY <1>1, NoWrite DEF IInv
<1>8. Housed'
  BY <1>3, <1>7 DEF Housed
<1> QED
  BY <1>4, <1>5, <1>6, <1>7, <1>8 DEF Good, IInv

LEMMA CallFailsKeeps == ASSUME IInv, CallFails PROVE Good
<1>1. /\ todo' = <<>> /\ queue' = TRUE /\ faults' = faults + 1 /\ Trouble
      /\ UNCHANGED <<addon, snap, cluster, cache, lag, due, edits, moves>>
  BY DEF CallFails, Fail
<1>2. todo' \in Seq({Home(addon)} \X Names)
  BY <1>1, EmptySeq, Zenon
<1>3. Home(addon)' = Home(addon) /\ Home(snap)' = Home(snap)
  BY <1>1 DEF Home, parseAddonInstallConfig
<1>4. Addons'
  BY <1>1 DEF IInv, Addons
<1>5. OneAddon'
  BY <1>1, <1>2, <1>3 DEF IInv, OneAddon, validateInstallSpec, parseAddonInstallConfig
<1>6. Bounds'
  BY <1>1, OLMAssumption DEF IInv, Bounds, Trouble, Room
<1>7. /\ Objects' /\ Approves
      /\ \A j \in Keys: cluster'[j].owned => j[1] = Home(addon)
  BY <1>1, NoWrite DEF IInv
<1>8. Housed'
  BY <1>3, <1>7 DEF Housed
<1> QED
  BY <1>4, <1>5, <1>6, <1>7, <1>8 DEF Good, IInv

LEMMA StatusKeeps == ASSUME IInv, NEW k \in Keys, StatusMoves(k) PROVE Good
<1> DEFINE b == StatusOf(k)
           o == [cluster[k] EXCEPT !.status = b]
<1>1. cluster[k].exists /\ Write(k, o) /\ UNCHANGED <<addon, cache, queue, snap, todo, bounds>>
  BY DEF StatusMoves, passVars
<1>2. cluster[k] \in Object
  BY DEF IInv, Objects
<1>3. b \in BOOLEAN
  <2>1. (cluster[k].status \/ cluster[<<k[1], MainCatalog>>].status) \in BOOLEAN
    BY Zenon
  <2>2. Reachable(k) \in BOOLEAN
    BY DEF Reachable
  <2>3. CASE k[2] \in Catalogs
    <3>1. b = Reachable(k)
      BY <2>3 DEF StatusOf
    <3> QED
      BY <2>2, <3>1, Zenon
  <2>4. CASE k[2] \notin Catalogs /\ k[2] = "subscription"
    <3>1. b = (cluster[k].status \/ cluster[<<k[1], MainCatalog>>].status)
      BY <2>4, Zenon DEF StatusOf
    <3> QED
      BY <2>1, <3>1, Zenon
  <2>5. CASE k[2] \notin Catalogs /\ k[2] # "subscription"
    <3>1. b = TRUE
      BY <2>5 DEF StatusOf
    <3> QED
      BY <3>1
  <2> QED
    BY <2>3, <2>4, <2>5
<1> HIDE DEF b
<1>4. o \in Object /\ o.exists = cluster[k].exists /\ o.owned = cluster[k].owned
      /\ o.manual = cluster[k].manual
  BY <1>2, <1>3 DEF Object
<1> HIDE DEF o
<1>5. cluster[k].owned => k[1] = Home(addon)
  BY DEF IInv, Housed
<1>6. /\ Objects' /\ Approves
      /\ \A j \in Keys: cluster'[j].owned => j[1] = Home(addon)
  BY <1>1, <1>4, <1>5, WriteKeeps DEF IInv
<1>7. Bounds' /\ queue' \in BOOLEAN
  BY <1>1 DEF IInv, Bounds, bounds, Addons
<1> QED
  BY <1>1, <1>6, <1>7, OthersKeep

LEMMA OthersMoveKeeps == ASSUME IInv, NEW k \in Wanted(addon), OthersMove(k) PROVE Good
<1>1. k \in Keys
  BY WantedType DEF IInv, Addons, OneAddon
<1>2. cluster[k] \in Object /\ (cluster[k].owned => k[1] = Home(addon))
  BY <1>1 DEF IInv, Objects, Housed
<1>3. /\ Trouble /\ moves' = moves + 1
      /\ UNCHANGED <<addon, cache, queue, snap, todo, edits, faults>>
  BY DEF OthersMove, passVars
<1>4. PICK o: /\ Write(k, o)
              /\ \/ o = Absent
                 \/ cluster[k].exists /\ o = [cluster[k] EXCEPT !.content = {"changed"}]
                 \/ ~cluster[k].exists /\ o = [Absent EXCEPT !.exists = TRUE, !.content = {"changed"}]
                 \/ cluster[k].exists /\ o = [cluster[k] EXCEPT !.manual = TRUE]
  BY DEF OthersMove
<1>5. /\ o \in Object /\ (~o.exists => o = Absent) /\ (o.owned => k[1] = Home(addon))
      /\ cluster[k].manual /\ o.exists => o.manual
  <2>1. CASE o = Absent
    BY <2>1 DEF Absent, Object
  <2>2. CASE cluster[k].exists /\ o = [cluster[k] EXCEPT !.content = {"changed"}]
    BY <1>2, <2>2 DEF Object
  <2>3. CASE ~cluster[k].exists /\ o = [Absent EXCEPT !.exists = TRUE, !.content = {"changed"}]
    <3>1. cluster[k] = Absent
      BY <1>1, <2>3 DEF IInv, Objects
    <3> QED
      BY <2>3, <3>1 DEF Absent, Object
  <2>4. CASE cluster[k].exists /\ o = [cluster[k] EXCEPT !.manual = TRUE]
    BY <1>2, <2>4 DEF Object
  <2> QED
    BY <1>4, <2>1, <2>2, <2>3, <2>4
<1>6. /\ Objects' /\ Approves
      /\ \A j \in Keys: cluster'[j].owned => j[1] = Home(addon)
  BY <1>1, <1>3, <1>4, <1>5, WriteKeeps DEF IInv
<1>7. Bounds'
  BY <1>3, OLMAssumption DEF IInv, Bounds, Trouble, Room
<1>8. queue' \in BOOLEAN
  BY <1>3 DEF IInv, Addons
<1> QED
  BY <1>3, <1>6, <1>7, <1>8, OthersKeep

LEMMA SyncKeeps == ASSUME IInv, NEW k \in lag, Sync(k) PROVE Good
<1>1. /\ lag' = lag \ {k} /\ due' = due \ {k} /\ cache' = [cache EXCEPT ![k] = cluster[k]]
      /\ UNCHANGED <<addon, cluster, snap, todo, bounds>>
  BY DEF Sync, passVars
<1>2. k \in Keys /\ cluster[k] \in Object
  BY DEF IInv, Objects
<1>3. cache'[k] = cluster[k] /\ \A j \in Keys \ {k}: cache'[j] = cache[j]
  BY <1>1, <1>2 DEF IInv, Objects
<1>4. Objects'
  BY <1>1, <1>2, <1>3 DEF IInv, Objects
<1>5. Approves /\ \A j \in Keys: cluster'[j].owned => j[1] = Home(addon)
  BY <1>1 DEF IInv, Housed, Approves
<1>6. queue' \in BOOLEAN
  BY Zenon DEF Sync
<1>7. Bounds'
  BY <1>1 DEF IInv, Bounds, bounds
<1> QED
  BY <1>1, <1>4, <1>5, <1>6, <1>7, OthersKeep

LEMMA StutterKeeps == ASSUME IInv, UNCHANGED vars PROVE Good
<1>1. UNCHANGED <<addon, cluster, cache, lag, due, queue, snap, todo, bounds>>
  BY DEF vars, passVars
<1>2. /\ Objects' /\ Approves
      /\ \A j \in Keys: cluster'[j].owned => j[1] = Home(addon)
  BY <1>1, NoWrite DEF IInv
<1>3. Bounds'
  BY <1>1 DEF IInv, Bounds, bounds
<1>4. queue' \in BOOLEAN
  BY <1>1 DEF IInv, Addons
<1> QED
  BY <1>1, <1>2, <1>3, <1>4, OthersKeep

LEMMA Step == IInv /\ [Next]_vars => Good
<1> SUFFICES ASSUME IInv, [Next]_vars PROVE Good
  OBVIOUS
<1>1. CASE UpdateAddon
  BY <1>1, UpdateKeeps
<1>2. CASE \E k \in Wanted(addon): OthersMove(k)
  BY <1>2, OthersMoveKeeps
<1>3. CASE \E k \in Keys: StatusMoves(k)
  BY <1>3, StatusKeeps
<1>4. CASE \E k \in lag: Sync(k)
  BY <1>4, SyncKeeps
<1>5. CASE Worker
  BY <1>5, BeginKeeps, PhaseKeeps
  DEF Worker, ensureOperatorGroup, ensureCatalogSourcesNetworkPolicy, ensureCatalogSource,
      ensureAdditionalCatalogSources, ensureSubscription, ensureMonitoringStack
<1>6. CASE CallFails
  BY <1>6, CallFailsKeeps
<1>7. CASE UNCHANGED vars
  BY <1>7, StutterKeeps
<1> QED
  BY <1>1, <1>2, <1>3, <1>4, <1>5, <1>6, <1>7 DEF Next

-----------------------------------------------------------------------------
(* The theorems.                                                           *)

\* The invariant holds in every reachable state.
THEOREM Invariance == Spec => []IInv
<1>1. IInv /\ [Next]_vars => IInv'
  BY Step DEF Good
<1> QED
  BY Initially, <1>1, PTL DEF Spec

\* Addons, objects, copies and the pass have the types the model gives them.
THEOREM TypeCorrect == Spec => []TypeOK
<1>1. IInv => TypeOK
  <2> SUFFICES ASSUME IInv PROVE TypeOK
    OBVIOUS
  <2>1. Home(addon) \in Namespaces
    BY WantedType DEF IInv, Addons, OneAddon
  <2>2. {Home(addon)} \X Names \subseteq Keys
    BY <2>1 DEF Keys
  <2>3. todo \in Seq(Keys)
    BY <2>2 DEF IInv, OneAddon
  <2> QED
    BY <2>3 DEF IInv, Addons, Objects, Bounds, TypeOK
<1> QED
  BY Invariance, <1>1, PTL

\* Whatever updates the webhook admits, all that the operator made for an Addon lies in the
\* one namespace the Addon names, and its configuration is never missing.
THEOREM HomeIsOne == Spec => []OneHome
<1>1. IInv => OneHome
  BY DEF IInv, OneAddon, Housed, Home, OneHome, validateInstallSpec
<1> QED
  BY Invariance, <1>1, PTL

\* No reconciliation of a Subscription takes back its Manual approval.
THEOREM ApprovalStays == Spec => ApprovalKept
<1>1. IInv /\ [Next]_vars =>
        [\A k \in Keys: cluster[k].manual /\ cluster'[k].exists => cluster'[k].manual]_vars
  BY Step DEF Good, Approves
<1> QED
  BY Invariance, <1>1, PTL DEF Spec, ApprovalKept

-----------------------------------------------------------------------------
(* The NetworkPolicy comes first.                                          *)

\* What PolicyFirst asks of a step.
PolicyLeads ==
    \A k \in Keys:
        k[2] \in Catalogs /\ ~cluster[k].exists /\ cluster'[k].exists /\ moves' = 0 =>
            /\ cluster[<<k[1], "policy">>].exists
            /\ k[2] = MainCatalog \/ edits <= 1 => Reachable(k)

\* A list of names that begins as a pass does and goes on with names from T.
Begins(q, T) ==
    /\ q \in Seq(Names) /\ Len(q) >= 3
    /\ q[1] = "group" /\ q[2] = "policy" /\ q[3] = MainCatalog
    /\ \A i \in 4..Len(q): q[i] \in T

LEMMA BeginsOn ==
    ASSUME NEW q, NEW T \in SUBSET Names, Begins(q, T), NEW r \in Seq(T)
    PROVE  Begins(q \o r, T)
<1>1. q \in Seq(Names) /\ r \in Seq(Names) /\ Len(q) \in Nat /\ Len(r) \in Nat /\ Len(q) >= 3
  BY DEF Begins
<1>2. /\ q \o r \in Seq(Names) /\ Len(q \o r) = Len(q) + Len(r)
      /\ \A i \in 1..Len(q): (q \o r)[i] = q[i]
      /\ \A i \in Len(q)+1..Len(q)+Len(r): (q \o r)[i] = r[i - Len(q)]
  BY <1>1
<1>3. ASSUME NEW i \in 4..Len(q \o r) PROVE (q \o r)[i] \in T
  <2>1. CASE i <= Len(q)
    BY <1>1, <1>2, <2>1 DEF Begins
  <2>2. CASE i > Len(q)
    <3>1. i - Len(q) \in 1..Len(r) /\ (q \o r)[i] = r[i - Len(q)]
      BY <1>1, <1>2, <2>2
    <3> QED
      BY <3>1
  <2> QED
    BY <1>1, <1>2, <2>1, <2>2
<1> QED
  BY <1>1, <1>2, <1>3 DEF Begins

\* The order of a pass, and the CatalogSources in it.
LEMMA PlanOrder ==
    ASSUME NEW a \in Addon, validateInstallSpec(a)
    PROVE  /\ Len(Plan(a)) \in Nat /\ Len(Plan(a)) >= 2
           /\ Plan(a)[1][2] = "group" /\ Plan(a)[2][2] = "policy"
           /\ \A i \in 1..Len(Plan(a)):
                 /\ Plan(a)[i][2] = "policy" => i = 2
                 /\ Plan(a)[i][2] \in Catalogs => Plan(a)[i][2] \in CatalogNames(a)
<1> DEFINE c == parseAddonInstallConfig(a)
           first == <<"group", "policy", MainCatalog>>
           last == IF a.stack THEN <<"stack">> ELSE <<>>
           names == first \o SetToSeq(c.extras) \o <<"subscription">> \o last
           T == c.extras \cup {"subscription", "stack"}
<1>1. c.extras \subseteq Catalogs
  BY ValidConfig
<1>2. SetToSeq(c.extras) \in Seq(c.extras)
  <2>1. IsFiniteSet(Catalogs)
    BY OLMAssumption, FS_AddElement DEF Catalogs
  <2> QED
    BY <1>1, <2>1, FS_Subset, SetToSeqType
<1>3. T \in SUBSET Names
  BY <1>1 DEF Names
<1>4. SetToSeq(c.extras) \in Seq(T) /\ <<"subscription">> \in Seq(T) /\ last \in Seq(T)
  <2>1. SetToSeq(c.extras) \in Seq(T)
    BY <1>2
  <2>2. <<"stack">> \in Seq(T) /\ <<"subscription">> \in Seq(T) /\ <<>> \in Seq(T)
    OBVIOUS
  <2> QED
    BY <2>1, <2>2
<1>5. Begins(first, T)
  BY DEF Begins, Names, Catalogs
<1> HIDE DEF first, last
<1>6. Begins(names, T)
  <2>1. Begins(first \o SetToSeq(c.extras), T)
    BY <1>3, <1>4, <1>5, BeginsOn
  <2>2. Begins(first \o SetToSeq(c.extras) \o <<"subscription">>, T)
    BY <1>3, <1>4, <2>1, BeginsOn
  <2> QED
    BY <1>3, <1>4, <2>2, BeginsOn
<1>7. "policy" \notin T /\ MainCatalog # "policy" /\ {"group", "policy"} \cap Catalogs = {}
      /\ T \cap Catalogs \subseteq CatalogNames(a) /\ MainCatalog \in CatalogNames(a)
  BY <1>1, OLMAssumption DEF Catalogs, CatalogNames
<1> HIDE DEF names, T
<1>8. Plan(a) = [i \in 1..Len(names) |-> <<c.namespace, names[i]>>]
  BY DEF Plan, names, first, last
<1>9. Len(names) \in Nat /\ Len(names) >= 3
  BY <1>6 DEF Begins
<1>10. Len(Plan(a)) = Len(names) /\ \A i \in 1..Len(names): Plan(a)[i][2] = names[i]
  BY <1>8, <1>9
<1>11. ASSUME NEW i \in 1..Len(names)
       PROVE  /\ names[i] = "policy" => i = 2
              /\ names[i] \in Catalogs => names[i] \in CatalogNames(a)
  <2>1. i = 1 \/ i = 2 \/ i = 3 \/ i \in 4..Len(names)
    BY <1>9
  <2> QED
    BY <1>6, <1>7, <2>1 DEF Begins
<1> QED
  BY <1>6, <1>9, <1>10, <1>11 DEF Begins

\* The NetworkPolicy lists the CatalogSources of the Addon.
LEMMA DesiredPolicy ==
    ASSUME NEW a
    PROVE  Desired(a, "policy") = CatalogNames(a) /\ MainCatalog \in CatalogNames(a)
<1>1. MainCatalog # "policy"
  BY OLMAssumption
<1>2. Desired(a, "policy") = desiredCatalogSourcesNetworkPolicy(a)
  BY <1>1 DEF Desired
<1> QED
  BY <1>2 DEF desiredCatalogSourcesNetworkPolicy, CatalogNames

\* A step that leaves the Addons, the bounds and both copies of the NetworkPolicy alone.
LEMMA PolicyFrame ==
    ASSUME PolicyInv, UNCHANGED <<addon, snap, edits, moves>>, InOrder', Past' => Past,
           cluster'[Policy] = cluster[Policy], cache'[Policy] = cache[Policy]
    PROVE  PolicyInv'
<1>1. Policy' = Policy /\ CatalogNames(snap)' = CatalogNames(snap)
  BY DEF Policy, Home, CatalogNames, parseAddonInstallConfig
<1>2. moves = 0 /\ Untouched => Untouched'
  BY <1>1 DEF Untouched
<1>3. moves = 0 /\ edits <= 1 /\ OnceEdited => OnceEdited'
  BY <1>1 DEF OnceEdited
<1> QED
  BY <1>2, <1>3 DEF PolicyInv

\* The pass goes on, or is over.
LEMMA OrderKept ==
    ASSUME IInv, InOrder, UNCHANGED snap, todo # <<>>, todo' = Tail(todo) \/ todo' = <<>>
    PROVE  /\ InOrder'
           /\ todo[1][2] # "policy" /\ Past' => Past
           /\ todo[1][2] \in Catalogs => Past /\ todo[1][2] \in CatalogNames(snap)
<1>1. todo \in Seq({Home(addon)} \X Names)
  BY DEF IInv, OneAddon
<1>2. Len(todo) \in Nat /\ Len(todo) >= 1
  BY <1>1
<1>3. CatalogNames(snap)' = CatalogNames(snap)
  BY DEF CatalogNames, parseAddonInstallConfig
<1>4. todo[1][2] \in Catalogs => Past /\ todo[1][2] \in CatalogNames(snap)
  <2> SUFFICES ASSUME todo[1][2] \in Catalogs PROVE Past /\ todo[1][2] \in CatalogNames(snap)
    OBVIOUS
  <2>1. todo[1][2] # "policy" /\ todo[1][2] # "group"
    BY OLMAssumption DEF Catalogs
  <2> QED
    BY <1>2, <2>1 DEF InOrder, Past
<1>5. CASE todo' = <<>>
  BY <1>4, <1>5 DEF InOrder, Past
<1>6. CASE todo' = Tail(todo)
  <2>1. Len(todo') = Len(todo) - 1 /\ \A i \in 1..Len(todo'): todo'[i] = todo[i + 1]
    BY <1>1, <1>6
  <2>2. ASSUME NEW i \in 1..Len(todo')
        PROVE  /\ todo'[i][2] = "policy" => i = 1
               /\ todo'[i][2] \in Catalogs => todo'[i][2] \in CatalogNames(snap)
    <3>1. i + 1 \in 1..Len(todo) /\ todo'[i] = todo[i + 1] /\ i + 1 # 1
      BY <1>2, <2>1
    <3>2. i + 1 = 2 => i = 1
      BY <2>1, <1>2
    <3> QED
      BY <3>1, <3>2 DEF InOrder
  <2>3. InOrder'
    BY <1>3, <2>2 DEF InOrder
  <2>4. ASSUME todo[1][2] # "policy", Past' PROVE Past
    <3>1. ASSUME NEW j \in 1..Len(todo), j # 1 PROVE todo[j][2] # "policy"
      <4>1. j - 1 \in 1..Len(todo') /\ todo'[j - 1] = todo[j]
        BY <1>2, <2>1, <3>1
      <4> QED
        BY <2>4, <4>1 DEF Past
    <3> QED
      BY <2>4, <3>1 DEF Past
  <2> QED
    BY <1>4, <2>3, <2>4
<1> QED
  BY <1>5, <1>6

\* One phase, whatever names it is about.
LEMMA PhaseLeads ==
    ASSUME IInv, PolicyInv, NEW names, reconcileObject(names) PROVE PolicyInv' /\ PolicyLeads
<1> DEFINE k == Head(todo)
           new == [Absent EXCEPT !.exists = TRUE, !.owned = TRUE, !.content = Desired(snap, k[2])]
<1>1. todo # <<>> /\ UNCHANGED <<addon, cache, snap, edits, moves>>
  BY DEF reconcileObject, bounds
<1>2. k = todo[1] /\ k \in {Home(addon)} \X Names
  BY <1>1 DEF IInv, OneAddon
<1>3. k \in Keys /\ k[1] = Home(addon) /\ Policy \in Keys
  <2>1. Home(addon) \in Namespaces /\ "policy" \in Names
    BY WantedType DEF IInv, Addons, OneAddon, Names
  <2> QED
    BY <1>2, <2>1 DEF Keys, Policy
<1>4. todo' = Tail(todo) \/ todo' = <<>>
  BY DEF reconcileObject, Proceed, Fail
<1>5. /\ InOrder' /\ (k[2] # "policy" /\ Past' => Past)
      /\ k[2] \in Catalogs => Past /\ k[2] \in CatalogNames(snap)
  BY <1>1, <1>2, <1>4, OrderKept DEF PolicyInv
<1>6. \/ UNCHANGED cluster
      \/ cluster' = [cluster EXCEPT ![k] = new]
      \/ cluster' = [cluster EXCEPT ![k] = Updated(cache[k], k[2])]
  BY DEF reconcileObject, Fail, Write
<1>7. cluster \in [Keys -> Object] /\ cache \in [Keys -> Object]
  BY DEF IInv, Objects
<1>8. \A j \in Keys \ {k}: cluster'[j] = cluster[j]
  BY <1>6, <1>7
<1>9. PolicyLeads
  <2> SUFFICES ASSUME NEW j \in Keys, j[2] \in Catalogs, ~cluster[j].exists, cluster'[j].exists,
                      moves' = 0
               PROVE  /\ cluster[<<j[1], "policy">>].exists
                      /\ j[2] = MainCatalog \/ edits <= 1 => Reachable(j)
    BY DEF PolicyLeads
  <2>1. j = k
    BY <1>8
  <2>2. Past /\ j[2] \in CatalogNames(snap) /\ <<j[1], "policy">> = Policy
    BY <1>3, <1>5, <2>1 DEF Policy
  <2>3. moves = 0
    BY <1>1
  <2>4. cluster[Policy].exists /\ MainCatalog \in cluster[Policy].content
    BY <2>2, <2>3 DEF PolicyInv, Untouched
  <2>5. edits <= 1 => cluster[Policy].content = CatalogNames(snap)
    BY <2>2, <2>3 DEF PolicyInv, OnceEdited
  <2> QED
    BY <2>2, <2>4, <2>5 DEF Reachable
<1>10. CASE k[2] # "policy"
  <2>1. Policy # k
    BY <1>10 DEF Policy
  <2>2. cluster'[Policy] = cluster[Policy] /\ cache'[Policy] = cache[Policy]
    BY <1>1, <1>3, <1>8, <2>1
  <2> HIDE DEF k
  <2> QED
    BY <1>1, <1>5, <1>9, <1>10, <2>2, PolicyFrame
<1>11. CASE k[2] = "policy"
  <2>1. k = Policy
    BY <1>2, <1>11 DEF Policy
  <2>2. Desired(snap, "policy") = CatalogNames(snap) /\ MainCatalog \in CatalogNames(snap)
    BY DesiredPolicy
  <2>3. \/ UNCHANGED cluster /\ todo' = <<>>
        \/ UNCHANGED cluster /\ Fits(cache[k], snap, k[2])
        \/ cluster' = [cluster EXCEPT ![k] = new]
        \/ cache[k].exists /\ cluster' = [cluster EXCEPT ![k] = Updated(cache[k], k[2])]
    BY DEF reconcileObject, Fail, Write
  <2>4. \/ UNCHANGED cluster /\ todo' = <<>>
        \/ UNCHANGED cluster /\ cache[Policy].exists /\ cache[Policy].content = CatalogNames(snap)
        \/ cluster'[Policy].exists /\ cluster'[Policy].content = CatalogNames(snap)
    <3>1. cache[k] \in Object /\ new.exists /\ new.content = CatalogNames(snap)
      BY <1>3, <1>7, <1>11, <2>2 DEF Absent
    <3>2. /\ Updated(cache[k], k[2]).exists = cache[k].exists
          /\ Updated(cache[k], k[2]).content = CatalogNames(snap)
      BY <1>11, <2>2, <3>1 DEF Updated, Object
    <3>3. ASSUME NEW o, cluster' = [cluster EXCEPT ![k] = o] PROVE cluster'[Policy] = o
      BY <1>3, <1>7, <2>1, <3>3
    <3> HIDE DEF k, new
    <3> QED
      BY <1>11, <2>1, <2>2, <2>3, <3>1, <3>2, <3>3 DEF Fits
  <2>5. Policy' = Policy /\ CatalogNames(snap)' = CatalogNames(snap) /\ cache'[Policy] = cache[Policy]
    BY <1>1 DEF Policy, Home, CatalogNames, parseAddonInstallConfig
  <2>6. todo' = <<>> => ~Past'
    BY DEF Past
  <2> HIDE DEF k, new
  <2>7. ASSUME moves' = 0 PROVE Untouched'
    <3>1. moves = 0
      BY <1>1, <2>7
    <3> QED
      BY <2>2, <2>4, <2>5, <2>6, <3>1 DEF PolicyInv, Untouched
  <2>8. ASSUME moves' = 0, edits' <= 1 PROVE OnceEdited'
    <3>1. moves = 0 /\ edits <= 1
      BY <1>1, <2>8
    <3> QED
      BY <1>1, <2>4, <2>5, <2>6, <3>1 DEF PolicyInv, OnceEdited
  <2> QED
    BY <1>5, <1>9, <2>7, <2>8 DEF PolicyInv
<1> QED
  BY <1>10, <1>11

\* A step that makes no object and is no other one's move.
LEMMA NoNewLeads ==
    ASSUME \A k \in Keys: cluster'[k].exists => cluster[k].exists
    PROVE  PolicyLeads
BY DEF PolicyLeads

\* A new pass, on the Addon as it is: the NetworkPolicy is before it. If the Addon has just
\* changed, both copies of the NetworkPolicy list what the Addon before the change wanted.
LEMMA BeginLeads == ASSUME IInv, PolicyInv, Begin PROVE PolicyInv' /\ PolicyLeads
<1>1. snap' = addon /\ todo' = Plan(addon) /\ UNCHANGED <<addon, cluster, cache, edits, moves>>
  BY DEF Begin, bounds
<1>2. PolicyLeads
  BY <1>1, NoNewLeads
<1>3. Policy' = Policy /\ CatalogNames(snap)' = CatalogNames(addon)
  BY <1>1 DEF Policy, Home, CatalogNames, parseAddonInstallConfig
<1>4. InOrder' /\ ~Past'
  <2>1. addon \in Addon /\ validateInstallSpec(addon)
    BY DEF IInv, Addons, OneAddon
  <2>2. \A i \in 1..Len(todo'):
            /\ todo'[i][2] = "policy" => i = 2 /\ todo'[1][2] = "group"
            /\ todo'[i][2] \in Catalogs => todo'[i][2] \in CatalogNames(addon)
    BY <1>1, <2>1, PlanOrder
  <2>3. 2 \in 1..Len(todo') /\ todo'[2][2] = "policy"
    BY <1>1, <2>1, PlanOrder
  <2>4. InOrder'
    BY <1>3, <2>2 DEF InOrder
  <2> QED
    BY <2>3, <2>4 DEF Past
<1>5. ASSUME moves' = 0 PROVE Untouched'
  <2>1. moves = 0
    BY <1>1, <1>5
  <2> QED
    BY <1>1, <1>3, <1>4, <2>1 DEF PolicyInv, Untouched
<1>6. ASSUME moves' = 0, edits' <= 1 PROVE OnceEdited'
  <2>1. moves = 0 /\ edits <= 1 /\ Untouched /\ OnceEdited
    BY <1>1, <1>6 DEF PolicyInv
  <2>2. CASE snap = addon
    BY <1>1, <1>3, <1>4, <2>1, <2>2 DEF OnceEdited
  <2>3. CASE snap # addon
    <3>1. cache[Policy].exists => cluster[Policy].content = cache[Policy].content
      BY <2>1, <2>3 DEF OnceEdited, Untouched
    <3>2. edits # 0
      BY <2>1, <2>3 DEF OnceEdited
    <3> QED
      BY <1>1, <1>3, <1>4, <3>1, <3>2 DEF OnceEdited
  <2> QED
    BY <2>2, <2>3
<1> QED
  BY <1>2, <1>4, <1>5, <1>6 DEF PolicyInv

\* The Addon changes: the pass that runs works on the one before.
LEMMA UpdateLeads == ASSUME IInv, PolicyInv, UpdateAddon PROVE PolicyInv' /\ PolicyLeads
<1>1. /\ addon' # addon /\ validateAddonImmutability(addon', addon) /\ edits' = edits + 1
      /\ UNCHANGED <<cluster, cache, snap, todo, moves>>
  BY DEF UpdateAddon, passVars
<1>2. PolicyLeads
  BY <1>1, NoNewLeads
<1>3. Home(addon') = Home(addon)
  BY <1>1 DEF validateAddonImmutability, Fixed, Home, parseAddonInstallConfig
<1>4. Home(addon)' = Home(addon')
  BY DEF Home, parseAddonInstallConfig
<1>5. Policy' = Policy /\ CatalogNames(snap)' = CatalogNames(snap)
  BY <1>1, <1>3, <1>4 DEF Policy, CatalogNames, parseAddonInstallConfig
<1>6. InOrder' /\ (Past' <=> Past)
  BY <1>1, <1>5 DEF PolicyInv, InOrder, Past
<1>7. ASSUME moves' = 0 PROVE Untouched'
  <2>1. moves = 0
    BY <1>1, <1>7
  <2> QED
    BY <1>1, <1>5, <1>6, <2>1 DEF PolicyInv, Untouched
<1>8. ASSUME moves' = 0, edits' <= 1 PROVE OnceEdited'
  <2>1. edits \in Nat
    BY DEF IInv, Bounds
  <2>2. moves = 0 /\ edits = 0 /\ edits' = 1
    BY <1>1, <1>8, <2>1
  <2>3. OnceEdited
    BY <2>2 DEF PolicyInv
  <2>4. snap = addon /\ snap' # addon'
    BY <1>1, <2>2, <2>3 DEF OnceEdited
  <2> QED
    BY <1>1, <1>5, <1>6, <2>2, <2>3, <2>4 DEF OnceEdited
<1> QED
  BY <1>2, <1>6, <1>7, <1>8 DEF PolicyInv

LEMMA SyncLeads == ASSUME IInv, PolicyInv, NEW k \in lag, Sync(k) PROVE PolicyInv' /\ PolicyLeads
<1>1. /\ cache' = [cache EXCEPT ![k] = cluster[k]]
      /\ UNCHANGED <<addon, cluster, snap, todo, edits, moves>>
  BY DEF Sync, passVars, bounds
<1>2. PolicyLeads
  BY <1>1, NoNewLeads
<1>3. Policy' = Policy /\ CatalogNames(snap)' = CatalogNames(snap)
  BY <1>1 DEF Policy, Home, CatalogNames, parseAddonInstallConfig
<1>4. InOrder' /\ (Past' <=> Past)
  BY <1>1, <1>3 DEF PolicyInv, InOrder, Past
<1>5. cache'[Policy] = cache[Policy] \/ cache'[Policy] = cluster[Policy]
  <2>1. Policy \in Keys /\ cache \in [Keys -> Object]
    <3>1. Home(addon) \in Namespaces /\ "policy" \in Names
      BY WantedType DEF IInv, Addons, OneAddon, Names
    <3> QED
      BY <3>1 DEF Keys, Policy, IInv, Objects
  <2> QED
    BY <1>1, <2>1
<1>6. ASSUME moves' = 0 PROVE Untouched'
  <2>1. moves = 0
    BY <1>1, <1>6
  <2> QED
    BY <1>1, <1>3, <1>4, <1>5, <2>1 DEF PolicyInv, Untouched
<1>7. ASSUME moves' = 0, edits' <= 1 PROVE OnceEdited'
  <2>1. moves = 0 /\ edits <= 1
    BY <1>1, <1>7
  <2> QED
    BY <1>1, <1>3, <1>4, <1>5, <2>1 DEF PolicyInv, OnceEdited
<1> QED
  BY <1>2, <1>4, <1>6, <1>7 DEF PolicyInv

\* The status of other objects moves.
LEMMA StatusLeads == ASSUME IInv, PolicyInv, NEW k \in Keys, StatusMoves(k) PROVE PolicyInv' /\ PolicyLeads
<1> DEFINE b == StatusOf(k)
           o == [cluster[k] EXCEPT !.status = b]
<1>1. /\ cluster[k].exists /\ cluster' = [cluster EXCEPT ![k] = o]
      /\ k[2] \in Catalogs \cup {"subscription", "stack"}
      /\ UNCHANGED <<addon, cache, snap, todo, edits, moves>>
  BY DEF StatusMoves, Write, passVars, bounds
<1>2. Policy # k
  BY <1>1, OLMAssumption DEF Policy, Catalogs
<1> HIDE DEF b, o
<1>3. \A j \in Keys \ {k}: cluster'[j] = cluster[j]
  BY <1>1 DEF IInv, Objects
<1>4. PolicyLeads
  BY <1>1, <1>3 DEF PolicyLeads
<1>5. Policy \in Keys
  <2>1. Home(addon) \in Namespaces /\ "policy" \in Names
    BY WantedType DEF IInv, Addons, OneAddon, Names
  <2> QED
    BY <2>1 DEF Keys, Policy
<1>6. InOrder' /\ (Past' => Past)
  BY <1>1 DEF PolicyInv, InOrder, Past, CatalogNames, parseAddonInstallConfig
<1> QED
  BY <1>1, <1>2, <1>3, <1>4, <1>5, <1>6, PolicyFrame

LEMMA RestLeads ==
    ASSUME IInv, PolicyInv, CallFails \/ UNCHANGED vars \/ \E k \in Wanted(addon): OthersMove(k)
    PROVE  PolicyInv' /\ PolicyLeads
<1>1. CASE CallFails
  <2>1. todo # <<>> /\ todo' = <<>> /\ UNCHANGED <<addon, cluster, cache, snap, edits, moves>>
    BY <1>1 DEF CallFails, Fail
  <2>2. InOrder' /\ ~Past'
    BY <2>1 DEF InOrder, Past
  <2> QED
    BY <2>1, <2>2, NoNewLeads, PolicyFrame
<1>2. CASE UNCHANGED vars
  <2>1. UNCHANGED <<addon, cluster, cache, snap, todo, edits, moves>>
    BY <1>2 DEF vars, passVars, bounds
  <2>2. InOrder' /\ (Past' => Past)
    BY <2>1 DEF PolicyInv, InOrder, Past, CatalogNames, parseAddonInstallConfig
  <2> QED
    BY <2>1, <2>2, NoNewLeads, PolicyFrame
<1>3. CASE \E k \in Wanted(addon): OthersMove(k)
  <2>1. moves' = moves + 1 /\ moves \in Nat /\ UNCHANGED <<snap, todo>>
    BY <1>3 DEF OthersMove, passVars, IInv, Bounds
  <2>2. moves' # 0
    BY <2>1
  <2>3. InOrder'
    BY <2>1 DEF PolicyInv, InOrder, CatalogNames, parseAddonInstallConfig
  <2> QED
    BY <2>2, <2>3 DEF PolicyInv, PolicyLeads
<1> QED
  BY <1>1, <1>2, <1>3

LEMMA InitPolicy == Init => PolicyInv
<1> SUFFICES ASSUME Init PROVE PolicyInv
  OBVIOUS
<1>1. addon \in Addon /\ validateInstallSpec(addon) /\ snap = addon /\ todo = <<>> /\ cache = cluster
  BY AddonAssumption DEF Init, validateAddon
<1>2. InOrder /\ ~Past
  BY <1>1 DEF InOrder, Past
<1>3. Policy \in Keys
  <2>1. Home(addon) \in Namespaces /\ "policy" \in Names
    BY <1>1, WantedType DEF Names
  <2> QED
    BY <2>1 DEF Keys, Policy
<1>4. cluster[Policy].exists => cluster[Policy].content = CatalogNames(addon)
  <2>1. CASE cluster = [k \in Keys |-> Absent]
    BY <1>3, <2>1 DEF Absent
  <2>2. CASE cluster = Installed(addon)
    <3>1. Policy \in Wanted(addon) /\ Policy[2] = "policy"
      BY DEF Policy, Wanted, Home
    <3>2. cluster[Policy].content = Desired(addon, "policy")
      BY <1>3, <2>2, <3>1 DEF Installed
    <3> QED
      BY <3>2, DesiredPolicy
  <2> QED
    BY <2>1, <2>2 DEF Init
<1>5. MainCatalog \in CatalogNames(addon)
  BY DesiredPolicy
<1> QED
  BY <1>1, <1>2, <1>4, <1>5 DEF PolicyInv, Untouched, OnceEdited

LEMMA StepLeads == IInv /\ PolicyInv /\ [Next]_vars => PolicyInv' /\ PolicyLeads
<1> SUFFICES ASSUME IInv, PolicyInv, [Next]_vars PROVE PolicyInv' /\ PolicyLeads
  OBVIOUS
<1>1. CASE UpdateAddon
  BY <1>1, UpdateLeads
<1>2. CASE \E k \in Keys: StatusMoves(k)
  BY <1>2, StatusLeads
<1>3. CASE \E k \in lag: Sync(k)
  BY <1>3, SyncLeads
<1>4. CASE Worker
  BY <1>4, BeginLeads, PhaseLeads
  DEF Worker, ensureOperatorGroup, ensureCatalogSourcesNetworkPolicy, ensureCatalogSource,
      ensureAdditionalCatalogSources, ensureSubscription, ensureMonitoringStack
<1>5. CASE CallFails \/ UNCHANGED vars \/ \E k \in Wanted(addon): OthersMove(k)
  BY <1>5, RestLeads
<1> QED
  BY <1>1, <1>2, <1>3, <1>4, <1>5 DEF Next

\* No CatalogSource is made before its NetworkPolicy lets OLM reach it, through changes of
\* the Addon during a pass, failed calls and stale caches.
THEOREM PolicyLeadsAlways == Spec => PolicyFirst
<1>1. IInv /\ PolicyInv /\ [Next]_vars =>
        [\A k \in Keys:
            k[2] \in Catalogs /\ ~cluster[k].exists /\ cluster'[k].exists /\ moves' = 0 =>
                /\ cluster[<<k[1], "policy">>].exists
                /\ k[2] = MainCatalog \/ edits <= 1 => Reachable(k)]_vars
  BY StepLeads DEF PolicyLeads
<1> QED
  BY Invariance, InitPolicy, StepLeads, <1>1, PTL DEF Spec, PolicyFirst

-----------------------------------------------------------------------------
(* What is promised is in place when there is nothing left to do.          *)

Statused == Catalogs \cup {"subscription", "stack"}

\* The key is in the workqueue, an event on k is still to bring it there, or the pass has k
\* still to see to.
Busy(k) == queue \/ k \in due \/ \E i \in 1..Len(todo): todo[i] = k

Done(k) == Fits(cluster[k], addon, k[2]) /\ (k[2] \in Statused => cluster[k].status)

\* The owner hears of a change to what the cache shows as its own; the pass works on the
\* Addon as it is, or another one is due; and what is not as wanted is being seen to.
SettleInv ==
    /\ \A k \in Keys: ~cache[k].exists => cache[k] = Absent
    /\ \A k \in lag: cache[k].owned => k \in due
    /\ snap # addon => queue
    /\ \A k \in Wanted(addon): k[2] # "policy" => Busy(k) \/ Done(k)

\* The worker is idle, its key is not in the workqueue, no event is on its way that would
\* bring it there, and OLM and the observability operator have no status to change.
AtRest ==
    /\ ~queue /\ todo = <<>> /\ due = {}
    /\ \A k \in Keys: cluster[k].exists /\ k[2] \in Statused => cluster[k].status = StatusOf(k)
SettledAtRest == AtRest => Settled

\* SetToSeq leaves nothing out.
LEMMA SetToSeqOnto ==
    ASSUME NEW S, IsFiniteSet(S), NEW x \in S
    PROVE  \E i \in 1..Len(SetToSeq(S)): SetToSeq(S)[i] = x
<1> DEFINE n == Cardinality(S)
<1>1. n \in Nat /\ ExistsBijection(1..n, S)
  BY FS_CardinalityType
<1>2. \E f \in [1..n -> S]: IsInjective(f)
  BY <1>1 DEF ExistsBijection, Bijection, Injection
<1>3. SetToSeq(S) \in [1..n -> S] /\ IsInjective(SetToSeq(S))
  BY <1>2 DEF SetToSeq
<1>4. SetToSeq(S) \in Injection(1..n, S)
  BY <1>3 DEF Injection, IsInjective
<1>5. Cardinality(1..n) = n
  BY <1>1, FS_Interval
<1>6. SetToSeq(S) \in Surjection(1..n, S)
  BY <1>4, <1>5, FS_Injection
<1>7. Len(SetToSeq(S)) = n
  BY <1>1, <1>3
<1> QED
  BY <1>6, <1>7 DEF Surjection

\* Where the elements of two sequences are in the one made of both.
LEMMA Joined ==
    ASSUME NEW S, NEW s \in Seq(S), NEW t \in Seq(S)
    PROVE  /\ s \o t \in Seq(S) /\ Len(s) \in Nat /\ Len(t) \in Nat /\ Len(s \o t) = Len(s) + Len(t)
           /\ \A i \in 1..Len(s): (s \o t)[i] = s[i]
           /\ \A i \in 1..Len(t): (s \o t)[Len(s) + i] = t[i]
<1>1. Len(s) \in Nat /\ Len(t) \in Nat
  OBVIOUS
<1>2. /\ s \o t \in Seq(S) /\ Len(s \o t) = Len(s) + Len(t)
      /\ \A i \in 1..Len(s): (s \o t)[i] = s[i]
      /\ \A i \in Len(s)+1..Len(s)+Len(t): (s \o t)[i] = t[i - Len(s)]
  BY <1>1
<1>3. ASSUME NEW i \in 1..Len(t) PROVE (s \o t)[Len(s) + i] = t[i]
  <2>1. Len(s) + i \in Len(s)+1..Len(s)+Len(t) /\ (Len(s) + i) - Len(s) = i
    BY <1>1
  <2> QED
    BY <1>2, <2>1
<1> QED
  BY <1>1, <1>2, <1>3

\* A pass sees to everything the Addon wants.
LEMMA PlanCovers ==
    ASSUME NEW a \in Addon, validateInstallSpec(a), NEW k \in Wanted(a)
    PROVE  \E i \in 1..Len(Plan(a)): Plan(a)[i] = k
<1> DEFINE c == parseAddonInstallConfig(a)
           first == <<"group", "policy", MainCatalog>>
           middle == SetToSeq(c.extras)
           last == IF a.stack THEN <<"stack">> ELSE <<>>
           names == first \o middle \o <<"subscription">> \o last
<1>1. c.extras \subseteq Catalogs /\ IsFiniteSet(c.extras)
  <2>1. c.extras \subseteq Catalogs
    BY ValidConfig
  <2>2. IsFiniteSet(Catalogs)
    BY OLMAssumption, FS_AddElement DEF Catalogs
  <2> QED
    BY <2>1, <2>2, FS_Subset
<1>2. middle \in Seq(Names)
  <2>1. middle \in Seq(c.extras) /\ c.extras \subseteq Names
    BY <1>1, SetToSeqType DEF Names
  <2> QED
    BY <2>1
<1>3. first \in Seq(Names) /\ last \in Seq(Names) /\ <<"subscription">> \in Seq(Names)
  <2>1. {"group", "policy", MainCatalog, "subscription", "stack"} \subseteq Names
    BY DEF Names, Catalogs
  <2>2. first \in Seq(Names)
    BY <2>1
  <2>3. <<"stack">> \in Seq(Names) /\ <<"subscription">> \in Seq(Names) /\ <<>> \in Seq(Names)
    BY <2>1
  <2> QED
    BY <2>2, <2>3
<1>4. Len(first) = 3 /\ first[1] = "group" /\ first[2] = "policy" /\ first[3] = MainCatalog
  OBVIOUS
<1>5. a.stack => Len(last) = 1 /\ last[1] = "stack"
  OBVIOUS
<1> HIDE DEF first, middle, last
<1>6. /\ names \in Seq(Names) /\ Len(names) = 3 + Len(middle) + 1 + Len(last)
      /\ Len(middle) \in Nat /\ Len(last) \in Nat
      /\ names[1] = "group" /\ names[2] = "policy" /\ names[3] = MainCatalog
      /\ \A i \in 1..Len(middle): names[3 + i] = middle[i]
      /\ names[3 + Len(middle) + 1] = "subscription"
      /\ \A i \in 1..Len(last): names[3 + Len(middle) + 1 + i] = last[i]
  <2> DEFINE m == Len(middle)
             q == first \o middle
             r == q \o <<"subscription">>
  <2>1. m \in Nat /\ Len(last) \in Nat
    BY <1>2, <1>3
  <2>2. /\ q \in Seq(Names) /\ Len(q) = 3 + m
        /\ \A i \in 1..3: q[i] = first[i]
        /\ \A i \in 1..m: q[3 + i] = middle[i]
    <3>1. /\ q \in Seq(Names) /\ Len(q) = Len(first) + Len(middle)
          /\ \A i \in 1..Len(first): q[i] = first[i]
          /\ \A i \in 1..Len(middle): q[Len(first) + i] = middle[i]
      BY <1>2, <1>3, Joined
    <3> HIDE DEF q
    <3> QED
      BY <1>4, <2>1, <3>1
  <2> HIDE DEF q
  <2>3. /\ r \in Seq(Names) /\ Len(r) = 3 + m + 1 /\ r[3 + m + 1] = "subscription"
        /\ \A i \in 1..3 + m: r[i] = q[i]
    BY <1>3, <2>1, <2>2
  <2> HIDE DEF r
  <2>4. /\ r \o last \in Seq(Names) /\ Len(r \o last) = 3 + m + 1 + Len(last)
        /\ \A i \in 1..3 + m + 1: (r \o last)[i] = r[i]
        /\ \A i \in 1..Len(last): (r \o last)[3 + m + 1 + i] = last[i]
    <3>1. r \in Seq(Names) /\ last \in Seq(Names)
      BY <1>3, <2>3
    <3>2. /\ r \o last \in Seq(Names) /\ Len(r \o last) = Len(r) + Len(last)
          /\ \A i \in 1..Len(r): (r \o last)[i] = r[i]
          /\ \A i \in 1..Len(last): (r \o last)[Len(r) + i] = last[i]
      BY <3>1, Joined
    <3> QED
      BY <2>3, <3>2
  <2>5. names = r \o last
    BY DEF q, r
  <2> HIDE DEF m, names
  <2>6. \A i \in 1..3: i \in 1..3 + m /\ i \in 1..3 + m + 1
    BY <2>1
  <2>7. \A i \in 1..m: 3 + i \in 1..3 + m /\ 3 + i \in 1..3 + m + 1
    BY <2>1
  <2>8. 3 + m + 1 \in 1..3 + m + 1
    BY <2>1
  <2>9. names[1] = "group" /\ names[2] = "policy" /\ names[3] = MainCatalog
    BY <1>4, <2>2, <2>3, <2>4, <2>5, <2>6
  <2>10. \A i \in 1..m: names[3 + i] = middle[i]
    BY <2>2, <2>3, <2>4, <2>5, <2>7
  <2>11. names[3 + m + 1] = "subscription"
    BY <2>3, <2>4, <2>5, <2>8
  <2> QED
    BY <2>1, <2>4, <2>5, <2>9, <2>10, <2>11 DEF m
<1> HIDE DEF names
<1>7. k[2] \in {"group", "policy", "subscription", MainCatalog} \cup c.extras
               \cup (IF a.stack THEN {"stack"} ELSE {})
      /\ k = <<c.namespace, k[2]>>
  BY DEF Wanted, CatalogNames
<1>8. \E i \in 1..Len(names): names[i] = k[2]
  <2>1. CASE k[2] \in {"group", "policy", "subscription", MainCatalog}
    <3>1. {1, 2, 3, 3 + Len(middle) + 1} \subseteq 1..Len(names)
      BY <1>6
    <3> QED
      BY <1>6, <2>1, <3>1
  <2>2. CASE k[2] \in c.extras
    <3>1. PICK i \in 1..Len(middle): middle[i] = k[2]
      BY <1>1, <2>2, SetToSeqOnto DEF middle
    <3>2. 3 + i \in 1..Len(names)
      BY <1>6
    <3> QED
      BY <1>6, <3>1, <3>2
  <2>3. CASE a.stack /\ k[2] = "stack"
    <3>1. Len(last) = 1
      BY <1>5, <2>3
    <3>2. 3 + Len(middle) + 1 + 1 \in 1..Len(names) /\ 1 \in 1..Len(last)
      BY <1>6, <3>1
    <3> QED
      BY <1>5, <1>6, <2>3, <3>2
  <2> QED
    BY <1>7, <2>1, <2>2, <2>3
<1>9. Plan(a) = [i \in 1..Len(names) |-> <<c.namespace, names[i]>>]
  BY DEF Plan, names, first, middle, last
<1>10. Len(Plan(a)) = Len(names)
  BY <1>6, <1>9
<1> QED
  BY <1>7, <1>8, <1>9, <1>10

\* A write by others of an object: if it was as wanted, its owner hears of the change.
LEMMA WriteSettles ==
    ASSUME IInv, SettleInv, NEW k \in Keys, NEW o, Write(k, o),
           UNCHANGED <<addon, cache, queue, snap, todo>>
    PROVE  SettleInv'
<1>1. cluster \in [Keys -> Object] /\ cluster' = [cluster EXCEPT ![k] = o]
  BY DEF IInv, Objects, Write
<1>2. /\ due \subseteq due' /\ lag \subseteq lag' /\ lag' \subseteq lag \cup {k}
      /\ o # cluster[k] /\ cluster[k].owned => k \in due'
      /\ k \in lag' \ lag => o # cluster[k]
  <2>1. CASE o = cluster[k]
    BY <2>1 DEF Write
  <2>2. CASE o # cluster[k]
    BY <2>2 DEF Write
  <2> QED
    BY <2>1, <2>2
<1>3. ASSUME NEW j \in lag', cache[j].owned PROVE j \in due'
  <2>1. CASE j \in lag
    BY <1>2, <1>3, <2>1 DEF SettleInv
  <2>2. CASE j \notin lag
    <3>1. j = k /\ cache[k] = cluster[k]
      BY <1>2, <2>2 DEF IInv, Objects
    <3> QED
      BY <1>2, <1>3, <2>2, <3>1
  <2> QED
    BY <2>1, <2>2
<1>4. Wanted(addon)' = Wanted(addon)
  BY DEF Wanted, CatalogNames, parseAddonInstallConfig
<1>5. ASSUME NEW j \in Wanted(addon), j[2] # "policy" PROVE Busy(j)' \/ Done(j)'
  <2>1. j \in Keys
    BY WantedType DEF IInv, Addons, OneAddon
  <2>2. CASE Busy(j)
    BY <1>2, <2>2 DEF Busy
  <2>3. CASE Done(j) /\ cluster'[j] = cluster[j]
    BY <2>3 DEF Done, Fits, Desired, desiredOperatorGroup, desiredCatalogSourcesNetworkPolicy,
               desiredCatalogSource, desiredSubscription, getDesiredMonitoringStack,
               CatalogNames, parseAddonInstallConfig
  <2>4. CASE Done(j) /\ cluster'[j] # cluster[j]
    <3>1. j = k /\ o # cluster[k] /\ cluster[k].owned
      BY <1>1, <2>1, <2>4 DEF Done, Fits
    <3> QED
      BY <1>2, <3>1 DEF Busy
  <2> QED
    BY <1>5, <2>2, <2>3, <2>4 DEF SettleInv
<1>6. \A j \in Keys: ~cache'[j].exists => cache'[j] = Absent
  BY DEF SettleInv
<1>7. snap' # addon' => queue'
  BY DEF SettleInv
<1> QED
  BY <1>3, <1>4, <1>5, <1>6, <1>7 DEF SettleInv

\* When the key is in the workqueue everything is being seen to.
LEMMA QueueSettles ==
    ASSUME queue', \A k \in Keys: ~cache'[k].exists => cache'[k] = Absent,
           \A k \in lag': cache'[k].owned => k \in due'
    PROVE  SettleInv'
BY DEF SettleInv, Busy

\* Done speaks of the Addon and the object only.
LEMMA DoneStays ==
    ASSUME NEW k, Done(k), UNCHANGED addon, cluster'[k] = cluster[k]
    PROVE  Done(k)'
BY DEF Done, Fits, Desired, desiredOperatorGroup, desiredCatalogSourcesNetworkPolicy,
       desiredCatalogSource, desiredSubscription, getDesiredMonitoringStack, CatalogNames,
       parseAddonInstallConfig

\* One phase: it leaves its object as wanted, or the key comes back.
LEMMA PhaseSettles ==
    ASSUME IInv, SettleInv, NEW names, reconcileObject(names) PROVE SettleInv'
<1>0. PICK k: k = Head(todo)
  OBVIOUS
<1> DEFINE new == [Absent EXCEPT !.exists = TRUE, !.owned = TRUE, !.content = Desired(snap, k[2])]
<1>1. todo # <<>> /\ UNCHANGED <<addon, cache, snap>>
  BY DEF reconcileObject
<1>2. todo \in Seq({Home(addon)} \X Names) /\ k = todo[1] /\ k \in {Home(addon)} \X Names
  BY <1>0, <1>1 DEF IInv, OneAddon
<1>3. k \in Keys
  <2>1. Home(addon) \in Namespaces
    BY WantedType DEF IInv, Addons, OneAddon
  <2> QED
    BY <1>2, <2>1 DEF Keys
<1>4. cluster \in [Keys -> Object] /\ cache[k] \in Object
  BY <1>3 DEF IInv, Objects
<1>5. PICK o: /\ \/ cluster' = [cluster EXCEPT ![k] = o] /\ Write(k, o)
                 \/ UNCHANGED <<cluster, lag, due>> /\ o = cluster[k]
              /\ \/ queue'
                 \/ /\ ~Unready(k) /\ todo' = Tail(todo) /\ UNCHANGED queue
                    /\ \/ ~cache[k].exists /\ o = new
                       \/ cache[k].exists /\ o = Updated(cache[k], k[2])
                       \/ Fits(cache[k], snap, k[2]) /\ UNCHANGED <<cluster, lag, due>>
                          /\ o = cluster[k]
  <2> DEFINE kept == UNCHANGED <<cluster, lag, due>>
             same == UNCHANGED queue
             rest == Tail(todo)
             edited == Updated(cache[k], k[2])
             fits == Fits(cache[k], snap, k[2])
  <2>1. \/ kept /\ queue'
        \/ /\ queue' \/ (~Unready(k) /\ todo' = rest /\ same)
           /\ \/ ~cache[k].exists /\ Write(k, new)
              \/ cache[k].exists /\ Write(k, edited)
              \/ fits /\ kept
    <3>1. Fail => kept /\ queue'
      BY DEF Fail
    <3>2. Proceed(k) => queue' \/ (~Unready(k) /\ todo' = rest /\ same)
      BY DEF Proceed
    <3>3. \/ Fail
          \/ ~cache[k].exists /\ Write(k, new) /\ Proceed(k)
          \/ cache[k].exists /\ Write(k, edited) /\ Proceed(k)
          \/ fits /\ Proceed(k) /\ kept
      BY <1>0 DEF reconcileObject
    <3> HIDE DEF new, kept, same, rest, edited, fits
    <3> QED
      BY <3>1, <3>2, <3>3, Zenon
  <2>2. \A o: Write(k, o) => cluster' = [cluster EXCEPT ![k] = o]
    BY DEF Write
  <2> HIDE DEF new, kept, same, rest, edited, fits
  <2>3. \E o: /\ \/ cluster' = [cluster EXCEPT ![k] = o] /\ Write(k, o)
                 \/ kept /\ o = cluster[k]
              /\ \/ queue'
                 \/ /\ ~Unready(k) /\ todo' = rest /\ same
                    /\ \/ ~cache[k].exists /\ o = new
                       \/ cache[k].exists /\ o = edited
                       \/ fits /\ kept /\ o = cluster[k]
    BY <2>1, <2>2, Zenon
  <2> QED
    BY <2>3 DEF kept, same, rest, edited, fits
<1>6. /\ cluster'[k] = o /\ (\A j \in Keys \ {k}: cluster'[j] = cluster[j])
      /\ due \subseteq due' /\ lag' \subseteq lag \cup {k}
      /\ k \in lag' \ lag => o # cluster[k] /\ (cluster[k].owned => k \in due')
  <2>1. CASE UNCHANGED <<cluster, lag, due>> /\ o = cluster[k]
    BY <2>1
  <2>2. CASE cluster' = [cluster EXCEPT ![k] = o] /\ Write(k, o)
    <3>1. cluster'[k] = o /\ (\A j \in Keys \ {k}: cluster'[j] = cluster[j])
      BY <1>3, <1>4, <2>2
    <3>2. CASE o = cluster[k]
      BY <2>2, <3>1, <3>2 DEF Write
    <3>3. CASE o # cluster[k]
      BY <2>2, <3>1, <3>3 DEF Write
    <3> QED
      BY <3>2, <3>3
  <2> QED
    BY <1>5, <2>1, <2>2
<1>7. \A j \in lag': cache'[j].owned => j \in due'
  <2> SUFFICES ASSUME NEW j \in lag', cache[j].owned PROVE j \in due'
    BY <1>1
  <2>1. CASE j \in lag
    BY <1>6, <2>1 DEF SettleInv
  <2>2. CASE j \notin lag
    <3>1. j = k /\ cache[k] = cluster[k]
      BY <1>3, <1>6, <2>2 DEF IInv, Objects
    <3> QED
      BY <1>6, <2>2, <3>1
  <2> QED
    BY <2>1, <2>2
<1>8. \A j \in Keys: ~cache'[j].exists => cache'[j] = Absent
  BY <1>1 DEF SettleInv
<1>9. CASE queue'
  BY <1>7, <1>8, <1>9, QueueSettles
<1>10. CASE ~queue'
  <2>1. ~Unready(k) /\ todo' = Tail(todo) /\ ~queue /\ snap = addon
    BY <1>5, <1>10 DEF SettleInv
  <2>2. Wanted(addon)' = Wanted(addon)
    BY <1>1 DEF Wanted, CatalogNames, parseAddonInstallConfig
  <2>3. k[2] \in Statused => cache[k].status
    BY <2>1 DEF Unready, Statused, propagateMonitoringStackStatusToAddon
  <2>4. k \in due' \/ Done(k)'
    <3>1. Desired(addon, k[2])' = Desired(addon, k[2])
      BY <1>1 DEF Desired, desiredOperatorGroup, desiredCatalogSourcesNetworkPolicy,
                  desiredCatalogSource, desiredSubscription, getDesiredMonitoringStack,
                  CatalogNames, parseAddonInstallConfig
    <3>2. CASE ~cache[k].exists /\ o = new
      <4>1. cache[k] = Absent
        BY <1>3, <3>2 DEF SettleInv
      <4>2. k[2] \notin Statused
        BY <2>3, <4>1 DEF Absent
      <4>3. o.exists /\ o.owned /\ o.content = Desired(addon, k[2])
        BY <2>1, <3>2 DEF Absent
      <4> QED
        BY <1>6, <3>1, <4>2, <4>3 DEF Done, Fits
    <3>3. CASE cache[k].exists /\ o = Updated(cache[k], k[2])
      <4>1. o.exists /\ o.owned /\ o.content = Desired(addon, k[2]) /\ o.status = cache[k].status
        BY <1>4, <2>1, <3>3 DEF Updated, Object
      <4> QED
        BY <1>6, <2>3, <3>1, <4>1 DEF Done, Fits
    <3>4. CASE Fits(cache[k], snap, k[2]) /\ UNCHANGED <<cluster, lag, due>> /\ o = cluster[k]
      <4>1. CASE k \in lag
        BY <3>4, <4>1 DEF SettleInv, Fits
      <4>2. CASE k \notin lag
        <5>1. cluster'[k] = cache[k]
          BY <1>3, <3>4, <4>2 DEF IInv, Objects
        <5> QED
          BY <2>1, <2>3, <3>1, <3>4, <5>1 DEF Done, Fits
      <4> QED
        BY <4>1, <4>2
    <3> QED
      BY <1>5, <1>10, <3>2, <3>3, <3>4
  <2>5. ASSUME NEW j \in Wanted(addon), j[2] # "policy" PROVE Busy(j)' \/ Done(j)'
    <3>1. j \in Keys
      BY WantedType DEF IInv, Addons, OneAddon
    <3>2. CASE j = k
      BY <2>4, <3>2 DEF Busy
    <3>3. CASE j # k /\ j \in due
      BY <1>6, <3>3 DEF Busy
    <3>4. CASE j # k /\ \E i \in 1..Len(todo): todo[i] = j
      <4>1. PICK i \in 1..Len(todo): todo[i] = j
        BY <3>4
      <4>2. i # 1
        BY <1>2, <3>4, <4>1
      <4>3. i - 1 \in 1..Len(Tail(todo)) /\ Tail(todo)[i - 1] = j
        <5>1. Len(todo) \in Nat /\ Len(Tail(todo)) = Len(todo) - 1
          BY <1>1, <1>2
        <5>2. i - 1 \in 1..Len(Tail(todo)) /\ (i - 1) + 1 = i
          BY <4>2, <5>1
        <5>3. Tail(todo)[i - 1] = todo[(i - 1) + 1]
          BY <1>1, <1>2, <5>1, <5>2
        <5> QED
          BY <4>1, <5>2, <5>3
      <4> QED
        BY <2>1, <4>3 DEF Busy
    <3>5. CASE j # k /\ Done(j)
      <4>1. cluster'[j] = cluster[j]
        BY <1>6, <3>1, <3>5
      <4> QED
        BY <1>1, <3>5, <4>1, DoneStays
    <3>6. queue \/ j \in due \/ (\E i \in 1..Len(todo): todo[i] = j) \/ Done(j)
      BY <2>5 DEF SettleInv, Busy
    <3> QED
      BY <2>1, <3>2, <3>3, <3>4, <3>5, <3>6
  <2>6. snap' # addon' => queue'
    BY <1>1, <2>1
  <2> QED
    BY <1>7, <1>8, <2>2, <2>5, <2>6 DEF SettleInv
<1> QED
  BY <1>9, <1>10

\* A new pass has everything before it.
LEMMA BeginSettles == ASSUME IInv, SettleInv, Begin PROVE SettleInv'
<1>1. /\ snap' = addon /\ todo' = Plan(addon) /\ UNCHANGED <<addon, cluster, cache, lag, due>>
  BY DEF Begin
<1>2. Wanted(addon)' = Wanted(addon)
  BY <1>1 DEF Wanted, CatalogNames, parseAddonInstallConfig
<1>3. \A j \in Wanted(addon): Busy(j)'
  BY <1>1, PlanCovers DEF Busy, IInv, Addons, OneAddon
<1> QED
  BY <1>1, <1>2, <1>3 DEF SettleInv

\* An event on an object brings the key into the workqueue.
LEMMA SyncSettles == ASSUME IInv, SettleInv, NEW k \in lag, Sync(k) PROVE SettleInv'
<1>1. /\ cache' = [cache EXCEPT ![k] = cluster[k]] /\ lag' = lag \ {k} /\ due' = due \ {k}
      /\ UNCHANGED <<addon, cluster, snap, todo>>
  BY DEF Sync, passVars
<1>0. queue \/ (k[2] # "policy" /\ k \in due) => queue'
  <2>1. queue' = (queue \/ (k[2] # "policy" /\ k \in due))
    BY DEF Sync
  <2> QED
    BY <2>1, Zenon
<1>2. /\ k \in Keys /\ cache \in [Keys -> Object] /\ lag \subseteq Keys
      /\ ~cluster[k].exists => cluster[k] = Absent
  BY DEF IInv, Objects
<1>3. cache'[k] = cluster[k] /\ \A j \in Keys \ {k}: cache'[j] = cache[j]
  BY <1>1, <1>2
<1>4. \A j \in Keys: ~cache'[j].exists => cache'[j] = Absent
  BY <1>2, <1>3 DEF SettleInv
<1>5. \A j \in lag': cache'[j].owned => j \in due'
  BY <1>1, <1>2, <1>3 DEF SettleInv
<1>6. Wanted(addon)' = Wanted(addon)
  BY <1>1 DEF Wanted, CatalogNames, parseAddonInstallConfig
<1>7. ASSUME NEW j \in Wanted(addon), j[2] # "policy" PROVE Busy(j)' \/ Done(j)'
  <2>1. CASE Busy(j)
    BY <1>0, <1>1, <1>7, <2>1 DEF Busy
  <2>2. CASE Done(j)
    BY <1>1, <2>2, DoneStays
  <2> QED
    BY <1>7, <2>1, <2>2 DEF SettleInv
<1>8. snap' # addon' => queue'
  BY <1>0, <1>1 DEF SettleInv
<1> QED
  BY <1>4, <1>5, <1>6, <1>7, <1>8 DEF SettleInv

\* Every step preserves SettleInv.
LEMMA StepSettles == IInv /\ SettleInv /\ [Next]_vars => SettleInv'
<1> SUFFICES ASSUME IInv, SettleInv, [Next]_vars PROVE SettleInv'
  OBVIOUS
<1>1. CASE UpdateAddon \/ CallFails
  <2>1. queue' /\ UNCHANGED <<cache, lag, due>>
    BY <1>1 DEF UpdateAddon, CallFails, Fail
  <2> QED
    BY <2>1, QueueSettles DEF SettleInv
<1>2. CASE \E k \in Wanted(addon): OthersMove(k)
  <2>1. PICK k \in Wanted(addon): OthersMove(k)
    BY <1>2
  <2>2. k \in Keys /\ UNCHANGED <<addon, cache, queue, snap, todo>>
    BY <2>1, WantedType DEF OthersMove, passVars, IInv, Addons, OneAddon
  <2>3. \E o: Write(k, o)
    BY <2>1 DEF OthersMove
  <2> QED
    BY <2>2, <2>3, WriteSettles
<1>3. CASE \E k \in Keys: StatusMoves(k)
  <2>1. PICK k \in Keys: StatusMoves(k)
    BY <1>3
  <2>2. UNCHANGED <<addon, cache, queue, snap, todo>> /\ \E o: Write(k, o)
    BY <2>1 DEF StatusMoves, passVars
  <2> QED
    BY <2>2, WriteSettles
<1>4. CASE \E k \in lag: Sync(k)
  BY <1>4, SyncSettles
<1>5. CASE Worker
  BY <1>5, BeginSettles, PhaseSettles
  DEF Worker, ensureOperatorGroup, ensureCatalogSourcesNetworkPolicy, ensureCatalogSource,
      ensureAdditionalCatalogSources, ensureSubscription, ensureMonitoringStack
<1>6. CASE UNCHANGED vars
  <2>1. UNCHANGED <<addon, cluster, cache, lag, due, queue, snap, todo>>
    BY <1>6 DEF vars, passVars
  <2>2. Wanted(addon)' = Wanted(addon)
    BY <2>1 DEF Wanted, CatalogNames, parseAddonInstallConfig
  <2>3. ASSUME NEW j \in Wanted(addon), j[2] # "policy" PROVE Busy(j)' \/ Done(j)'
    BY <2>1, <2>3, DoneStays DEF SettleInv, Busy
  <2> QED
    BY <2>1, <2>2, <2>3 DEF SettleInv
<1> QED
  BY <1>1, <1>2, <1>3, <1>4, <1>5, <1>6 DEF Next

\* The safety half of ObjectsSettle: the operator never comes to rest with a watched object
\* that is not as the Addon asks or a CatalogSource that OLM cannot reach, whatever others
\* did, which calls failed and however late the events came.
THEOREM RestsSettled == Spec => []SettledAtRest
<1>1. Init => SettleInv
  <2> SUFFICES ASSUME Init PROVE SettleInv
    OBVIOUS
  <2>1. queue /\ snap = addon /\ cache = cluster /\ lag = {}
    BY DEF Init
  <2>2. \A k \in Keys: ~cluster[k].exists => cluster[k] = Absent
    BY Initially DEF IInv, Objects
  <2> QED
    BY <2>1, <2>2 DEF SettleInv, Busy
<1>2. IInv /\ SettleInv => SettledAtRest
  <2> SUFFICES ASSUME IInv, SettleInv, AtRest, NEW k \in Wanted(addon)
               PROVE  /\ k[2] # "policy" => Fits(cluster[k], addon, k[2])
                      /\ k[2] \in Catalogs => cluster[k].status /\ Reachable(k)
    BY DEF SettledAtRest, Settled
  <2>1. k \in Keys
    BY WantedType DEF IInv, Addons, OneAddon
  <2>2. k[2] # "policy" => Done(k)
    BY DEF SettleInv, AtRest, Busy
  <2>3. ASSUME k[2] \in Catalogs PROVE cluster[k].status /\ Reachable(k)
    <3>1. k[2] # "policy" /\ k[2] \in Statused
      BY <2>3, OLMAssumption DEF Catalogs, Statused
    <3>2. cluster[k].exists /\ cluster[k].status /\ cluster[k].status = StatusOf(k)
      BY <2>1, <2>2, <3>1 DEF Done, Fits, AtRest
    <3>3. StatusOf(k) = Reachable(k)
      BY <2>3 DEF StatusOf
    <3> QED
      BY <3>2, <3>3
  <2> QED
    BY <2>2, <2>3 DEF Done
<1> QED
  BY Invariance, <1>1, <1>2, StepSettles, PTL DEF Spec
=============================================================================
