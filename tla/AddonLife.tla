----------------------------- MODULE AddonLife -----------------------------
(***************************************************************************)
(* What the addon operator promises about one Addon object, without saying *)
(* how: its life, what it leaves in the cluster and in the operator while  *)
(* it lives, and the course of its upgrades as its conditions tell it.     *)
(* AddonReconciler implements this specification.                          *)
(***************************************************************************)

VARIABLES
    life,       \* of the object: "held" and "terminating" with the finalizer
    footprint,  \* what would stay behind if the object were gone
    upgrade     \* which of UpgradeStarted and UpgradeSucceeded it reports

vars == <<life, footprint, upgrade>>

Lives == {"absent", "new", "held", "terminating"}
Footprint == {"template", "mapping"}
Upgrades == {"none", "started", "succeeded"}

Init == life = "absent" /\ footprint = {} /\ upgrade = "none"

Create ==
    /\ life = "absent"
    /\ life' = "new"
    /\ UNCHANGED <<footprint, upgrade>>

\* The finalizer comes before anything that has to be cleaned up.
Hold ==
    /\ life = "new"
    /\ life' = "held"
    /\ UNCHANGED <<footprint, upgrade>>

Terminate ==
    /\ life = "held"
    /\ life' = "terminating"
    /\ UNCHANGED <<footprint, upgrade>>

\* Resources come and go while the finalizer is there.
Work ==
    /\ life \in {"held", "terminating"}
    /\ footprint' \in SUBSET Footprint
    /\ UNCHANGED <<life, upgrade>>

\* The object goes when nothing is left but the mapping, and the mapping goes with it.
Remove ==
    /\ life = "new" \/ (life = "terminating" /\ "template" \notin footprint)
    /\ life' = "absent" /\ footprint' = {} /\ upgrade' = "none"

\* An upgrade succeeds once after each time it started; no report is dropped.
Report ==
    /\ life # "absent"
    /\ \/ upgrade' = "started"
       \/ upgrade = "started" /\ upgrade' = "succeeded"
    /\ UNCHANGED <<life, footprint>>

Next == Create \/ Hold \/ Terminate \/ Work \/ Remove \/ Report

Spec == Init /\ [][Next]_vars
=============================================================================
