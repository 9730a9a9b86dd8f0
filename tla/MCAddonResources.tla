-------------------------- MODULE MCAddonResources --------------------------
EXTENDS AddonResources

\* An Addon that asks for nothing, and one that asks for everything.
MCSpecs == {[app |-> b, secrets |-> b, federation |-> b]: b \in BOOLEAN}
=============================================================================
