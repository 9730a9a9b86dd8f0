-------------------------- MODULE MCAddonReconciler --------------------------
EXTENDS AddonReconciler
=============================================================================
