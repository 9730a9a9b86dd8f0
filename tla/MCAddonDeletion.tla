--------------------------- MODULE MCAddonDeletion ---------------------------
EXTENDS AddonDeletion
=============================================================================
