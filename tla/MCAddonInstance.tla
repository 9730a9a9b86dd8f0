--------------------------- MODULE MCAddonInstance ---------------------------
EXTENDS AddonInstance
==============================================================================
