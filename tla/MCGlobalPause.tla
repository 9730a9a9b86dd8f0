--------------------------- MODULE MCGlobalPause ---------------------------
EXTENDS GlobalPause
============================================================================
