--------------------------- MODULE MCOCMReporting ---------------------------
EXTENDS OCMReporting
=============================================================================
