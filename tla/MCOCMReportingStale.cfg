SPECIFICATION FairSpec
CONSTANTS
    MaxVersion = 1
    statusReportingEnabled = TRUE
    upgradePolicyStatusEnabled = FALSE
    MaxEdits = 0
    MaxMoves = 1
    MaxFaults = 0
PROPERTIES
    OCMUpToDate
CHECK_DEADLOCK FALSE
