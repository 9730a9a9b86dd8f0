SPECIFICATION FairSpec
CONSTANTS
    MaxVersion = 2
    statusReportingEnabled = TRUE
    upgradePolicyStatusEnabled = TRUE
    MaxEdits = 1
    MaxMoves = 2
    MaxFaults = 1
INVARIANTS
    TypeOK
PROPERTIES
    HashIsReported
    PolicyNotReopened
    UpgradeRecorded
CHECK_DEADLOCK FALSE
