SPECIFICATION FairSpec
CONSTANTS
    MaxVersion = 2
    MaxCSV = 2
    AddonsPlugAndPlay = TRUE
    InstallAckRequired = TRUE
    MaxEdits = 2
    MaxTroubles = 1
INVARIANTS
    TypeOK
PROPERTIES
    ImplementsLife
    UpgradeAnnounced
    UpgradeConcluded
    DeletionCompletes
    PausedConditionSettles
    AvailableSettles
CHECK_DEADLOCK FALSE
