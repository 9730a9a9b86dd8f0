SPECIFICATION FairSpec
CONSTANTS
    MaxVersion = 2
    MaxCSV = 2
    AddonsPlugAndPlay = FALSE
    InstallAckRequired = FALSE
    MaxEdits = 2
    MaxTroubles = 1
PROPERTIES
    DeletionCompletes
CHECK_DEADLOCK FALSE
