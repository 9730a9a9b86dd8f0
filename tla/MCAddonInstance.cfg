SPECIFICATION FairSpec
CONSTANTS
    Periods = {0, 1}
    DefaultPeriod = 1
    ThresholdMultiplier = 1
    MaxAge = 2
    MaxMeetings = 1
    MaxEdits = 1
    MaxFaults = 1
INVARIANT TypeOK
PROPERTIES
    VerdictFits
    NoLostUpdate
    VerdictSettles
    
CHECK_DEADLOCK FALSE
