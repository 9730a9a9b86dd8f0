SPECIFICATION FairSpec
CONSTANTS
    MaxEdits = 3
    MaxFaults = 1
    MaxRestarts = 1
INVARIANTS
    TypeOK
    ReadyClearsTimeout
    TimeoutAfterNotice
PROPERTIES
    WaitEnds
CHECK_DEADLOCK FALSE
