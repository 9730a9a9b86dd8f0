SPECIFICATION FairSpec
CONSTANTS
    Addons = {a1}
    FeatureFlags = {none, toggled}
    NoFlags = none
    NoAddon = NoAddon
    MaxSpecChanges = 2
    MaxRestarts = 1
    MaxFaults = 1
INVARIANTS
    TypeOK
    NoReconcileUnderPause
PROPERTIES
    ConditionFollowsFlag
    PauseReachesAddons
