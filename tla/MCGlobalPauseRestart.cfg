SPECIFICATION Spec
CONSTANTS
    Addons = {a1}
    FeatureFlags = {none}
    NoFlags = none
    NoAddon = NoAddon
    MaxSpecChanges = 1
    MaxRestarts = 1
    MaxFaults = 0
INVARIANT PauseAsAsked
