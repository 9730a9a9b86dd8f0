SPECIFICATION FairSpec
CONSTANTS
    Addons = {a1, a2}
    OperatorKeys = {k1, k2}
    NoAddon = NoAddon
    NoKey = NoKey
    MaxChanges = 2
    MaxRestarts = 1
INVARIANTS HandlerTypeOK MapsInverse
PROPERTY ChangesObserved
