CONSTANTS
    Specs <- MCSpecs
    MaxData = 2
    MaxEdits = 1
    MaxMoves = 1
    MaxFaults = 1
SPECIFICATION Spec
INVARIANT TypeOK
PROPERTY NoUndoing
PROPERTY NamespaceSettles
PROPERTY SecretsPropagated
PROPERTY FederationSettles
