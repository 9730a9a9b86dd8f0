SPECIFICATION FairSpec
CONSTANTS
    Created <- MCCreated
    Requests <- MCRequests
    Name = "name"
    MainCatalog = "main"
    Namespaces = {"ns1", "ns2"}
    Extras = {"e1"}
    Images = {"i1", "i2"}
    Channels = {"c1", "c2"}
    MaxTroubles = 1
    MaxEvents = 2
INVARIANTS
    TypeOK
    OneHome
PROPERTIES
    ApprovalKept
    PolicyFirst
    
CHECK_DEADLOCK FALSE
