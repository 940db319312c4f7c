SPECIFICATION FairSpec
CONSTANTS
    Clients = {c1, c2, c3}
    Descriptors = 2
    MaxRequests = 2
INVARIANTS
    TypeOK
    ServesItsOwnPort
    OneMoreRound
    OneMoreRequest
PROPERTIES
    NeverGetsOneBack
    ServerEnds
CHECK_DEADLOCK FALSE
