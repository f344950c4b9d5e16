SPECIFICATION Spec
CONSTANTS
    RioBufSize = 2
    SockBuf = 2
    MaxLine = 4
    MaxBuf = 3
    Request <- MCRequest
    Connections = 3
    Addresses = 2
INVARIANTS
    RepliesAreResponses
    ResponsesAreWhole
    OnlyImpatienceKills
PROPERTIES
    ConnectionsEnd
CHECK_DEADLOCK FALSE
