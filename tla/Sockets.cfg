SPECIFICATION MCSpec
CONSTANTS
    MaxWrites = 3
    MaxCloses = 2
    EarlyClose = FALSE
    Peers = {p1, p2}
    MaxSends = 2
    UdpCloses = 1
    MaxCalls = 3
    Cases = {}
INVARIANTS OperationsAnswered 
PROPERTIES DeliveriesWanted OperationsComplete
CHECK_DEADLOCK FALSE
