SPECIFICATION Spec
CONSTANTS
    Gens = {0}
    MaxSeq = 2
    MaxWrites = 3
    MaxMarkers = 1
    MaxRecords = 2
    MaxInflight = 1
    EmitExtended = TRUE
    ServerClaims <- NoClaims
    MaxFaults = 1
INVARIANTS AckedDelivered NoLostWakeup WithinWindow
PROPERTIES SentInOrder
CHECK_DEADLOCK FALSE
