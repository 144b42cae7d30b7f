SPECIFICATION Spec
CONSTANTS
    Gens = {0, 1}
    MaxSeq = 1
    MaxWrites = 3
    MaxMarkers = 0
    MaxRecords = 1
    MaxInflight = 1
    EmitExtended = TRUE
    ServerClaims <- AnyClaim
    MaxFaults = 1
INVARIANTS AckChain AckWithinWritten
PROPERTIES PersistedNeverRegresses
CHECK_DEADLOCK FALSE
