SPECIFICATION FairSpec
CONSTANTS
    Gens = {0}
    MaxSeq = 2
    MaxWrites = 3
    MaxMarkers = 1
    MaxRecords = 1
    MaxInflight = 1
    EmitExtended = TRUE
    ServerClaims <- NoClaims
    MaxFaults = 1
PROPERTIES NoStall
CHECK_DEADLOCK FALSE
