SPECIFICATION FairSpec
CONSTANTS
    Writers = {w1, w2}
    Gens = {0, 1}
    RestoreAllocator = TRUE
    MaxEvents = 4
    MaxFaults = 2
INVARIANTS WireChain ChainFollowsWal NoSpuriousFatal CloseSafe
PROPERTIES Quiesced CloseReturns
CHECK_DEADLOCK FALSE
