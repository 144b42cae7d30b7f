SPECIFICATION FairSpec
CONSTANTS
    Gens = {0, 1}
    Seqs = {0, 1}
    HeaderSize = 1
    DataSize = 2
    LossSize = 1
    SegmentSize = 5
    MaxTotalBytes = 9
    MaxFaults = 1
    MaxAppends = 4
    Stamps <- ThreeStamps
INVARIANTS TypeOK SegmentsOrdered LossAccounted AckMirror 
PROPERTIES MetaNeverRegresses ImplementsLog LockReleased
CHECK_DEADLOCK FALSE
