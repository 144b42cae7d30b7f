SPECIFICATION FairSpec
CONSTANTS
    Stoppers = {s1, s2}
    EventCap = 1
    MaxDials = 2
    MaxPolicy = 2
    MaxWire = 1
INVARIANTS RecvOwnsConn NothingLeaks StopQuiesces PolicyCurrent
PROPERTIES StopReturns
CHECK_DEADLOCK FALSE
