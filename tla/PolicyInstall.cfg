SPECIFICATION FairSpec
CONSTANTS
    Ids = {main, other}
    Selected = main
    Pushed = {1, 2, 3}
    Broken = {3}
    Sessions = {u}
    MaxBinds = 2
    MaxFaults = 2
INVARIANTS EnforcedSigned RecordedInForce WholeUnlessCut
PROPERTIES PushTakesEffect PolicyConverges
CHECK_DEADLOCK FALSE
