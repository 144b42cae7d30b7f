SPECIFICATION FairSpec
CONSTANTS
    Cmds = {c1, c2, m1, m2}
    Monitors = {m1, m2}
    Ids = {s1}
    SessionOf <- MCSessionOf
    MaxPerSession = 2
    None = None
INVARIANTS TypeOK RateExact PendingLive RunsOnlyApproved
 
CHECK_DEADLOCK FALSE
