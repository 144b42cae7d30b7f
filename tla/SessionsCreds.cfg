SPECIFICATION Spec
CONSTANTS
    Ids = {s1}
    Cmds = {c1}
    Closers = {k1}
    None = None
    Configured <- NetAndCreds
    MaxObjects = 1
INVARIANTS CredsZeroed
CHECK_DEADLOCK FALSE
