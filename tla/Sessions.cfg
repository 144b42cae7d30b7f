SPECIFICATION Spec
CONSTANTS
    Ids = {s1}
    Cmds = {c1, c2}
    Closers = {k1, k2}
    None = None
    Configured <- ProxyAndMount
    MaxObjects = 2
SYMMETRY Alike
INVARIANTS MountOnce LiveIntact LeaksOnlyRaced
CHECK_DEADLOCK FALSE
