SPECIFICATION Spec
CONSTANTS
    Ids = {main, other}
    Selected = main
    Pushed = {1, 2, 3}
    Broken = {3}
    Sessions = {u}
    MaxBinds = 1
    MaxFaults = 1
INVARIANT GlobalCarriesTor
CHECK_DEADLOCK FALSE
