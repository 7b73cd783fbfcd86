CONSTANTS
    v = v
    w = w
    x = x
    Waits = {v, w, x}
    Body <- Bodies
    MaxDeaths = 1
SPECIFICATION ReplySpec
INVARIANTS
    OneHolder
CHECK_DEADLOCK FALSE
