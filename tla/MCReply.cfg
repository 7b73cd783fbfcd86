CONSTANTS
    v = v
    w = w
    x = x
    Waits = {v, w, x}
    Body <- Bodies
    MaxDeaths = 1
SPECIFICATION ReplySpec
INVARIANTS
    RepliesOnce
    ReceiptTrue
    NothingSentStale
    HeldApart
PROPERTIES
    RefusedByOthers
CHECK_DEADLOCK FALSE
