CONSTANTS
    p = p
    q = q
    Ingesters = {p, q}
    Worlds <- AllWorlds
SPECIFICATION Spec
INVARIANTS
    LedgerValid
    WrittenOnce
    SummaryExact
    RetryHeals
CHECK_DEADLOCK FALSE
