CONSTANTS
    CensusWorlds <- AllCensusWorlds
    SnapshotWorlds <- AllSnapshotWorlds
SPECIFICATION Spec
INVARIANTS
    GreenTogether
    FallbackAgrees
PROPERTIES
    FailFast
    WaitEnds
    NothingOverlooked
CHECK_DEADLOCK FALSE
