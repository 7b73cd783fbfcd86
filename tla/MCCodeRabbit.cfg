CONSTANTS
    Correlation = 1
    WaitBuffer = 1
    Automatic = 1
    Answer = 2
    InProgress = 2
    UnknownWait = 1
    r1 = r1
    r2 = r2
    Run = {r1, r2}
    Sha = sha
    OtherSha = other
    Worlds <- AllWorlds
SPECIFICATION Spec
INVARIANTS
    TriggerWhenIdle
    NoRepeatedTrigger
    SilenceEnds
PROPERTIES
    RefusalHonoured
    CompleteIsCurrent
CHECK_DEADLOCK FALSE
