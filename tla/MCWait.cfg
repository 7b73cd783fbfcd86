CONSTANTS
    Values <- AllValues
    Class <- Classes
    Key <- KeyOf
    Kept <- NewOrForeign
    Changes = 2
    Crashes = 1
SPECIFICATION WaitSpec
INVARIANTS
    NothingSwallowed
    TimedOutSawNothing
PROPERTIES
    ChangeTold
CHECK_DEADLOCK FALSE
