CONSTANTS
    g1 = g1
    g2 = g2
    Guards <- AllGuards
    Worlds <- AllWorlds
SYMMETRY Symmetry
SPECIFICATION StackSpec
INVARIANTS
    OnlyAdmitted
    VerdictTrue
CHECK_DEADLOCK FALSE
