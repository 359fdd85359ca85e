SPECIFICATION Spec
CONSTANTS
    Ids <- MCIds
    Members = {"m"}
    TPs <- MCTPs
    MaxOffset = 2
    MaxMoves = 3
    Stamp <- MCStamp
    Asks <- MCAsks
    Starts <- MCStarts
    PageDefault = 2
    PageCeiling = 3
    IntMax = 7
CHECK_DEADLOCK FALSE
INVARIANTS
    IdleWhenChanged
    DoneAsTold
    LagIsReal
