SPECIFICATION FairSpec
CONSTANTS
    Partitions <- MCPartitions
    MaxOffset <- MCMaxOffset
    Logs <- MCLogs
    Windows <- MCWindows
    Bounds <- MCBounds
    Matchers <- MCMatchers
    Kind <- MCKind
    Time <- MCTime
    Size <- MCSize
CHECK_DEADLOCK FALSE
INVARIANTS
    ScanInv
    NoGap
    NoOverlap
    ItemsAreTheMatches
    BoundsHold
    HonestEnd
    LatestIsNewest
PROPERTY
    Returns
