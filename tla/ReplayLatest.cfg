SPECIFICATION ReplaySpec
CONSTANTS
    Partitions <- MCPartitions
    MaxOffset <- MCMaxOffset
    Logs <- MCLogs
    Windows <- MCWindows
    Bounds <- MCLatestBounds
    Matchers <- MCMatchers
    Kind <- MCKind
    Time <- MCTime
    Size <- MCSize
    TargetTopics <- MCOneTarget
    MaxCalls = 1
CHECK_DEADLOCK FALSE
INVARIANT RetryLosesNothing
