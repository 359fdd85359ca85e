SPECIFICATION ReplaySpec
CONSTANTS
    Partitions <- MCPartitions
    MaxOffset <- MCMaxOffset
    Logs <- MCLogs
    Windows <- MCWindows
    Bounds <- MCBounds
    Matchers <- MCMatchers
    Kind <- MCKind
    Time <- MCTime
    Size <- MCSize
    TargetTopics <- MCTwoTargets
    MaxCalls = 1
CHECK_DEADLOCK FALSE
INVARIANT RetryLosesNothing
