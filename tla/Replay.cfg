SPECIFICATION ReplaySpec
CONSTANTS
    Partitions <- MCPartitions
    MaxOffset <- MCMaxOffset
    Logs <- MCLogs
    Windows <- MCWindows
    Bounds <- MCBounds
    Matchers <- MCMatchers
    Kind <- MCKind
    Time <- MCTime
    Size <- MCSize
    TargetTopics <- MCTargets
    MaxCalls = 2
CHECK_DEADLOCK FALSE
INVARIANTS
    NothingSkipped
    EndIsCopied
