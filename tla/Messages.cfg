SPECIFICATION MessagesSpec
CONSTANTS
    Partitions <- MCPartitions
    MaxOffset <- MCMaxOffset
    Logs <- MCLogs
    Windows = {}
    Bounds <- MCBounds
    Matchers <- MCMatchers
    Kind <- MCKind
    Time <- MCTime
    Size <- MCSize
    Words <- MCWords
    Empty = ""
    UTF8 <- MCUTF8
    Parsed <- MCParsed
    Base64 <- MCBase64
    Found <- MCFound
    Slow <- MCSlow
    Selected <- MCSelected
    Asks <- MCAsks
    Policies <- MCPolicies
    Default <- MCDefault
    Ceiling <- MCCeiling
    TargetCount = 1
    Payload <- MCPayload
    Submissions <- MCSubmissions
    BodyLimit = 5
    Hash <- MCHash
CHECK_DEADLOCK FALSE
INVARIANTS
    ReadIsComplete
    ReadIsWithin
    LockHolds
    GetIsTheRecord
    AcknowledgedIsThere
    AllOrNothingBegins
