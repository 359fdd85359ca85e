SPECIFICATION Spec
CONSTANTS
    Asks <- MCAsks
    MaxMoves = 3
    Names <- MCNames
    Brokers = {1, 2}
    Dir <- MCDir
    Keys = {"k", "p"}
    Default <- MCDefault
    Sensitive = {"p"}
    MaxEnd = 2
    MaxAffected = 2
    SecondsDefault = 1
    SecondsCeiling = 3
    Clusters <- MCClusters
    PageDefault = 2
    PageCeiling = 4
    IntMax = 7
    Users = {"alice", "bob"}
    Mechanisms = {"sha256", "sha512"}
    DefaultIterations = 4
    QuotaKeys = {"rate", "mutations"}
    WireKeys = {"rate"}
    Secrets <- MCSecrets
CHECK_DEADLOCK FALSE
INVARIANTS
    AppliedAsTold
    ViewIsReal
    CredentialsAsTold
