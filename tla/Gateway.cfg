SPECIFICATION FairSpec
CONSTANTS
    Routes <- MCRoutes
    WellFormed = {"x"}
    Slack = 1
    Requests = {"r1", "r2"}
    Asks <- MCAsks
    Configs <- MCConfigs
    Ends = {"ok", "Timeout"}
    Drawn <- MCDrawn
CHECK_DEADLOCK FALSE
INVARIANTS
    OrderlyShutdown
    RefusalsOnRecord
PROPERTIES
    Stops
