SPECIFICATION Spec
CONSTANTS
    Routes <- MCRoutes
    WellFormed = {"x"}
    Slack = 1
    Requests = {"r1"}
    Asks <- MCMintedAsks
    Configs <- MCMinted
    Ends = {"ok", "Timeout"}
    Drawn <- MCDrawn
CHECK_DEADLOCK FALSE
INVARIANTS
    MintedKeyOpens
