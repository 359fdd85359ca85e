SPECIFICATION Spec
CONSTANTS
    r1 = r1
    r2 = r2
    p1 = p1
    p2 = p2
    c1 = c1
    c2 = c2
    NoPlan = NoPlan
    NumSinks = 1
    LogLevels = {"warn"}
    ExternalSinks = {}
    Requests <- MCRequests
    Calls <- MCCalls
    Policies <- MCPolicies
    Plans <- MCPlans
    Confirms <- MCConfirms
    ConfirmTarget <- MCConfirmTarget
CHECK_DEADLOCK FALSE
INVARIANTS
    TrailNeverLost
