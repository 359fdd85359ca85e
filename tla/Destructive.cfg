SPECIFICATION FairSpec
CONSTANTS
    r1 = r1
    r2 = r2
    p1 = p1
    p2 = p2
    c1 = c1
    c2 = c2
    NoPlan = NoPlan
    NumSinks = 2
    LogLevels = {"info", "warn"}
    ExternalSinks = {2}
    Requests <- MCRequests
    Calls <- MCCalls
    Policies <- MCPolicies
    Plans <- MCPlans
    Confirms <- MCConfirms
    ConfirmTarget <- MCConfirmTarget
CHECK_DEADLOCK FALSE
INVARIANTS
    IInv
    FailClosed
    AuthorisedChange
    OneVerdict
    TruthfulTrail
    UnavailableIsUntouched
PROPERTIES
    Answered
    ChangeReported
    KeepsAuditPromise
