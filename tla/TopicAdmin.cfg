SPECIFICATION Spec
CONSTANTS
    n1 = n1
    n2 = n2
    v1 = v1
    r1 = r1
    Gone = Gone
    NoPlan = NoPlan
    MaxPartitions = 2
    MaxOffset = 1
    MaxBirths = 3
    Names <- MCNames
    Values <- MCValues
    Requests <- MCRequests
    Calls <- MCCalls
CHECK_DEADLOCK FALSE
INVARIANTS
    AdminInv
    DeletesOnlyTheConfirmed
    BulkItemsTruthful
    PurgeSparesNewRecords
    RemovesAsPlanned
    SuccessIsWhole
