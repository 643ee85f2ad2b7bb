SPECIFICATION FairSpec
CONSTANTS
    poA = poA
    poB = poB
    si = si
    ex = ex
    cn = cn
    q1 = q1
    q2 = q2
    NoRecord = NoRecord
    NoWork = NoWork
    Records = {poA, si}
    TypeOf <- TypeOfRecords
    Amount <- AmountOfRecords
    PoOf <- NoOrders
    Categorised <- AllCategorised
    Templates = {"po", "si", "expense", "cn"}
    Requests = {q1, q2}
    MaxRecords = 1
    MaxApprovals = 1
    Faults = TRUE
INVARIANT OnlyApprovedCounts
INVARIANT LineMatchesTrail
PROPERTY ApprovalsReachLedger
CHECK_DEADLOCK FALSE
