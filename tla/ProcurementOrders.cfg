SPECIFICATION Spec
CONSTANTS
    poA = poA
    poB = poB
    si = si
    ex = ex
    cn = cn
    q1 = q1
    q2 = q2
    NoRecord = NoRecord
    NoWork = NoWork
    Records = {poA, poB, si, ex, cn}
    TypeOf <- TypeOfRecords
    Amount <- AmountOfRecords
    PoOf <- OrderOfRecords
    Categorised <- AllCategorised
    Templates = {"po", "si", "expense", "cn"}
    Requests = {q1}
    MaxRecords = 3
    MaxApprovals = 2
    Faults = FALSE
 
 
INVARIANT Converged
 
CHECK_DEADLOCK FALSE
