SPECIFICATION Spec
CONSTANTS
    a1 = a1
    a2 = a2
    b1 = b1
    vA = vA
    vB = vB
    q1 = q1
    q2 = q2
    Quotations = {a1, a2, b1}
    VendorOf <- Vendors
    Requests = {q1, q2}
    MaxOverlaps = 3
    Faults = TRUE
    NoQuotation = NoQuotation
    NoWork = NoWork
SYMMETRY SourcingSymmetry
INVARIANT ApprovedBeforeQuotes
 
CHECK_DEADLOCK FALSE
