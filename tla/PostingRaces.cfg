SPECIFICATION Spec
CONSTANTS
    EventIds = {e1, e2, e3, e4}
    Sources = {s1}
    Nonces = {n1, n2}
    Requests = {r1, r2}
    Faults = TRUE
    NoRow = NoRow
    NoEvent = NoEvent
    NoCall = NoCall
 
INVARIANT ReversalsPaired
INVARIANT RetriedMeansPosted
PROPERTY ImplementsLedger
SYMMETRY Symmetry
CHECK_DEADLOCK FALSE
