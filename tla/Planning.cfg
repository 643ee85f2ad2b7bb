SPECIFICATION Spec
CONSTANTS
    b1 = b1
    r1 = r1
    r2 = r2
    k1 = k1
    k2 = k2
    e1 = e1
    e2 = e2
    q1 = q1
    q2 = q2
    User = User
    NoRow = NoRow
    NoWork = NoWork
    NoBudget = NoBudget
    Kinds = {"ipa_history", "ipa_forecast", "budget_baseline"}
    Batches = {b1}
    Rows = {r1, r2}
    BatchOf <- Sheets
    NumberOf <- Numbers
    KeyOf <- Periods
    Keys = {k1, k2}
    Broken = {}
    Posting = {r1}
    MaxWrites = 1
    Instructions = {e1, e2}
    AmountOf <- Amounts
    t1 = t1
    Transitions = {t1}
    Requests = {q1, q2}
    Faults = TRUE
SYMMETRY RequestSymmetry
INVARIANT CommittedIsLive
INVARIANT CommittedIsComplete
INVARIANT ReserveAccounted
CHECK_DEADLOCK FALSE
