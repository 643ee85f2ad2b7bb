SPECIFICATION Spec
CONSTANTS
    ipa = ipa
    ipc = ipc
    ti = ti
    vo = vo
    co = co
    cp = cp
    letter = letter
    notice = notice
    claim = claim
    charge = charge
    vc = vc
    fa = fa
    application = application
    certificate = certificate
    invoice = invoice
    q1 = q1
    q2 = q2
    NoRecord = NoRecord
    NoWork = NoWork
    Records <- AllRecords
    Alone <- Singles
    TypeOf <- TypeOfRecords
    ParentOf <- Parents
    Totals <- Amounts
    Payments = {1, 2}
    Templates = {"ipa", "ipc", "ti", "vo", "co", "cp", "letter", "notice", "claim", "back_charge", "vc", "fa"}
    Requests = {q1, q2}
    MaxTimes = 2
    Faults = TRUE
SYMMETRY RequestSymmetry
INVARIANT OnlyApprovedIssued
INVARIANT Converged
INVARIANT MoneyHasCertificate
 
 
PROPERTY NoOvercollection
CHECK_DEADLOCK FALSE
