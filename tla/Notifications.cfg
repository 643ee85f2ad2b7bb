SPECIFICATION NotifySpec
CONSTANTS
    u1 = u1
    u2 = u2
    q1 = q1
    q2 = q2
    Recipients = {u1, u2}
    Starter = u1
    Last = 2
    ApproverOf <- Approvers
    Channels = {"email"}
    Muted <- OneMailbox
    Calls = {q1, q2}
    MaxEvents = 4
    MaxAttempts = 3
    MailFaults = TRUE
    NoHandler = NoHandler
SYMMETRY CallSymmetry
INVARIANT MailedOnce
CHECK_DEADLOCK FALSE
