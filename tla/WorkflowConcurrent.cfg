SPECIFICATION FairSpec
CONSTANTS
    i1 = i1
    i2 = i2
    r1 = r1
    r2 = r2
    u1 = u1
    u2 = u2
    po = po
    NoWork = NoWork
    StepCount = 3
    Optional = {2}
    Users = {u1, u2}
    Approvers <- TwoApprovers
    Requests = {r1, r2}
    Instances = {i1}
    RecordOf <- OneInstance
    MaxActions = 5
    Faults = FALSE
INVARIANT MandatoryStepsApproved
INVARIANT ApprovedPath
 
INVARIANT EventsReportCommits
PROPERTY ApprovalsArePublished
CHECK_DEADLOCK FALSE
