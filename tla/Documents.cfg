SPECIFICATION Spec
CONSTANTS
    f1 = f1
    f2 = f2
    n1 = n1
    rA = rA
    rB = rB
    rC = rC
    q1 = q1
    q2 = q2
    NoRevision = NoRevision
    NoFile = NoFile
    NoWork = NoWork
    Files = {f1, f2}
    Names = {n1}
    MaxVersions = 3
    Revisions = {rA, rB, rC}
    Requests = {q1, q2}
    MaxSubjects = 1
    Faults = TRUE
SYMMETRY DocumentSymmetry
INVARIANT LinearHistory
PROPERTY KeepsLine
INVARIANT SignedFileKept
PROPERTY SignedUntilSuperseded
INVARIANT OnlyApprovedBuilt
INVARIANT OneForConstruction
CHECK_DEADLOCK FALSE
