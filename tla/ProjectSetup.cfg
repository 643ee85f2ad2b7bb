SPECIFICATION Spec
CONSTANTS
    Entities = {e1, e2}
    Contracts = {c1, c2}
    Deals = {d1}
    Values = {v1, v2}
    Codes = {std}
    Names = {std, high}
    Standard = std
    HighValue = high
    Ids = {i1, i2, i3}
    Records = {r1}
    MaxVersion = 2
    Requests = {q1, q2}
    NoContract = NoContract
    NoValue = NoValue
    NoCode = NoCode
    NoRow = NoRow
    NoCall = NoCall
SYMMETRY Symmetry
INVARIANT PartiesParticipate
INVARIANT CacheFollowsContract
PROPERTY NamesMoveForward
CHECK_DEADLOCK FALSE
