\* A content published twice, on two days.
SPECIFICATION Spec
CONSTANTS
    c1 = c1
    c2 = c2
    a1 = a1
    a2 = a2
    Api = {a1}
    Content = {c1}
    ApiOf <- MCApiOf
    NullTime = NullTime
    NullId = NullId
    DayLength = 2
    JstOffset = 1
    Horizon = 1
    MaxChanges = 4
INVARIANTS
    SampledAtFirstPublish
CHECK_DEADLOCK FALSE
