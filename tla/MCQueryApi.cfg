\* The gate: two requests, a session, a token that is replaced.
SPECIFICATION Spec
CONSTANTS
    s1 = s1
    r1 = r1
    r2 = r2
    Absent = Absent
    Invalid = Invalid
    Blank = Blank
    NullTime = NullTime
    NullId = NullId
    DayLength = 2
    JstOffset = 1
    MinInt <- MCMinInt
    MaxInt = 31
    MinTime <- MCMinTime
    MaxTime = 20
    MaxDays = 3
    DefaultDays = 2
    MaxLimit = 3
    DefaultLimit = 2
    Unit = {"days", "hours"}
    DefaultUnit = "days"
    Clock = {4, 5}
    Origin = {"app", "other"}
    Token = {"old", "new"}
    Request = {r1, r2}
    Session = {s1}
    Environment <- MCEnvironments
    Message <- MCMessages
SYMMETRY Symmetry
INVARIANTS
    QueriesAreBounded
    BoundIsMountable
    TypeOK
    IInv
    OriginsAreEchoed
PROPERTIES
    OnlyThroughTheGate
CHECK_DEADLOCK FALSE
