\* Two contents of one API and the settings of two, four changes, over one midnight in JST.
SPECIFICATION Spec
CONSTANTS
    c1 = c1
    c2 = c2
    a1 = a1
    a2 = a2
    Api = {a1, a2}
    Content = {c1, c2}
    ApiOf <- MCApiOf
    NullTime = NullTime
    NullId = NullId
    DayLength = 2
    JstOffset = 1
    Horizon = 1
    MaxChanges = 4
SYMMETRY Symmetry
INVARIANTS
    TypeOK
    IInv
    LiveBalance
    LeadTimesAgree
    RangeCoversItsEvents
    CountsAgree
    UpdatesAreArrivals
CHECK_DEADLOCK FALSE
