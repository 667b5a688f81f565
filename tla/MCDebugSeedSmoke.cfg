\* The smoke preset, in hours.
SPECIFICATION Spec
CONSTANTS
    NullTime = NullTime
    NullId = NullId
    DayLength = 24
    JstOffset = 9
    Today = 20
    Configs <- MCSmoke
    Shares <- MCShares
    WeightTotal = 8
    Apis <- MCApis
    ApiWeights <- MCApiWeights
    ApiTotal = 3
    MaxDays = 5
    MaxU32 = 100
INVARIANTS
    SmokeMatchesBaseline
CHECK_DEADLOCK FALSE
