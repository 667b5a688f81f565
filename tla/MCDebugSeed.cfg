\* Shares of an eighth, up to eight events on up to five days.
SPECIFICATION Spec
CONSTANTS
    NullTime = NullTime
    NullId = NullId
    DayLength = 2
    JstOffset = 1
    Today = 20
    Configs <- MCConfigs
    Shares <- MCShares
    WeightTotal = 8
    Apis <- MCApis
    ApiWeights <- MCApiWeights
    ApiTotal = 3
    MaxDays = 5
    MaxU32 = 100
INVARIANTS
    TypeOK
    IInv
    ScheduleReachesToday
    CountIsHonored
    KindsMeetTargets
    PairsDriveDraftToPublish
    FilesHoldEvents
CHECK_DEADLOCK FALSE
