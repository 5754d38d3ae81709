SPECIFICATION Spec
CONSTANTS
    BufferSize = 2
    CorrelatedSize = 2
    NewProfiles <- MCProfiles
    MaxProfiles = 3
    MaxBatch = 2
    MaxTime = 1
    MaxRestarts = 1
    ShortWindow = 0
    LongWindow = 1
    CorrelatedLimit = 1
    UncorrelatedLimit = 1
INVARIANTS
    StorageTypeOK
    PersistedSurvives
    BeginningOfBatch
    PercentilesCoverCount
    RecentIsShown
    ShownIsCounted
CHECK_DEADLOCK FALSE
