SPECIFICATION FairSpec
CONSTANTS
    QueueSize = 4
    BatchLines = 3
    LinesPerRequest = 2
    MaxRetries = 2
    MaxLines = 6
    MaxSignals = 2
INVARIANTS
    WriterTypeOK
    EveryLineAccounted
    QueueIsNewest
    BoundedDuplication
PROPERTIES
    LinesAreTaken
    LoneStopEndsAgent
CHECK_DEADLOCK FALSE
