SPECIFICATION FairSpec
CONSTANTS
    QueueSize = 3
    BatchLines = 3
    LinesPerRequest = 2
    MaxRetries = 2
    MaxLines = 2
    MaxSignals = 2
PROPERTIES
    StopEndsAgent
CHECK_DEADLOCK FALSE
