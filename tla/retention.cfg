SPECIFICATION RetentionSpec
CONSTANTS
    Runners <- LoopAndHandler
    Retain = 2
    MaxRows = 3
    MaxRetentionCrashes = 1
INVARIANT ImagesKept
PROPERTY DeletesOnlyOld
CHECK_DEADLOCK FALSE
