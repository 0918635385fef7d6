SPECIFICATION PartsSpec
CONSTANTS
    Capacity = 3
    BufferSizes = {0, 1, 2}
    MaxBytes = 4
    MaxFailures = 1
    MaxInodes = 3
    MaxVersions = 3
    MaxTriggers = 1
    MaxMessages = 4
INVARIANTS
    NoMessageIsSkipped
    NeverGivesUp
    ChangesAreNoticed
    OrderIsKept
    LogIsFlushed
PROPERTIES
    ReadLoopEnds
    StopEndsMonitor
    ShutdownReturns
CHECK_DEADLOCK FALSE
