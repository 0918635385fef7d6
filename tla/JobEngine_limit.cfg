SPECIFICATION Spec
CONSTANTS
    MAX_LOG_LINES = 1
    PipeSize = 1
    contentsSizeLimit = 2
    LineSizes = {1}
    AllowStdErrs = {0}
    MaxLines = 1
INVARIANT
    SuccessIsWithinLimit
CHECK_DEADLOCK FALSE
