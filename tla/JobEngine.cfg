SPECIFICATION FairSpec
CONSTANTS
    MAX_LOG_LINES = 0
    PipeSize = 1
    contentsSizeLimit = 3
    LineSizes = {2, 4}
    AllowStdErrs = {1}
    MaxLines = 4
INVARIANTS
    FailureEndsTheJob
    OutputIsBounded
PROPERTY
    StepEnds
CHECK_DEADLOCK FALSE
