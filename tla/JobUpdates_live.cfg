SPECIFICATION FairSpec
CONSTANTS
    Jobs = {a, b}
    InvalidJobs = {b}
    NoJob = none
    MaxRetries = 2
    MaxAdmissions = 1
    MaxFailures = 2
    MaxDuplicates = 1
    MaxClockSteps = 0
CHECK_DEADLOCK FALSE
PROPERTIES
    OutcomeIsReported
    StopIsAnnounced
