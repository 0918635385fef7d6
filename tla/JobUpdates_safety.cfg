SPECIFICATION Spec
CONSTANTS
    Jobs = {a, b}
    InvalidJobs = {b}
    NoJob = none
    MaxRetries = 2
    MaxAdmissions = 2
    MaxFailures = 1
    MaxDuplicates = 0
    MaxClockSteps = 1
CHECK_DEADLOCK FALSE
INVARIANTS
    PromisesMatchWaiters
    AtMostOneLateJob
