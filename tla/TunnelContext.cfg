SPECIFICATION FairSpec
CONSTANTS
    MaxStreams = 3
    MaxFailures = 3
    MaxScheduleFailures = 2
INVARIANTS
    CallbacksFindContext
    StopIsNotLost
PROPERTIES
    ImplementsLifecycle
    KeepsLifecycle
