SPECIFICATION FairSpec
CONSTANTS
    Certificates = {"c1", "c2"}
    Clients = {"device"}
    Pids = {1, 2}
    Directories = {TRUE, FALSE}
    MaxStarts = 2
    MaxOutages = 1
INVARIANTS
    FeaturesRunValidConfig
    RuntimeConfigIsComplete
    IdentityIsWhole
PROPERTIES
    ProvisionsOnce
    StartupEnds
    ShutdownEnds
    NoticeEnds
CHECK_DEADLOCK FALSE
