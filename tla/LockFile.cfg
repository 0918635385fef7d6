SPECIFICATION LockSpec
CONSTANTS
    Clients = {c1, c2}
    Pids = {1, 2}
    Directories = {TRUE}
INVARIANT
    OnlyOneInstance
CHECK_DEADLOCK FALSE
