SPECIFICATION FairSpec
CONSTANTS
    Notifications = {n1, n2}
    NoNotification = none
    MaxDeliveries = 2
    MaxOutages = 2
    MaxFailures = 1
INVARIANTS
    SubscribedOrRecovering
    RecoveriesAreHeard
    StopReachesEveryContext
PROPERTIES
    RecoveryCompletes
