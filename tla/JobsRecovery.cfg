SPECIFICATION ThreadFairSpec
CONSTANTS
    SubscriptionCount = 2
    MaxOutages = 1
    MaxFailures = 1
    MaxDuplicates = 1
INVARIANTS
    ServingMeansSubscribed
    NoCompletionIsLost
    RecoveryIsNeverAbandoned
PROPERTIES
    RecoveryCompletes
    IgnoredJobsArePolled
    ImplementsAvailability
