SPECIFICATION Spec
CONSTANTS
    Notifications = {n1}
    NoNotification = none
    MaxDeliveries = 1
    MaxOutages = 1
    MaxFailures = 0
INVARIANT
    NotificationsAreHeard
