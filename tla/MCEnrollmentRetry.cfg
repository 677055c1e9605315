SPECIFICATION RetrySpec
CONSTANTS
    Joiners = {n1, n2}
    Crowded = {n2}
    MaxPeers = 2
    Defaults = 0
    Secondaries = {TRUE}
    QueueCap = 1
    MaxKey = 1
    MaxRestarts = 1
    NoKey = NoKey
PROPERTY EventuallyEnrolled
CHECK_DEADLOCK FALSE
