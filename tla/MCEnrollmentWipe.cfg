SPECIFICATION FairSpec
CONSTANTS
    Joiners = {n1}
    Crowded = {}
    MaxPeers = 1
    Defaults = 0
    Secondaries = {FALSE}
    QueueCap = 1
    MaxKey = 1
    MaxRestarts = 1
    NoKey = NoKey
PROPERTY WipedNodeReenrolls
CHECK_DEADLOCK FALSE
