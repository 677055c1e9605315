SPECIFICATION NodeSpec
CONSTANTS
    WdtLimit = 2
    MaxHangs = 1
    Cooldown = 1
    MaxPeers = 3
    MaxPairs = 3
    d1 = d1
    d2 = d2
    n = n
    Macs = {d1, d2, n}
    Defaults <- MCDefaults
    Keys = {k}
    Zero = Zero
    Junk = Junk
    JunkMac = JunkMac
    BlankMac = BlankMac
    NoRecord = NoRecord
INVARIANT HaltNeedsHangs
INVARIANT OneIdentity
INVARIANT RegisteredPeersKept
PROPERTY ReportsSpaced
PROPERTY MotionReported
PROPERTY SensorRearms
CHECK_DEADLOCK FALSE
