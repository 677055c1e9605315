SPECIFICATION TableSpec
CONSTANTS
    Macs = {a, b, c, d, e}
    MasterMacs = {a}
    LruMax = 1
    RegistryMax = 1
    Callers = {"mesh"}
    MaxOverlaps = 0
    NoMac = NoMac
INVARIANT EnrolledKeepEntry
CHECK_DEADLOCK FALSE
