SPECIFICATION PartsSpec
CONSTANTS
    a = a
    b = b
    c = c
    Master = m
    Leaves = {a, b, c}
    Links <- MCLinks
    NeighborMax = 2
    MaxHops = 3
    RouteMax = 1
    Traffic <- MCTraffic
    Targets = {c}
    Unstable = {c}
    MaxSeq = 2
    MaxUplinks = 1
    Macs = {m, a, b, c, d}
    MasterMacs = {m}
    LruMax = 1
    RegistryMax = 1
    Callers = {"mesh", "housekeeping"}
    MaxOverlaps = 3
    NoMac = NoMac
    Joiners = {n}
    MaxPeers = 2
    Defaults = 0
    Secondaries = {TRUE, FALSE}
    QueueCap = 2
    MaxKey = 2
    MaxRestarts = 4
    NoKey = NoKey
INVARIANT NeverUnderestimates
INVARIANT ReportsDoNotLoop
INVARIANT SourceRouteUsable
INVARIANT TableBounded
INVARIANT EnrolledHasUplink
INVARIANT KeysAgree
CHECK_DEADLOCK FALSE
