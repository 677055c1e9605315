SPECIFICATION NodeSpec
CONSTANTS
    Capacity = 2
    MaxFrames = 3
    a = a
    b = b
    c = c
    Masters = {a, b, c}
    NoMac = NoMac
    Stale = 1
    MaxLag = 1
    Scenarios <- MCScenarios
INVARIANT InOrderNoLoss
PROPERTY DroppedOnlyIfSilentOrRaced
PROPERTY ReplacedOnlyAfterSilence
PROPERTY QueuedGetsHandled
PROPERTY SilentMasterDropped
PROPERTY BeaconsRelayed
CHECK_DEADLOCK FALSE
