SPECIFICATION NodeSpec
CONSTANTS
    Capacity = 2
    MaxFrames = 3
    a = a
    b = b
    c = c
    Masters = {a, b, c}
    NoMac = NoMac
    Stale = 1
    MaxLag = 1
    Scenarios <- MCSecondaryScenarios
PROPERTY SecondaryTrusted
CHECK_DEADLOCK FALSE
