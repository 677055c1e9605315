SPECIFICATION Spec
CONSTANTS
    Radix = 3
    MaxPayload = 3
    IsMaster = TRUE
    Commands <- MCCommands
    Fields <- MCFields
    Code <- MCCode
    FromMesh <- MCFromMesh
    OutLen <- MCOutLen
    MaxSent = 0
    MaxMesh = 1
    MaxLocal = 1
    MaxLost = 0
INVARIANT WholeFrames
CHECK_DEADLOCK FALSE
