SPECIFICATION FairSpec
CONSTANTS
    Radix = 3
    MaxPayload = 3
    IsMaster = TRUE
    Commands <- MCCommands
    Fields <- MCFields
    Code <- MCCode
    FromMesh <- MCFromMesh
    OutLen <- MCOutLen
    MaxSent = 2
    MaxMesh = 1
    MaxLocal = 1
    MaxLost = 1
INVARIANT FrameInBuffer
INVARIANT InboundExact
INVARIANT PowerDoesNotCirculate
PROPERTY CommandsGetHandled
CHECK_DEADLOCK FALSE
