SPECIFICATION Spec
CONSTANTS
    Tasks = {mesh, housekeeping}
    SeqMod = 3
    EpochMax = 4
    DevMode = FALSE
    Echo = FALSE
    MaxIdentity = 0
INVARIANT PairNotReused
CHECK_DEADLOCK FALSE
