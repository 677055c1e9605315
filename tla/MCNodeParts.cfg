SPECIFICATION PartsSpec
CONSTANTS
    Tasks = {main}
    SeqMod = 3
    EpochMax = 4
    DevMode = FALSE
    Echo = TRUE
    MaxIdentity = 1
    Origins = {o1, o2, o3}
    Slots = 2
    MaxEpoch = 2
    MaxSeq = 1
    MaxClock = 2
    NoMac = NoMac
    Width = 15
    Messages <- MCMessages
    Unknown <- MCUnknown
    Garbage = {65, 128}
    OwnMac <- MCOwnMac
    HoldMs = 5
    ConfirmMs = 8
    DebounceReads = 2
    DevButtons = FALSE
    MaxGap = 2
    MaxTime = 16
INVARIANT PairFresh
INVARIANT GuardNeverTrips
INVARIANT ForgottenOnlyByLRU
INVARIANT AtMostOnce
INVARIANT NewestNeverDropped
INVARIANT MembersFit
INVARIANT EncodeFits
INVARIANT RoundTrip
INVARIANT CutNoticed
INVARIANT ConfirmLapses
INVARIANT HoldAfterArming
PROPERTY ImplementsFilter
PROPERTY ToggleNeedsHold
PROPERTY WipeNeedsSecondHold
CHECK_DEADLOCK FALSE
