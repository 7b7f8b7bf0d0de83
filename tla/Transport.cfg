SPECIFICATION FairSpec
CONSTANTS
    TrackId = {"song"}
    NoTrackId = ""
    NoLoopPoints = NoLoopPoints
    Low <- MCLow
    High <- MCHigh
    IntMax = 1
    DefaultState <- MCDefaultState
    RawDelta <- MCRawDelta
    RawState <- MCRawState
    LocalEdit <- MCLocalEdit
    LocalState <- MCLocalState
    MaxAttempts = 2
    MaxSpoken = 3
    MaxInbound = 2
    MaxQueue = 2
    MaxSeq = 2
INVARIANTS
    TransportTypeOK
    HeardAsRelayed
    SentIsAccepted
    AsksOnlyPastInt
PROPERTIES
    LinkSpec
    LossIsShown
CHECK_DEADLOCK FALSE
