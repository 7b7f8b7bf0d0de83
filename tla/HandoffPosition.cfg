SPECIFICATION Spec
CONSTANTS
    RetireMargin = 1
    PublicationLag = 1
    Calls = {"load", "setPlaying"}
    MaxCalls = 4
    MaxBlocks = 4
CHECK_DEADLOCK FALSE
INVARIANTS NoStalePosition
