SPECIFICATION Spec
CONSTANTS
    RetireMargin = 1
    PublicationLag = 1
    Calls = {"load", "setPlaying", "setLoop", "requestSeek"}
    MaxCalls = 4
    MaxBlocks = 2
CHECK_DEADLOCK FALSE
INVARIANTS
    NoUseAfterFree
    SeekNotOlderThanFlag
    SeekLostOnlyInWindow
    LoopNotOlderThanBuffer
    SingleChangeNeverTears
