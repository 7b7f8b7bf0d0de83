SPECIFICATION FairSpec
CONSTANTS
    song = song
    gone = gone
    NoTrack = NoTrack
    NoLoop = NoLoop
    NoGesture = NoGesture
    Track <- MCTrack
    Frames <- MCFrames
    Grid <- MCGrid
    Rate <- MCRate
    UnityRate = 1
    MinRate = 1
    MaxRate = 2
    MaxPosition = 6
    Latency = 1
    Discontinuity = 2
    ResumeEpsilon = 3
    Places <- MCPlaces
    OtherDecks <- MCOtherDecks
    Incoming <- MCIncoming
PROPERTY
    LoadClearsLoop
