SPECIFICATION SyncSpec
CONSTANTS
    dj1 = dj1
    dj2 = dj2
    dj3 = dj3
    k1 = k1
    k2 = k2
    k3 = k3
    id1 = id1
    id2 = id2
    id3 = id3
    deckA = deckA
    deckB = deckB
    gain = gain
    rate = rate
    lo = lo
    hi = hi
    NoConn = NoConn
    NoId = NoId
    NoDeck = NoDeck
    App <- ThreeApps
    Conn <- ThreeConns
    ClientId <- ThreeIds
    Deck <- OneDeck
    FirstDeck <- deckA
    Field <- OneField
    Value <- OneValue
    DefaultDeck <- AllLow
    MaxClients = 3
    MaxSeq = 1
    MaxUplink = 1
    MaxDownlink = 2
SYMMETRY Symmetry
INVARIANTS RosterConverges ControlsOpenToHolder
