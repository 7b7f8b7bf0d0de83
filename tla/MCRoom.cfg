SPECIFICATION Spec
CONSTANTS
    k1 = k1
    k2 = k2
    k3 = k3
    k4 = k4
    id1 = id1
    id2 = id2
    id3 = id3
    deckA = deckA
    deckB = deckB
    gain = gain
    rate = rate
    lo = lo
    hi = hi
    NoConn = NoConn
    NoId = NoId
    NoDeck = NoDeck
    Conn <- MCConn
    ClientId <- MCClientId
    Deck <- MCDeck
    FirstDeck <- deckA
    Field <- MCField
    Value <- MCValue
    DefaultDeck <- MCDefaultDeck
    MaxClients = 2
    MaxSeq = 2
SYMMETRY Symmetry
INVARIANTS MembershipExact ControllerIsMember
PROPERTIES ControlNeverInherited WriteToldToOthers TokenSpec
