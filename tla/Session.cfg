SPECIFICATION FairSpec
CONSTANTS
    s1 = s1
    s2 = s2
    Nobody = Nobody
    Conn <- TwoConns
    MaxClients = 1
    PRE_HELLO_CEILING_FACTOR = 1
    MAX_CONSECUTIVE_INVALID = 3
CHECK_DEADLOCK FALSE
INVARIANTS
    TypeOK
    PreHelloExact
    Deadlines
    RoomFollowsSockets
    HeartbeatSparesTheLiving
PROPERTIES
    EjectedNeverServed
    SilentPeerGone
    JoinsOrGoes
    EjectedGone
    ShutdownCompletes
