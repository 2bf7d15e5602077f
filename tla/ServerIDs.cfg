\* Two addresses and two entries are enough for two players to meet.
SPECIFICATION Spec
CONSTANTS
    A = A
    B = B
    s1 = s1
    s2 = s2
    s3 = s3
    WORD = 4
    LONG = 64
    ACK_BITS = 1
    Address <- MCAddress
    ClientSalt = {c}
    ServerSalt <- MCServerSalt
    Keyboard = {none}
    NoKeys = none
    Offset = {0}
    MAX_PLAYERS = 4
    KEEP_RECEIVED = 2
    QUIT_REPEAT = 2
    SocketCapacity = 1
    PlayerBound = 2
    MaxFrames = 0
INVARIANT UniquePlayerIDs
