\* Two addresses and three entries, so that entries of one and of several
\* clients mix; wire numbers of three values, so that they wrap within the
\* three frames.
SPECIFICATION Spec
CONSTANTS
    A = A
    B = B
    s1 = s1
    s2 = s2
    s3 = s3
    WORD = 3
    LONG = 64
    ACK_BITS = 1
    Address <- MCAddress
    ClientSalt = {c}
    ServerSalt <- MCServerSalt
    Keyboard = {none}
    NoKeys = none
    Offset = {0}
    MAX_PLAYERS = 4
    KEEP_RECEIVED = 2
    QUIT_REPEAT = 2
    SocketCapacity = 1
    PlayerBound = 3
    MaxFrames = 3
INVARIANTS
    TypeOK
    ReceivedAscending
    OnlyOldestConnected
PROPERTY AddressIsolation
SYMMETRY Symmetry
