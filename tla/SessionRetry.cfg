\* One client and one lost packet.  A run stops when the client has stopped.
SPECIFICATION FairSession
CONSTANTS
    WORD = 4
    LONG = 64
    ACK_BITS = 1
    Address = {A}
    ClientSalt = {c1, c2, c3}
    ServerSalt = {s1, s2, s3, s4}
    NoSalt = nosalt
    Gone = gone
    Keyboard = {none}
    NoKeys = none
    Offset = {0}
    MAX_PLAYERS = 4
    KEEP_RECEIVED = 2
    QUIT_REPEAT = 2
    SYNC_ROUNDS = 2
    SocketCapacity = 6
    PlayerBound = 4
    MaxFrames = 0
    FaultKinds = {"lose"}
    MaxFaults = 1
PROPERTY RetriesConnect
CHECK_DEADLOCK FALSE
