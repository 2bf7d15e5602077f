\* Two clients, no faults: the connection protocol as it is meant.  No entry
\* is added twice, so PlayerBound is never met.  A run stops when every client
\* has stopped.
SPECIFICATION FairSession
CONSTANTS
    WORD = 4
    LONG = 64
    ACK_BITS = 1
    Address = {A, B}
    ClientSalt = {c1, c2}
    ServerSalt = {s1, s2, s3}
    NoSalt = nosalt
    Gone = gone
    Keyboard = {none}
    NoKeys = none
    Offset = {0}
    MAX_PLAYERS = 4
    KEEP_RECEIVED = 2
    QUIT_REPEAT = 2
    SYNC_ROUNDS = 2
    SocketCapacity = 6
    PlayerBound = 3
    MaxFrames = 0
    FaultKinds = {}
    MaxFaults = 0
INVARIANTS
    SessionTypeOK
    OneEntryPerAddress
PROPERTIES
    ImplementsAdmission
    Connects
    PlayerIsForgotten
CHECK_DEADLOCK FALSE
