\* One client and up to three faults of any kind: packets that are lost,
\* doubled, reordered or late, failing Sends, a server that stops or crashes
\* and comes back.  A client that is one packet behind adds an entry with every
\* attempt: PlayerBound ends that.  A run stops there, or when the client has
\* stopped.
SPECIFICATION FairSession
CONSTANTS
    WORD = 4
    LONG = 64
    ACK_BITS = 1
    Address = {A}
    ClientSalt = {c1, c2, c3, c4, c5}
    ServerSalt = {s1, s2, s3, s4}
    NoSalt = nosalt
    Gone = gone
    Keyboard = {none}
    NoKeys = none
    Offset = {0}
    MAX_PLAYERS = 4
    KEEP_RECEIVED = 2
    QUIT_REPEAT = 2
    SYNC_ROUNDS = 2
    SocketCapacity = 6
    PlayerBound = 4
    MaxFrames = 0
    FaultKinds = {"lose", "duplicate", "reorder", "late", "send", "stop", "crash"}
    MaxFaults = 3
INVARIANTS
    AgreementWhileServerLives
    StaleEntriesBounded
    SaltsWereIssued
    ConnectedHasAnswered
PROPERTY CleanStartConnects
CHECK_DEADLOCK FALSE
