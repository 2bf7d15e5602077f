\* Queues of two places: the UI can be a whole queue ahead or behind.
SPECIFICATION FairSpec
CONSTANTS
    Keyboard = {none, up}
    NoKeys = none
    QueueBound = 2
    MaxStates = 4
    SYNC_ROUNDS = 2
    SECOND = 2
    ClientLead = 2
    MaxTime = 3
    MaxPackets = 2
INVARIANTS
    TypeOK
    OffsetWithinAge
    RoundTripNotOverstated
PROPERTIES
    SceneOnlyAdvances
    KeyboardGetsThrough
    StatesAreShown
CHECK_DEADLOCK FALSE
