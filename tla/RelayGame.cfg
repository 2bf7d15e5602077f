\* One game and two guests: three numbers, and a removal and a number given
\* twice within four moments.
SPECIFICATION Spec
CONSTANTS
    Player = {a, b, c}
    Guest = {b, c}
    MaxTime = 4
    BYTE = 256
    SWEEP = 1
    SILENCE = 1
    MaxShots = 1
    IncomingBound = 2
INVARIANTS
    TypeOK
    ShotsAreCarried
    NoGhostShots
    NumbersAreDistinct
    SilentPlayersGo
SYMMETRY GuestsAlike
CHECK_DEADLOCK FALSE
