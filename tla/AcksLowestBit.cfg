\* The lowest bit of the mask.
SPECIFICATION Spec
CONSTANTS
    WORD = 6
    LONG = 64
    ACK_BITS = 2
    KEEP_RECEIVED = 3
    MaxNumber = 4
    MaxCounted = 6
    Flipped = {0}
    Damageable = {}
    NoAnswer = none
INVARIANT EveryReportedPacketIsAcked
