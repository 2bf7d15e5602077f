\* Three packets before the wire numbers start over and two after it, with a
\* mask of two bits, which the receiver records under numbers up to 6: every
\* loss, delay, repetition and order of packets, answers that come late or
\* twice, and the damage of one byte of an answer.
SPECIFICATION Spec
CONSTANTS
    WORD = 5
    LONG = 64
    ACK_BITS = 2
    KEEP_RECEIVED = 3
    MaxNumber = 5
    MaxCounted = 6
    Flipped = {0}
    Damageable = {6}
    NoAnswer = none
INVARIANTS
    TypeOK
    MaskIsExact
    NoFalseAck
    MarksExactly
