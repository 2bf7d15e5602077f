\* Wire numbers run from 0 to 5 and start over within the seven frames of each
\* side; what is late, and what is lost in a row, stays within half their
\* range, as 100 seconds at 60 frames do in 65536.  Two GAME_STATEs under way
\* are enough for one to overtake another.  A run stops when both sides are out
\* of numbers, or the peer's are too far ahead.
SPECIFICATION Spec
CONSTANTS
    WORD = 7
    LONG = 64
    ACK_BITS = 2
    MAX_SEND_PACKETS_STORED = 2
    MAX_RECEIVED_PACKETS_STORED = 2
    MaxFrames = 7
    MaxUnanswered = 2
    MaxLate = 2
    MaxGap = 2
    MaxUnderWay = 2
    MaxCounted = 8
INVARIANTS
    TypeOK
    SentIsContiguous
    ReceivedIsAscending
    OnlyArrivedCount
    FrameTellsTruth
