\* Two frames are enough: one is sent and its answer comes.
SPECIFICATION Spec
CONSTANTS
    WORD = 8
    LONG = 64
    ACK_BITS = 2
    MAX_SEND_PACKETS_STORED = 2
    MAX_RECEIVED_PACKETS_STORED = 2
    MaxFrames = 8
    MaxUnanswered = 2
    MaxLate = 3
    MaxGap = 2
    MaxUnderWay = 1
    MaxCounted = 8
PROPERTY KeepsLastPackets
