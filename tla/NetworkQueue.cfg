\* Three slots, so the ring is full with two items and both indices wrap
\* while five items go through it.
SPECIFICATION FairSpec
CONSTANTS
    Item = {a, b}
    NoItem = none
    Capacity = 3
    MaxPush = 5
INVARIANTS
    TypeOK
    NoDataRace
    FifoOrder
    RingInv
PROPERTIES
    ImplementsFifo
    EveryPushIsPopped
