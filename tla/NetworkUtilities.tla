-------------------------- MODULE NetworkUtilities --------------------------
(***************************************************************************)
(* The pure helpers of NetworkUtilities.h on which both ends of the game   *)
(* protocol rest: the distance between two 16-bit sequence numbers, and    *)
(* the acknowledgement of the last packets by a bit mask.                  *)
(*                                                                         *)
(* A mask (uint32_t ackBits) is the set of the positions of its one bits:  *)
(* the highest position stands for packet ack-1, position 0 for            *)
(* ack-ACK_BITS.  The loops over bit positions go from the highest down:   *)
(* their round k looks at position ACK_BITS - k.                           *)
(***************************************************************************)
EXTENDS SequencesExt

CONSTANTS
    WORD,     \* number of uint16_t values (2^16)
    LONG,     \* number of uint64_t values (2^64)
    ACK_BITS  \* bits in an acknowledgement mask (32)

ASSUME WordAssumption == WORD \in Nat /\ WORD > 1
ASSUME LongAssumption == LONG \in Nat /\ LONG > WORD
ASSUME AckBitsAssumption == ACK_BITS \in Nat \ {0}

SEQUENCE_NUMBER_MAX == WORD - 1
SEQUENCE_NUMBER_HALF == WORD \div 2

Bits == 0..ACK_BITS - 1

\* How far next lies behind or ahead of previous, as the code has it: a
\* packet at most half the range old counts as that far AHEAD, because its
\* distance is returned as a positive number.
SequenceNumberDiff(previous, next) ==
    IF previous > next /\ previous - next <= SEQUENCE_NUMBER_HALF
    THEN previous - next
    ELSE (next - previous) % WORD

\* The packet a bit of the mask stands for.
NumberOfBit(ack, bit) == (ack - (ACK_BITS - bit)) % LONG

\* Mutated forms of StepBack: >= for > in the loop's condition, and no loop.
StepBackTooFar(numbers, idx, expected) ==
    Max({1} \cup {i \in 1..idx : numbers[i] < expected})
StepBackNever(numbers, idx, expected) == idx

\* while (idx > 0 && number of data[idx] > expected) idx--
StepBack(numbers, idx, expected) ==
    Max({1} \cup {i \in 1..idx : numbers[i] <= expected})

\* A round of the scan for a mask: idx steps back to the packet of the bit.
Look(data, ack, scan, bit) ==
    LET expected == NumberOfBit(ack, bit)
        idx == StepBack(data, scan.idx, expected)
    IN  [idx |-> idx,
         ackBits |-> IF data[idx] = expected
                     THEN scan.ackBits \cup {bit} ELSE scan.ackBits]

\* One pass over the mask and, in step with it, backwards over the data: the
\* state of the scan after each of its rounds.
LookRounds(data, ack) ==
    LET Scan[k \in 0..ACK_BITS] ==
            IF k = 0 THEN [idx |-> Len(data), ackBits |-> {}]
            ELSE Look(data, ack, Scan[k - 1], ACK_BITS - k)
    IN  Scan

ComputeAckBits(data, ack) ==
    IF data = <<>> THEN {} ELSE LookRounds(data, ack)[ACK_BITS].ackBits

\* A number is stored unless std::find finds it.
InsertNumber(stored, number) ==
    IF Contains(stored, number) THEN stored ELSE Append(stored, number)

\* What is stored after each round over the mask: ack itself, then the packets
\* of the bits in isSet.
StoreRounds(data, ack, isSet) ==
    LET Stored[k \in 0..ACK_BITS] ==
            IF k = 0 THEN InsertNumber(data, ack)
            ELSE IF ACK_BITS - k \in isSet
                 THEN InsertNumber(Stored[k - 1], NumberOfBit(ack, ACK_BITS - k))
                 ELSE Stored[k - 1]
    IN  Stored

\* ack and the packets the mask names, added at the end unless present.
StoreAcks(data, ack, ackBits) == StoreRounds(data, ack, ackBits)[ACK_BITS]

\* Mutated form of RoundIsAck: each round looks at its own bit.
RoundIsOwnBit(ackBits, bit) == bit = ACK_BITS - 1 \/ bit \in ackBits

\* Whether VerifyAck takes the packet of a round as acknowledged: in its first
\* round it looks at ack itself, afterwards at the bit of the round before.
RoundIsAck(ackBits, bit) ==
    bit = ACK_BITS - 1 \/ bit + 1 \in ackBits

\* A round of VerifyAck.  data is the sequence of PacketInfo records, of which
\* seqNum and acknowledged matter.
Mark(ack, ackBits, scan, bit) ==
    LET expected == (ack - (ACK_BITS - 1 - bit)) % LONG
        numbers == [i \in DOMAIN scan.data |-> scan.data[i].seqNum]
        idx == StepBack(numbers, scan.idx, expected)
    IN  [idx |-> idx,
         data |-> IF numbers[idx] = expected /\ RoundIsAck(ackBits, bit)
                  THEN [scan.data EXCEPT ![idx].acknowledged = TRUE]
                  ELSE scan.data]

\* One pass over the mask that marks the packets it acknowledges.
MarkRounds(data, ack, ackBits) ==
    LET Scan[k \in 0..ACK_BITS] ==
            IF k = 0 THEN [idx |-> Len(data), data |-> data]
            ELSE Mark(ack, ackBits, Scan[k - 1], ACK_BITS - k)
    IN  Scan

VerifyAck(data, ack, ackBits) ==
    IF data = <<>> THEN data ELSE MarkRounds(data, ack, ackBits)[ACK_BITS].data

-----------------------------------------------------------------------------
(* What the scans come to on data that is in ascending order, as Acks.tla  *)
(* checks and NetworkUtilities_proofs.tla proves. The modules that only    *)
(* need the outcome use these.                                             *)

AckBitsOf(received, ack) == {bit \in Bits : NumberOfBit(ack, bit) \in received}

AckedBy(ack, ackBits) ==
    {(ack - (ACK_BITS - 1 - bit)) % LONG :
        bit \in {b \in Bits : RoundIsAck(ackBits, b)}}
=============================================================================
