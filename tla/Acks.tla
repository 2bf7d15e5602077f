-------------------------------- MODULE Acks --------------------------------
(***************************************************************************)
(* The acknowledgement scheme of the game protocol at work.  One side      *)
(* numbers its packets and sends them with 16-bit numbers that start over. *)
(* The other side works the large numbers out from the distances between   *)
(* the small ones (SequenceNumberDiff), records them, and answers with its *)
(* small number and a mask for the packets before it (ComputeAckBits).     *)
(* The sender works out which of its own numbers the answer means and      *)
(* marks its record of sent packets (VerifyAck).                           *)
(*                                                                         *)
(* The network loses packets and answers, delays them, and delivers them   *)
(* in any order and more than once.  An answer travels as the bytes of a   *)
(* packet and may be damaged.                                              *)
(*                                                                         *)
(* The sender's record keeps every packet here; what the server and the    *)
(* client remove from theirs is in Server.tla and GameExchange.tla.        *)
(***************************************************************************)
EXTENDS NetworkUtilities, Wire

CONSTANTS
    KEEP_RECEIVED, \* received numbers HandleGameState keeps (60)
    MaxNumber,     \* bound of the model: how many packets are sent
    MaxCounted,    \* bound of the model: how far the receiver counts them
    Flipped,       \* bound of the model: the bits of a byte that damage turns
    Damageable,    \* bound of the model: which bytes it reaches
    NoAnswer       \* no answer was sent yet

\* A wire number fits in the two bytes of ack, a mask in its 32 bits, and a
\* uint64_t never starts over.
ASSUME AcksAssumption ==
    /\ KEEP_RECEIVED \in Nat \ {0}
    /\ WORD <= 256 * 256 /\ ACK_BITS <= 32
    /\ MaxNumber \in Nat /\ MaxNumber + ACK_BITS < LONG
    /\ MaxCounted \in Nat /\ MaxCounted + ACK_BITS < LONG
    /\ Flipped \in Byte /\ Damageable \subseteq 1..10

VARIABLES
    sent,       \* sender: PacketInfo of every packet, oldest first
    received,   \* receiver: receivedPackets, the numbers it recorded
    remoteSequenceNumberLarge, \* receiver: the number it recorded last
    remoteSequenceNumberSmall, \* receiver: and its number on the wire
    answer,     \* the packet in the network that answers, if any
    damaged,    \* history: it is not what was sent
    arrived,    \* history: the numbers of the packets that arrived
    newest,     \* history: of the one that arrived last
    handled,    \* history: of the one behind each number in received
    told        \* history: what the answer was sent to say

receiverVars == <<received, remoteSequenceNumberLarge, remoteSequenceNumberSmall>>
arrivalVars == <<arrived, newest, handled>>
answerVars == <<answer, damaged, told>>
vars == <<sent, receiverVars, arrivalVars, answerVars>>

Init ==
    /\ sent = <<>>
    /\ received = <<>>
    /\ remoteSequenceNumberLarge = 0 /\ remoteSequenceNumberSmall = 0
    /\ arrived = {} /\ newest = 0 /\ handled = <<>>
    /\ answer = NoAnswer /\ damaged = FALSE /\ told = NoAnswer

-----------------------------------------------------------------------------
(* Packets. *)

\* The wire number of a packet, and how often the wire numbers have started
\* over before it.
\* Mutated form of Small: the range is taken for one number larger.
SmallOfWord(number) == number % WORD
Small(number) == number % SEQUENCE_NUMBER_MAX
Lap(number) == number \div SEQUENCE_NUMBER_MAX

\* The sender numbers its next packet.
SendPacket ==
    /\ Len(sent) < MaxNumber
    /\ sent' = Append(sent, [seqNum |-> Len(sent) + 1, acknowledged |-> FALSE])
    /\ UNCHANGED <<receiverVars, arrivalVars, answerVars>>

\* Only the last KEEP_RECEIVED numbers stay.
KeepLast(s) ==
    IF Len(s) > KEEP_RECEIVED
    THEN SubSeq(s, Len(s) - KEEP_RECEIVED + 1, Len(s)) ELSE s

\* A packet arrives: any that was sent, at any time, or once more.  A number
\* other than the last one counts as ahead of it, also that of an older packet.
ReceivePacket(number) ==
    /\ LET small == Small(number)
           diff == SequenceNumberDiff(remoteSequenceNumberSmall, small)
           large == remoteSequenceNumberLarge + diff
       IN  IF diff > 0
           THEN /\ large <= MaxCounted
                /\ remoteSequenceNumberLarge' = large
                /\ remoteSequenceNumberSmall' = small
                /\ received' = KeepLast(Append(received, large))
                /\ handled' = KeepLast(Append(handled, number))
           ELSE UNCHANGED <<receiverVars, handled>>
    /\ arrived' = arrived \cup {number}
    /\ newest' = number
    /\ UNCHANGED <<sent, answerVars>>

-----------------------------------------------------------------------------
(* Answers. *)

\* Whether the numbers in the mask's window came in ascending order, from one
\* run of the wire numbers, with the last one to arrive at their end.
Tidy ==
    /\ received # <<>> => Last(handled) = newest
    /\ \A i \in 1..Len(received) - 1 :
        received[i] + ACK_BITS >= remoteSequenceNumberLarge =>
            handled[i] < handled[i + 1] /\ Lap(handled[i]) = Lap(handled[i + 1])

\* The receiver answers; an older answer still in the network is lost.  Of the
\* packet only the acknowledgement is kept: ack in 16 bits, and the mask.
AckSizes == <<2, 4>>

SendAnswer ==
    /\ arrived # {}
    /\ LET ackBits == ComputeAckBits(received, remoteSequenceNumberLarge)
       IN  answer' = ToBytes(
                <<[size |-> 2, bits |-> BitsOf(remoteSequenceNumberSmall)],
                  [size |-> 4, bits |-> ackBits]>>)
    /\ damaged' = FALSE
    /\ told' = [number |-> newest, tidy |-> Tidy,
                ackBits |-> AckBitsOf(ToSet(received), remoteSequenceNumberLarge)]
    /\ UNCHANGED <<sent, receiverVars, arrivalVars>>

\* The network changes a byte of the answer, the checksum's own included.
Damage ==
    /\ answer # NoAnswer /\ ~damaged
    /\ \E i \in Damageable : answer' = [answer EXCEPT ![i] = Xor(@, Flipped)]
    /\ damaged' = TRUE
    /\ UNCHANGED <<sent, receiverVars, arrivalVars, told>>

\* What the answer says.
AnswerAck == NumberOf(Fields(answer, AckSizes)[1])
AnswerAckBits == Fields(answer, AckSizes)[2]

\* The sender's number for the wire number that the answer acknowledges.
AckedNumber ==
    (Len(sent) - SequenceNumberDiff(Small(Len(sent)), AnswerAck)) % LONG

\* The sender ignores an answer with a wrong checksum.
AnswerIsValid == answer # NoAnswer /\ IsValid(answer)

\* The packets sent, as the answer leaves them.
Verified == VerifyAck(sent, AckedNumber, AnswerAckBits)

\* The sender gets the answer, which may still be delivered again.
ReceiveAnswer ==
    /\ AnswerIsValid
    /\ sent' = Verified
    /\ UNCHANGED <<receiverVars, arrivalVars, answerVars>>

Next ==
    \/ SendPacket
    \/ \E number \in 1..Len(sent) : ReceivePacket(number)
    \/ SendAnswer
    \/ Damage
    \/ ReceiveAnswer

Spec == Init /\ [][Next]_vars

-----------------------------------------------------------------------------
(* Properties. *)

AcknowledgedIn(data) ==
    {data[i].seqNum : i \in {j \in DOMAIN data : data[j].acknowledged}}

\* What StoreAcks, the alternative to VerifyAck that a TODO in HandleGameState
\* (Server.cpp:314) and the tests (AckTests.cpp) keep open, reads in the answer.
Reported == ToSet(StoreAcks(<<>>, AckedNumber, AnswerAckBits))

\* Every variable keeps its type, no packet is numbered twice, and a wire number
\* is below SEQUENCE_NUMBER_MAX.
TypeOK ==
    /\ \A i \in DOMAIN sent :
        sent[i] \in [seqNum : {i}, acknowledged : BOOLEAN]
    /\ received \in Seq(1..MaxCounted) /\ Len(received) <= KEEP_RECEIVED
    /\ remoteSequenceNumberLarge \in 0..MaxCounted
    /\ remoteSequenceNumberSmall \in 0..SEQUENCE_NUMBER_MAX - 1
    /\ answer # NoAnswer => answer \in [1..10 -> Byte]
    /\ damaged \in BOOLEAN

\* Whether the sender can tell which packet an answer names: it was sent since
\* the wire numbers last started over, and is at most half their range old.
Recent ==
    /\ Lap(told.number) = Lap(Len(sent))
    /\ Len(sent) - told.number <= SEQUENCE_NUMBER_HALF

\* An answer that is not too old names a packet that arrived; and if the packets
\* in its mask's window had arrived in order, neither VerifyAck nor StoreAcks
\* reads in it that another packet arrived, whatever was lost, late or repeated,
\* and however packets outside the window were reordered.  Within the window
\* nothing is promised: an older packet is counted as ahead, and a restart of
\* the wire numbers as one number more, which moves the bits of the mask.
NoFalseAck ==
    AnswerIsValid /\ Recent =>
        /\ AckedNumber \in arrived
        /\ told.tidy =>
            (AcknowledgedIn(Verified) \ AcknowledgedIn(sent)) \cup Reported
                \subseteq arrived

\* The mask that ComputeAckBits builds by its backward scan, once it has been
\* through the bytes of a packet, names exactly the numbers that were recorded
\* among the ACK_BITS before the last one, however they came to be recorded; and
\* the bytes of ack give the wire number of the packet that arrived last.
MaskIsExact ==
    AnswerIsValid =>
        AnswerAck = Small(told.number) /\ AnswerAckBits = told.ackBits

\* VerifyAck's scan marks exactly the packets its rounds name and unmarks
\* none: the scan is never a step ahead of or behind the packet it looks for.
MarksExactly ==
    AnswerIsValid =>
        AcknowledgedIn(Verified) = AcknowledgedIn(sent)
            \cup (AckedBy(AckedNumber, AnswerAckBits) \cap 1..Len(sent))

\* The two readers of a mask agree with its writer: once an answer has been
\* processed, each packet that ComputeAckBits reported is acknowledged.
\* (ComputeAckBits reports ACK_BITS packets before ack: AckTests.cpp,
\* ComputeAckBits_FirstAndLastBit.)
EveryReportedPacketIsAcked ==
    AnswerIsValid => Reported \cap 1..Len(sent) \subseteq AcknowledgedIn(Verified)
=============================================================================
