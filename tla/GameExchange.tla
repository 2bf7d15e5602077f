---------------------------- MODULE GameExchange ----------------------------
(***************************************************************************)
(* The client's half of the exchange in the game: the input frames it      *)
(* numbers and sends, the GAME_STATEs it handles, and the acknowledgements *)
(* both carry (Client.cpp, SendGameState and HandleGameState).             *)
(*                                                                         *)
(* The other half is a peer that tells the truth: it numbers its           *)
(* GAME_STATEs the way the client numbers its frames, and acknowledges     *)
(* exactly the frames that reached it.  The server of this repository is   *)
(* not that peer: its switch has no case for INPUT_FRAME.  The network     *)
(* loses packets on both ways, and the GAME_STATEs under way reach the     *)
(* client in any order and any number of times.                            *)
(***************************************************************************)
EXTENDS NetworkUtilities

CONSTANTS
    MAX_SEND_PACKETS_STORED,      \* 33
    MAX_RECEIVED_PACKETS_STORED,  \* 33
    MaxFrames,     \* bound of the model: numbers each side gives out
    MaxUnanswered, \* bound of the model: frames sent since the client last
                   \* handled a GAME_STATE
    MaxLate,       \* bound of the model: how many frames an acknowledgement
                   \* is behind when the client handles it
    MaxGap,        \* bound of the model: how far the peer's numbers run ahead
                   \* of the last GAME_STATE handled
    MaxUnderWay,   \* bound of the model: GAME_STATEs under way
    MaxCounted     \* bound of the model: the client's count of GAME_STATEs

ASSUME ExchangeAssumption ==
    /\ MAX_SEND_PACKETS_STORED \in Nat \ {0}
    /\ MAX_RECEIVED_PACKETS_STORED \in Nat \ {0}
    /\ MaxFrames \in Nat /\ MaxUnanswered \in Nat
    /\ MaxLate \in Nat /\ MaxGap \in Nat /\ MaxUnderWay \in Nat
    /\ MaxCounted \in Nat /\ MaxCounted + ACK_BITS < LONG
    /\ MAX_SEND_PACKETS_STORED + 2 * MaxFrames + ACK_BITS < LONG
       \* a uint64_t never starts over

VARIABLES
    m_sendPackets,                \* PacketInfos of frames sent, oldest first
    m_receivedPackets,            \* numbers of GAME_STATEs handled
    m_localSequenceNumberLarge,   \* number of the last frame
    m_remoteSequenceNumberLarge,  \* number of the last GAME_STATE, as counted
    m_remoteSequenceNumberSmall,  \* and as it was on the wire
    averaged,                     \* the frames over whose round trips
                                  \* m_roundTripTimeMs was averaged in this step
    unanswered,                   \* frames sent since the last GAME_STATE
    arrived,                      \* peer: numbers of the frames it got lately
    peerNumber,                   \* peer: number of its last GAME_STATE
    toClient,                     \* GAME_STATEs under way
    delivered,                    \* history: numbers of the peer's GAME_STATEs
                                  \* that the client handled lately,
    lastHandled,                  \* of the one handled last,
    inOrder                       \* and whether none was handled after one
                                  \* that the peer had sent later

sentVars == <<m_sendPackets, m_localSequenceNumberLarge>>
receivedVars == <<m_receivedPackets, m_remoteSequenceNumberLarge,
                  m_remoteSequenceNumberSmall>>
peerVars == <<arrived, peerNumber>>
handledVars == <<delivered, lastHandled, inOrder>>
vars == <<sentVars, receivedVars, averaged, unanswered, peerVars,
          toClient, handledVars>>

Init ==
    /\ m_sendPackets = <<>> /\ m_receivedPackets = <<>>
    /\ m_localSequenceNumberLarge = 0
    /\ m_remoteSequenceNumberLarge = 0 /\ m_remoteSequenceNumberSmall = 0
    /\ averaged = {}
    /\ unanswered = 0
    /\ arrived = {} /\ peerNumber = 0
    /\ toClient = {}
    /\ delivered = {} /\ lastHandled = 0 /\ inOrder = TRUE

Small(number) == number % SEQUENCE_NUMBER_MAX
Latest(numbers) == Max(numbers \cup {0})
Numbers(packets) == {packets[i].seqNum : i \in DOMAIN packets}
Acknowledged(packets) ==
    {packets[i].seqNum : i \in {j \in DOMAIN packets : packets[j].acknowledged}}

\* Of a set of numbers, those that a mask or a stored packet can still name.
Lately(numbers) ==
    {number \in numbers : number + ACK_BITS + MaxLate >= m_localSequenceNumberLarge}

-----------------------------------------------------------------------------
(* SendGameState *)

\* The mask is computed around the SMALL number.
\* Mutated form: around the number after it.
FrameAckBitsAhead ==
    ComputeAckBits(m_receivedPackets, m_remoteSequenceNumberSmall + 1)
FrameAckBits == ComputeAckBits(m_receivedPackets, m_remoteSequenceNumberSmall)

\* The UI thread has left a state in OutgoingState (without one, nothing
\* happens).  The frame takes the next number and is remembered, whether Send
\* succeeds or not.  ClientSidePrediction returns at once: m_gameStateSnapshot
\* is empty, and only prediction itself would fill it.
SendGameState ==
    /\ m_localSequenceNumberLarge < MaxFrames
    /\ unanswered < MaxUnanswered
    /\ m_localSequenceNumberLarge' = m_localSequenceNumberLarge + 1
    /\ m_sendPackets' = Append(m_sendPackets,
            [seqNum |-> m_localSequenceNumberLarge', acknowledged |-> FALSE])
    /\ unanswered' = unanswered + 1
    /\ arrived' \in {Lately(arrived), Lately(arrived) \cup {m_localSequenceNumberLarge'}}
    /\ \A acked \in {Latest(arrived')} \cup {packet.acked : packet \in toClient} :
            m_localSequenceNumberLarge' - acked <= MaxLate
    /\ averaged' = {}
    /\ UNCHANGED <<receivedVars, peerNumber, toClient, handledVars>>

-----------------------------------------------------------------------------
(* HandleGameState *)

IsMine(packet) == packet.salt = "m_connectionSalt"

\* Only the last numbers stay.
KeepReceived(s) ==
    IF Len(s) > MAX_RECEIVED_PACKETS_STORED
    THEN SubSeq(s, Len(s) - MAX_RECEIVED_PACKETS_STORED + 1, Len(s)) ELSE s

\* The number of a packet that is not a duplicate becomes the newest one.
\* Mutated form: a duplicate is recorded again.
RecordAgain(diff, seqNum) ==
    /\ m_remoteSequenceNumberLarge' = m_remoteSequenceNumberLarge + diff
    /\ m_remoteSequenceNumberSmall' = seqNum
    /\ m_receivedPackets' =
            KeepReceived(Append(m_receivedPackets, m_remoteSequenceNumberLarge'))
Record(diff, seqNum) ==
    IF diff > 0
    THEN /\ m_remoteSequenceNumberLarge' = m_remoteSequenceNumberLarge + diff
         /\ m_remoteSequenceNumberSmall' = seqNum
         /\ m_receivedPackets' = KeepReceived(
                Append(m_receivedPackets, m_remoteSequenceNumberLarge'))
    ELSE UNCHANGED receivedVars

\* The large number that a wire number acknowledges.
\* Mutated form: it is taken for the last frame sent.
AcknowledgesLast(ack) == m_localSequenceNumberLarge
AckedNumber(ack) ==
    (m_localSequenceNumberLarge
        - SequenceNumberDiff(Small(m_localSequenceNumberLarge), ack)) % LONG

\* packetsToRemove is unsigned: with fewer packets than shall be kept the
\* difference wraps, and remove_if takes every one of them.
\* Mutated forms: what is acknowledged goes, as the server does it, or one
\* packet too many stays.
RemoveAcknowledged(packets) ==
    SelectSeq(packets, LAMBDA info : ~info.acknowledged)
RemoveLess(packets) ==
    IF Len(packets) <= MAX_SEND_PACKETS_STORED + 1 THEN packets
    ELSE SubSeq(packets, Len(packets) - MAX_SEND_PACKETS_STORED, Len(packets))
RemoveOld(packets) ==
    LET packetsToRemove == (Len(packets) - MAX_SEND_PACKETS_STORED) % LONG
    IN  SubSeq(packets, packetsToRemove + 1, Len(packets))

\* The average is over the acknowledged frames that are removed.
HandleGameState(packet) ==
    IF IsMine(packet)
    THEN LET diff == SequenceNumberDiff(m_remoteSequenceNumberSmall, packet.seqNum)
             verified == VerifyAck(m_sendPackets, AckedNumber(packet.ack),
                                   packet.ackBits)
             kept == RemoveOld(verified)
         IN  /\ Record(diff, packet.seqNum)
             /\ m_sendPackets' = kept
             /\ averaged' = Acknowledged(verified) \ Numbers(kept)
             /\ unanswered' = 0
             /\ UNCHANGED m_localSequenceNumberLarge
    ELSE averaged' = {} /\ UNCHANGED <<sentVars, receivedVars, unanswered>>

\* Any packet under way is handled next, and may come once more.
ReceiveGameState ==
    \E packet \in toClient :
        /\ HandleGameState(packet)
        /\ m_remoteSequenceNumberLarge' <= MaxCounted
        /\ toClient' \in {toClient, toClient \ {packet}}
        /\ delivered' = {number \in delivered : number + ACK_BITS >= packet.number}
                            \cup {packet.number}
        /\ lastHandled' = packet.number
        /\ inOrder' = (inOrder /\ packet.number >= lastHandled)
        /\ UNCHANGED peerVars

\* A GAME_STATE of an earlier connection.
ReceiveStray ==
    /\ \E number \in 0..SEQUENCE_NUMBER_MAX - 1, ackBits \in {{}, Bits} :
            HandleGameState([salt |-> "other", seqNum |-> number, ack |-> number,
                             ackBits |-> ackBits])
    /\ UNCHANGED <<peerVars, toClient, handledVars>>

-----------------------------------------------------------------------------
(* The peer.  The fields number and acked of its packets are history: the  *)
(* large numbers, which the wire does not carry.                           *)

PeerAnswers ==
    /\ peerNumber < MaxFrames
    /\ Cardinality(toClient) < MaxUnderWay
    /\ peerNumber' = peerNumber + 1
    /\ peerNumber' - Latest(delivered) <= MaxGap
    /\ \/ toClient' = toClient \cup
            {[salt |-> "m_connectionSalt",
              number |-> peerNumber', acked |-> Latest(arrived),
              seqNum |-> Small(peerNumber'),
              ack |-> Small(Latest(arrived)),
              ackBits |-> AckBitsOf(arrived, Latest(arrived))]}
       \/ UNCHANGED toClient
    /\ averaged' = {}
    /\ UNCHANGED <<sentVars, receivedVars, unanswered, arrived, handledVars>>

Next == SendGameState \/ ReceiveGameState \/ ReceiveStray \/ PeerAnswers

Spec == Init /\ [][Next]_vars

-----------------------------------------------------------------------------
(* Properties. *)

\* Every variable keeps its type, and both vectors stay bounded: the numbers
\* received by their limit, the packets sent by theirs and what was sent since.
TypeOK ==
    /\ m_sendPackets \in Seq([seqNum: 1..MaxFrames, acknowledged: BOOLEAN])
    /\ Len(m_sendPackets) <= MAX_SEND_PACKETS_STORED + unanswered
    /\ m_receivedPackets \in Seq(Nat)
    /\ Len(m_receivedPackets) <= MAX_RECEIVED_PACKETS_STORED
    /\ m_localSequenceNumberLarge \in 0..MaxFrames
    /\ m_remoteSequenceNumberLarge \in Nat
    /\ m_remoteSequenceNumberSmall \in 0..WORD - 1

\* VerifyAck scans backwards in step with the mask: the packets stored are the
\* last ones sent, each once and in order, whatever was acknowledged or removed.
SentIsContiguous ==
    \A i \in DOMAIN m_sendPackets :
        m_sendPackets[i].seqNum =
            m_localSequenceNumberLarge - (Len(m_sendPackets) - i)

\* ComputeAckBits scans the received numbers the same way: duplicates, gaps and
\* a wire number that starts over leave them in ascending order, the last
\* one the newest.
ReceivedIsAscending ==
    /\ \A i, j \in DOMAIN m_receivedPackets :
            i < j => m_receivedPackets[i] < m_receivedPackets[j]
    /\ m_receivedPackets # <<>> =>
            Last(m_receivedPackets) = m_remoteSequenceNumberLarge

\* No frame counts as acknowledged, neither in m_sendPackets nor in the round
\* trip time, unless it has arrived: also with acknowledgements that are late
\* and while the wire numbers start over.
OnlyArrivedCount ==
    Acknowledged(m_sendPackets) \cup averaged \subseteq arrived

\* The next frame the client sends names the GAME_STATE that it handled last,
\* in whatever order they came; and while none has overtaken another, its mask,
\* read relative to that one, names only GAME_STATEs that it handled.  The mask
\* promises nothing from the first reordered packet on: the code counts an older
\* packet as ahead, the numbers in m_receivedPackets run away from the small
\* number, and the mask is computed around the small one.
FrameTellsTruth ==
    /\ m_remoteSequenceNumberSmall = Small(lastHandled)
    /\ inOrder => \A bit \in FrameAckBits :
            lastHandled - (ACK_BITS - bit) \in delivered

\* "Keep the last 33 packets" (Client.cpp:410): handling a GAME_STATE removes
\* none of the last MAX_SEND_PACKETS_STORED packets sent.
KeepsLastPackets ==
    [][\A number \in Numbers(m_sendPackets) :
        number > m_localSequenceNumberLarge - MAX_SEND_PACKETS_STORED
            => number \in Numbers(m_sendPackets')]_vars
=============================================================================
