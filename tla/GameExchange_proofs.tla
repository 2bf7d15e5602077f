------------------------ MODULE GameExchange_proofs -------------------------
(***************************************************************************)
(* The client's half of the exchange, for every width of the wire numbers, *)
(* every limit, and any loss, lateness or doubling: both vectors stay in   *)
(* order and within their limits, nothing counts as acknowledged that has  *)
(* not arrived, and a frame tells the truth of what has.                   *)
(***************************************************************************)
EXTENDS GameExchange, NetworkUtilities_proofs

\* The packets are the last ones up to the number last, in order.
Contiguous(data, last) ==
    \A i \in DOMAIN data : data[i].seqNum = last - (Len(data) - i)

\* The GAME_STATEs of the peer.
GameState ==
    [salt: {"m_connectionSalt"}, number: Nat, acked: 0..MaxFrames,
     seqNum: 0..WORD - 1, ack: 0..WORD - 1, ackBits: SUBSET Bits]

\* The numbers of the packets handled are in order and none is above the count.
ReceivedInv ==
    /\ m_receivedPackets \in Seq(Nat)
    /\ Len(m_receivedPackets) <= MAX_RECEIVED_PACKETS_STORED
    /\ Ascends(m_receivedPackets)
    /\ m_receivedPackets # <<>> =>
            Last(m_receivedPackets) = m_remoteSequenceNumberLarge
    /\ m_remoteSequenceNumberLarge \in Nat
    /\ m_remoteSequenceNumberSmall \in 0..WORD - 1

\* The packets sent are stored in order, no more than were numbered, and within
\* their limit and what was sent since a GAME_STATE last came.
SentInv ==
    /\ m_localSequenceNumberLarge \in 0..MaxFrames
    /\ unanswered \in 0..MaxUnanswered
    /\ m_sendPackets \in Seq(PacketInfo)
    /\ Len(m_sendPackets) <= MAX_SEND_PACKETS_STORED + unanswered
    /\ Len(m_sendPackets) <= m_localSequenceNumberLarge
    /\ Contiguous(m_sendPackets, m_localSequenceNumberLarge)

\* The peer has only what was sent.
PeerInv ==
    /\ arrived \subseteq 1..m_localSequenceNumberLarge
    /\ peerNumber \in Nat
    /\ toClient \subseteq GameState

ExchangeInv == ReceivedInv /\ SentInv /\ PeerInv

-----------------------------------------------------------------------------
(* The numbers received. *)

\* The last numbers of an ascending sequence ascend, and end as it does.
LEMMA KeepReceivedFacts ==
    ASSUME NEW s \in Seq(Nat), s # <<>>, Ascends(s)
    PROVE  /\ KeepReceived(s) \in Seq(Nat) /\ KeepReceived(s) # <<>>
           /\ Len(KeepReceived(s)) <= MAX_RECEIVED_PACKETS_STORED
           /\ Ascends(KeepReceived(s))
           /\ Last(KeepReceived(s)) = Last(s)
  <1> DEFINE limit == MAX_RECEIVED_PACKETS_STORED
             first == Len(s) - limit + 1
             kept == SubSeq(s, first, Len(s))
  <1>1. /\ Len(s) \in Nat \ {0} /\ DOMAIN s = 1..Len(s)
        /\ limit \in Nat \ {0}
    BY EmptySeq, LenProperties, ExchangeAssumption
  <1>2. CASE Len(s) <= limit
    BY <1>1, <1>2 DEF KeepReceived
  <1>3. CASE Len(s) > limit
    <2>1. KeepReceived(s) = kept
      BY <1>3 DEF KeepReceived
    <2>2. first \in 1..Len(s) /\ first \in Int /\ Len(s) \in Int
          /\ Len(s) - first + 1 = limit
      BY <1>1, <1>3
    <2>3. \A k \in first..Len(s) : s[k] \in Nat
      BY <1>1, <2>2, ElementOfSeq
    <2> HIDE DEF first
    <2>4. /\ kept \in Seq(Nat)
          /\ Len(kept) = IF first <= Len(s) THEN Len(s) - first + 1 ELSE 0
          /\ \A k \in 1..Len(s) - first + 1 : kept[k] = s[first + k - 1]
      BY <2>2, <2>3, SubSeqProperties
    <2> HIDE DEF kept
    <2>5. /\ Len(kept) = limit /\ DOMAIN kept = 1..limit
          /\ \A k \in 1..limit : kept[k] = s[first + k - 1]
      BY <2>2, <2>4, LenProperties
    <2>6. ASSUME NEW i \in DOMAIN kept, NEW j \in DOMAIN kept, i < j
          PROVE  kept[i] < kept[j]
      <3>1. /\ i \in 1..limit /\ j \in 1..limit /\ first \in Nat
            /\ Len(s) = first + limit - 1
        BY <1>1, <2>2, <2>5
      <3> HIDE DEF limit
      <3>2. first + i - 1 \in 1..Len(s)
        BY <1>1, <2>2, <3>1
      <3>3. first + j - 1 \in 1..Len(s)
        BY <1>1, <2>2, <3>1
      <3>4. first + i - 1 < first + j - 1
        BY <2>2, <2>6, <3>1
      <3>5. QED
        BY <1>1, <2>5, <3>1, <3>2, <3>3, <3>4 DEF Ascends
    <2>7. kept[limit] = s[Len(s)]
      <3> HIDE DEF limit
      <3>1. limit \in 1..limit /\ first + limit - 1 = Len(s)
        BY <1>1, <2>2
      <3>2. QED
        BY <2>5, <3>1
    <2>8. kept # <<>>
      BY <1>1, <2>5, EmptySeq
    <2>9. QED
      BY <1>1, <2>1, <2>4, <2>5, <2>6, <2>7, <2>8 DEF Ascends, Last
  <1>4. QED
    BY <1>1, <1>2, <1>3

-----------------------------------------------------------------------------
(* The steps. *)

\* A distance of two wire numbers is a wire number.
LEMMA DiffInRange ==
    ASSUME NEW previous \in 0..WORD - 1, NEW next \in 0..WORD - 1
    PROVE  SequenceNumberDiff(previous, next) \in 0..WORD - 1
  BY WordAssumption DEF SequenceNumberDiff

\* Recording a packet keeps the numbers in order, whatever its number is.
LEMMA RecordKeeps ==
    ASSUME ReceivedInv, NEW seqNum \in 0..WORD - 1,
           Record(SequenceNumberDiff(m_remoteSequenceNumberSmall, seqNum), seqNum)
    PROVE  ReceivedInv'
  <1> DEFINE diff == SequenceNumberDiff(m_remoteSequenceNumberSmall, seqNum)
             large == m_remoteSequenceNumberLarge + diff
             appended == Append(m_receivedPackets, large)
  <1>1. diff \in Nat
    BY DiffInRange, WordAssumption DEF ReceivedInv
  <1> HIDE DEF diff
  <1>2. CASE diff > 0
    <2>1. large \in Nat /\ large > m_remoteSequenceNumberLarge
      BY <1>1, <1>2 DEF ReceivedInv
    <2> HIDE DEF large
    <2>2. /\ appended \in Seq(Nat) /\ appended # <<>> /\ Ascends(appended)
          /\ Last(appended) = large
      BY <2>1, AppendAscends DEF ReceivedInv
    <2> HIDE DEF appended
    <2>3. /\ m_remoteSequenceNumberLarge' = large
          /\ m_remoteSequenceNumberSmall' = seqNum
          /\ m_receivedPackets' = KeepReceived(appended)
      BY <1>2 DEF Record, diff, large, appended
    <2>4. QED
      BY <2>1, <2>2, <2>3, KeepReceivedFacts DEF ReceivedInv, Ascends
  <1>3. CASE ~(diff > 0)
    BY <1>3 DEF Record, diff, receivedVars, ReceivedInv, Ascends
  <1>4. QED
    BY <1>2, <1>3

-----------------------------------------------------------------------------
(* The packets sent. *)

\* What is contiguous ascends.
LEMMA ContiguousAscends ==
    ASSUME NEW data \in Seq(PacketInfo), NEW last \in Nat, Contiguous(data, last)
    PROVE  Ascends(NumbersOf(data))
  <1>1. /\ DOMAIN data = 1..Len(data) /\ DOMAIN NumbersOf(data) = DOMAIN data
        /\ Len(data) \in Nat
        /\ \A i \in DOMAIN data : NumbersOf(data)[i] = last - (Len(data) - i)
    BY NumbersTyped DEF Contiguous
  <1> DEFINE n == Len(data)
             numbers == NumbersOf(data)
  <1> HIDE DEF n, numbers
  <1>2. QED
    BY <1>1 DEF Ascends, n, numbers

\* VerifyAck marks packets and does nothing else to them.
LEMMA VerifyAckSame ==
    ASSUME NEW data \in Seq(PacketInfo), NEW ack \in 0..LONG - 1, NEW ackBits
    PROVE  VerifyAck(data, ack, ackBits) \in SamePackets(data)
  <1>1. ACK_BITS \in Nat /\ ACK_BITS <= LONG
    BY ExchangeAssumption, AckBitsAssumption, LongAssumption
  <1>2. CASE data = <<>>
    BY <1>2 DEF VerifyAck, SamePackets
  <1>3. CASE data # <<>>
    <2> DEFINE rounds == MarkRounds(data, ack, ackBits)
    <2>1. rounds \in [0..ACK_BITS -> MarkState(data)]
      BY <1>1, <1>3, MarkRoundsIs
    <2> HIDE DEF rounds
    <2>2. rounds[ACK_BITS] \in MarkState(data)
      BY <1>1, <2>1
    <2>3. QED
      BY <1>3, <2>2 DEF VerifyAck, MarkState, rounds
  <1>4. QED
    BY <1>2, <1>3

\* The same packets are as contiguous.
LEMMA SameContiguous ==
    ASSUME NEW data \in Seq(PacketInfo), NEW other \in SamePackets(data),
           NEW last, Contiguous(data, last)
    PROVE  /\ other \in Seq(PacketInfo) /\ Len(other) = Len(data)
           /\ Contiguous(other, last)
  <1>1. /\ other \in Seq(PacketInfo) /\ Len(other) = Len(data)
        /\ NumbersOf(other) = NumbersOf(data)
    BY DEF SamePackets
  <1>2. DOMAIN other = DOMAIN data
    BY <1>1, LenProperties
  <1>3. \A i \in DOMAIN data : other[i].seqNum = data[i].seqNum
    BY <1>1, <1>2, NumbersTyped
  <1>4. QED
    BY <1>1, <1>2, <1>3 DEF Contiguous

\* RemoveOld keeps the last packets if it keeps any: the difference wraps to a
\* number beyond the end when there are fewer packets than shall be kept.
LEMMA RemoveOldIs ==
    ASSUME NEW data \in Seq(PacketInfo), Len(data) <= MaxFrames
    PROVE  /\ RemoveOld(data) \in Seq(PacketInfo)
           /\ Len(RemoveOld(data)) <= MAX_SEND_PACKETS_STORED
           /\ Len(RemoveOld(data)) <= Len(data)
           /\ \A i \in 1..Len(RemoveOld(data)) :
                RemoveOld(data)[i] = data[Len(data) - Len(RemoveOld(data)) + i]
  <1> DEFINE n == Len(data)
             limit == MAX_SEND_PACKETS_STORED
             removed == (n - limit) % LONG
             kept == SubSeq(data, removed + 1, n)
  <1>1. n \in Nat /\ limit \in Nat /\ LONG \in Nat /\ n < LONG /\ limit < LONG
        /\ DOMAIN data = 1..n
    BY LenProperties, ExchangeAssumption, LongAssumption, AckBitsAssumption
  <1>2. removed = IF n >= limit THEN n - limit ELSE LONG + n - limit
    <2> HIDE DEF n, limit
    <2>1. CASE n >= limit
      <3>1. n - limit \in 0..LONG - 1
        BY <1>1, <2>1
      <3>2. QED
        BY <1>1, <2>1, <3>1
    <2>2. CASE ~(n >= limit)
      <3>1. LONG + n - limit \in 0..LONG - 1
        BY <1>1, <2>2
      <3>2. (n - limit) % LONG = (LONG + n - limit) % LONG
        BY <1>1, <2>2
      <3>3. QED
        BY <1>1, <2>2, <3>1, <3>2
    <2>3. QED
      BY <2>1, <2>2
  <1>3. RemoveOld(data) = kept
    BY DEF RemoveOld
  <1>5. \A k \in 1..n : data[k] \in PacketInfo
    BY ElementOfSeq
  <1> HIDE DEF removed, n, limit
  <1>4. removed \in Nat /\ (removed > n \/ (removed <= n /\ n - removed = limit))
    BY <1>1, <1>2
  <1> DEFINE first == removed + 1
  <1>6. /\ kept \in Seq(PacketInfo)
        /\ Len(kept) = IF first <= n THEN n - first + 1 ELSE 0
        /\ \A k \in 1..n - first + 1 : kept[k] = data[first + k - 1]
    <2>1. first \in Int /\ n \in Int /\ \A k \in first..n : data[k] \in PacketInfo
      BY <1>1, <1>4, <1>5
    <2> HIDE DEF first
    <2>2. QED
      BY <2>1, SubSeqProperties DEF kept, first
  <1> HIDE DEF kept
  <1>7. Len(kept) <= limit /\ Len(kept) <= n
    BY <1>1, <1>4, <1>6
  <1>8. ASSUME NEW i \in 1..Len(kept) PROVE kept[i] = data[n - Len(kept) + i]
    <2>1. Len(kept) = n - first + 1 /\ i \in 1..n - first + 1
      BY <1>1, <1>4, <1>6
    <2>2. first + i - 1 = n - Len(kept) + i
      BY <1>1, <1>4, <2>1
    <2>3. QED
      BY <1>6, <2>1, <2>2
  <1>9. QED
    BY <1>3, <1>6, <1>7, <1>8 DEF n, limit

\* What RemoveOld keeps is as contiguous as the packets were.
LEMMA RemoveOldContiguous ==
    ASSUME NEW data \in Seq(PacketInfo), NEW last \in Nat, Contiguous(data, last),
           Len(data) <= MaxFrames
    PROVE  Contiguous(RemoveOld(data), last)
  <1> DEFINE kept == RemoveOld(data)
             n == Len(data)
             m == Len(kept)
  <1>1. /\ kept \in Seq(PacketInfo) /\ m <= n
        /\ \A i \in 1..m : kept[i] = data[n - m + i]
    BY RemoveOldIs
  <1>2. m \in Nat /\ n \in Nat /\ DOMAIN kept = 1..m /\ DOMAIN data = 1..n
    BY <1>1, LenProperties
  <1>3. \A i \in 1..n : data[i].seqNum = last - (n - i)
    BY <1>2 DEF Contiguous
  <1> HIDE DEF n, m, kept
  <1>4. ASSUME NEW i \in 1..m PROVE kept[i].seqNum = last - (m - i)
    <2>1. n - m + i \in 1..n /\ n - (n - m + i) = m - i
      BY <1>1, <1>2
    <2>2. QED
      BY <1>1, <1>3, <2>1
  <1>5. QED
    BY <1>2, <1>4 DEF Contiguous, kept, m

\* A frame is sent: the next number follows the last.
LEMMA SendKeepsSent ==
    ASSUME SentInv, SendGameState
    PROVE  SentInv'
  <1> DEFINE n == Len(m_sendPackets)
             large == m_localSequenceNumberLarge
             info == [seqNum |-> large + 1, acknowledged |-> FALSE]
             new == Append(m_sendPackets, info)
  <1>1. /\ m_sendPackets \in Seq(PacketInfo) /\ n \in Nat /\ large \in Nat
        /\ DOMAIN m_sendPackets = 1..n
        /\ \A i \in 1..n : m_sendPackets[i].seqNum = large - (n - i)
    BY LenProperties, ExchangeAssumption DEF SentInv, Contiguous
  <1>2. info \in PacketInfo
    BY <1>1 DEF PacketInfo
  <1>3. /\ m_sendPackets' = new /\ m_localSequenceNumberLarge' = large + 1
        /\ unanswered' = unanswered + 1 /\ large < MaxFrames
        /\ unanswered < MaxUnanswered
    BY DEF SendGameState
  <1>4. info.seqNum = large + 1
    OBVIOUS
  <1> HIDE DEF info
  <1>5. /\ new \in Seq(PacketInfo) /\ Len(new) = n + 1
        /\ \A i \in 1..n : new[i] = m_sendPackets[i]
        /\ new[n + 1] = info
    BY <1>1, <1>2, AppendProperties
  <1>6. DOMAIN new = 1..n + 1
    BY <1>5, LenProperties
  <1> HIDE DEF new
  <1>7. ASSUME NEW i \in DOMAIN new
        PROVE  new[i].seqNum = (large + 1) - (Len(new) - i)
    <2>1. CASE i = n + 1
      <3>1. new[i].seqNum = large + 1 /\ Len(new) - i = 0
        BY <1>1, <1>4, <1>5, <2>1
      <3>2. QED
        BY <1>1, <3>1
    <2>2. CASE i \in 1..n
      <3>1. new[i].seqNum = large - (n - i) /\ Len(new) = n + 1
        BY <1>1, <1>5, <2>2
      <3>2. QED
        BY <1>1, <2>2, <3>1
    <2>3. QED
      BY <1>1, <1>6, <2>1, <2>2
  <1>8. Contiguous(new, large + 1)
    BY <1>7 DEF Contiguous
  <1>9. /\ m_localSequenceNumberLarge' \in 0..MaxFrames
        /\ unanswered' \in 0..MaxUnanswered
        /\ Len(new) <= MAX_SEND_PACKETS_STORED + unanswered'
        /\ Len(new) <= m_localSequenceNumberLarge'
    BY <1>1, <1>3, <1>5, ExchangeAssumption DEF SentInv
  <1>10. QED
    BY <1>3, <1>5, <1>8, <1>9 DEF SentInv, Contiguous

\* A number on the wire names a number of 64 bits.
LEMMA AckedNumberTyped ==
    ASSUME m_localSequenceNumberLarge \in Nat, NEW ack \in 0..WORD - 1
    PROVE  AckedNumber(ack) \in 0..LONG - 1
  <1>1. /\ WORD \in Nat /\ WORD > 1 /\ LONG \in Nat /\ LONG > 0
    BY WordAssumption, LongAssumption
  <1>2. Small(m_localSequenceNumberLarge) \in 0..WORD - 1
    BY <1>1 DEF Small, SEQUENCE_NUMBER_MAX
  <1>3. SequenceNumberDiff(Small(m_localSequenceNumberLarge), ack) \in Int
    BY <1>2, DiffInRange, WordAssumption
  <1> DEFINE diff == SequenceNumberDiff(Small(m_localSequenceNumberLarge), ack)
  <1> HIDE DEF diff
  <1>4. diff \in Int
    BY <1>3 DEF diff
  <1>5. (m_localSequenceNumberLarge - diff) % LONG \in 0..LONG - 1
    BY <1>1, <1>4
  <1>6. QED
    BY <1>5 DEF AckedNumber, diff

\* What becomes of the packets when a GAME_STATE of the connection is handled.
Verified(packet) ==
    VerifyAck(m_sendPackets, AckedNumber(packet.ack), packet.ackBits)

LEMMA VerifiedIs ==
    ASSUME SentInv, NEW packet, packet.ack \in 0..WORD - 1
    PROVE  /\ AckedNumber(packet.ack) \in 0..LONG - 1
           /\ Verified(packet) \in Seq(PacketInfo)
           /\ Len(Verified(packet)) = Len(m_sendPackets)
           /\ Len(Verified(packet)) <= MaxFrames
           /\ Contiguous(Verified(packet), m_localSequenceNumberLarge)
  <1>1. m_localSequenceNumberLarge \in Nat /\ m_sendPackets \in Seq(PacketInfo)
        /\ Contiguous(m_sendPackets, m_localSequenceNumberLarge)
        /\ Len(m_sendPackets) <= MaxFrames
    BY ExchangeAssumption, LenProperties DEF SentInv
  <1>2. AckedNumber(packet.ack) \in 0..LONG - 1
    BY <1>1, AckedNumberTyped
  <1>3. Verified(packet) \in SamePackets(m_sendPackets)
    BY <1>1, <1>2, VerifyAckSame DEF Verified
  <1>4. QED
    BY <1>1, <1>2, <1>3, SameContiguous

\* Handling a GAME_STATE keeps the last packets, in order.
LEMMA HandleKeepsSent ==
    ASSUME SentInv, NEW packet, IsMine(packet), packet.ack \in 0..WORD - 1,
           HandleGameState(packet)
    PROVE  SentInv'
  <1> DEFINE verified == Verified(packet)
  <1>1. /\ m_sendPackets' = RemoveOld(verified)
        /\ unanswered' = 0
        /\ m_localSequenceNumberLarge' = m_localSequenceNumberLarge
    BY DEF HandleGameState, Verified
  <1>2. /\ verified \in Seq(PacketInfo) /\ Len(verified) = Len(m_sendPackets)
        /\ Len(verified) <= MaxFrames
        /\ Contiguous(verified, m_localSequenceNumberLarge)
    BY VerifiedIs
  <1> HIDE DEF verified
  <1>3. /\ RemoveOld(verified) \in Seq(PacketInfo)
        /\ Len(RemoveOld(verified)) <= MAX_SEND_PACKETS_STORED
        /\ Len(RemoveOld(verified)) <= Len(m_sendPackets)
    BY <1>2, RemoveOldIs
  <1>4. Contiguous(RemoveOld(verified), m_localSequenceNumberLarge)
    BY <1>2, RemoveOldContiguous, ExchangeAssumption DEF SentInv
  <1> DEFINE kept == RemoveOld(verified)
  <1> HIDE DEF kept
  <1>5. Len(kept) \in Nat /\ Len(m_sendPackets) \in Nat
    BY <1>3, LenProperties DEF kept, SentInv
  <1>6. /\ Len(kept) <= MAX_SEND_PACKETS_STORED + unanswered'
        /\ Len(kept) <= m_localSequenceNumberLarge
        /\ unanswered' \in 0..MaxUnanswered
    BY <1>1, <1>3, <1>5, ExchangeAssumption DEF SentInv, kept
  <1>7. QED
    BY <1>1, <1>3, <1>4, <1>6 DEF SentInv, Contiguous, kept

-----------------------------------------------------------------------------
(* The peer. *)

\* The latest of some numbers is one of them, or 0 where there are none.
LEMMA LatestIs ==
    ASSUME NEW bound \in Nat, NEW numbers \in SUBSET (1..bound)
    PROVE  /\ Latest(numbers) \in numbers \cup {0}
           /\ Latest(numbers) \in 0..bound
           /\ \A n \in numbers : n <= Latest(numbers)
  <1> DEFINE all == numbers \cup {0}
  <1>1. all \in SUBSET (0..bound) /\ all # {}
    OBVIOUS
  <1>2. numbers \subseteq all
    OBVIOUS
  <1> HIDE DEF all
  <1>3. Max(all) \in all /\ \A n \in all : n <= Max(all)
    BY <1>1, MaxIs
  <1>4. QED
    BY <1>1, <1>2, <1>3 DEF Latest, all

\* What the peer tells is a GAME_STATE.
LEMMA AnswerTyped ==
    ASSUME PeerInv, SentInv, NEW number \in Nat
    PROVE  [salt |-> "m_connectionSalt", number |-> number, acked |-> Latest(arrived),
            seqNum |-> Small(number), ack |-> Small(Latest(arrived)),
            ackBits |-> AckBitsOf(arrived, Latest(arrived))] \in GameState
  <1>1. Latest(arrived) \in 0..MaxFrames
    <2>1. Latest(arrived) \in 0..m_localSequenceNumberLarge
      BY LatestIs DEF PeerInv, SentInv
    <2>2. QED
      BY <2>1, ExchangeAssumption DEF SentInv
  <1>2. Small(number) \in 0..WORD - 1 /\ Small(Latest(arrived)) \in 0..WORD - 1
    BY <1>1, WordAssumption, ExchangeAssumption DEF Small, SEQUENCE_NUMBER_MAX
  <1>3. AckBitsOf(arrived, Latest(arrived)) \in SUBSET Bits
    BY DEF AckBitsOf
  <1>4. QED
    BY <1>1, <1>2, <1>3 DEF GameState

-----------------------------------------------------------------------------
(* The steps together. *)

\* Every step keeps the invariant.
LEMMA StepKeeps ==
    ASSUME ExchangeInv, [Next]_vars
    PROVE  ExchangeInv'
  <1> USE DEF ExchangeInv
  <1>1. CASE SendGameState
    <2>1. ReceivedInv'
      BY <1>1 DEF SendGameState, receivedVars, ReceivedInv, Ascends
    <2>2. SentInv'
      BY <1>1, SendKeepsSent
    <2>3. PeerInv'
      BY <1>1 DEF SendGameState, Lately, PeerInv, SentInv
    <2>4. QED
      BY <2>1, <2>2, <2>3
  <1>2. CASE ReceiveGameState
    <2>1. PICK packet \in toClient :
            HandleGameState(packet) /\ toClient' \subseteq toClient /\ UNCHANGED peerVars
      BY <1>2 DEF ReceiveGameState
    <2>2. /\ packet.seqNum \in 0..WORD - 1 /\ packet.ack \in 0..WORD - 1
          /\ IsMine(packet)
      BY DEF GameState, IsMine, PeerInv
    <2>4. ReceivedInv'
      BY <2>1, <2>2, RecordKeeps DEF HandleGameState
    <2>5. SentInv'
      BY <2>1, <2>2, HandleKeepsSent
    <2>6. m_localSequenceNumberLarge' = m_localSequenceNumberLarge
      BY <2>1, <2>2 DEF HandleGameState
    <2>7. PeerInv'
      BY <2>1, <2>6 DEF peerVars, PeerInv
    <2>8. QED
      BY <2>4, <2>5, <2>7
  <1>3. CASE ReceiveStray
    <2>1. UNCHANGED <<receivedVars, sentVars, unanswered, peerVars, toClient>>
      BY <1>3 DEF ReceiveStray, HandleGameState, IsMine
    <2>2. QED
      BY <2>1 DEF receivedVars, sentVars, peerVars, ReceivedInv, SentInv, PeerInv,
                  Ascends, Contiguous
  <1>4. CASE PeerAnswers
    <2>1. peerNumber' \in Nat /\ peerNumber' = peerNumber + 1
      BY <1>4 DEF PeerAnswers, PeerInv
    <2> DEFINE answer == [salt |-> "m_connectionSalt",
                          number |-> peerNumber', acked |-> Latest(arrived),
                          seqNum |-> Small(peerNumber'),
                          ack |-> Small(Latest(arrived)),
                          ackBits |-> AckBitsOf(arrived, Latest(arrived))]
    <2>2. answer \in GameState
      BY <2>1, AnswerTyped
    <2>3. toClient' = toClient \cup {answer} \/ toClient' = toClient
      BY <1>4 DEF PeerAnswers
    <2> HIDE DEF answer
    <2>4. toClient' \subseteq GameState
      BY <2>2, <2>3 DEF PeerInv
    <2>5. UNCHANGED <<receivedVars, sentVars, unanswered, arrived>>
      BY <1>4 DEF PeerAnswers
    <2>6. QED
      BY <2>1, <2>4, <2>5 DEF receivedVars, sentVars, ReceivedInv, SentInv, PeerInv,
                              Ascends, Contiguous
  <1>5. CASE UNCHANGED vars
    BY <1>5 DEF vars, receivedVars, sentVars, peerVars, ReceivedInv, SentInv, PeerInv,
                Ascends, Contiguous
  <1>6. QED
    BY <1>1, <1>2, <1>3, <1>4, <1>5 DEF Next

\* The invariant, for every width and limit.
THEOREM ExchangeInvariant == Spec => []ExchangeInv
  <1>1. Init => ExchangeInv
    BY WordAssumption, ExchangeAssumption
       DEF Init, ExchangeInv, ReceivedInv, SentInv, PeerInv, Ascends, Contiguous
  <1>2. QED
    BY <1>1, StepKeeps, PTL DEF Spec

\* Every variable keeps its type, and both vectors stay within their limits.
THEOREM ExchangeTypeCorrect == Spec => []TypeOK
  <1>1. ASSUME ExchangeInv PROVE TypeOK
    <2> DEFINE n == Len(m_sendPackets)
               Info == [seqNum: 1..MaxFrames, acknowledged: BOOLEAN]
    <2>1. /\ n \in Nat /\ DOMAIN m_sendPackets = 1..n
          /\ n <= m_localSequenceNumberLarge
          /\ \A i \in 1..n :
               /\ m_sendPackets[i] \in PacketInfo
               /\ m_sendPackets[i].seqNum = m_localSequenceNumberLarge - (n - i)
      BY <1>1, NumbersTyped DEF ExchangeInv, SentInv, Contiguous
    <2>2. m_localSequenceNumberLarge \in 0..MaxFrames /\ MaxFrames \in Nat
      BY <1>1, ExchangeAssumption DEF ExchangeInv, SentInv
    <2> HIDE DEF n
    <2>3. \A i \in 1..n : m_sendPackets[i] \in Info
      BY <2>1, <2>2 DEF PacketInfo
    <2>4. m_sendPackets = [i \in 1..n |-> m_sendPackets[i]]
      BY <1>1, <2>1 DEF ExchangeInv, SentInv, n
    <2> HIDE DEF Info
    <2>5. m_sendPackets \in [1..n -> Info]
      BY <2>3, <2>4
    <2>6. m_sendPackets \in Seq(Info)
      BY <2>1, <2>5
    <2>7. QED
      BY <1>1, <2>6 DEF TypeOK, ExchangeInv, ReceivedInv, SentInv, Info
  <1>2. QED
    BY <1>1, ExchangeInvariant, PTL

\* The packets stored are the last ones sent, each once and in order: what
\* VerifyAck needs for its scan, for every width and every limit.
THEOREM SentContiguous == Spec => []SentIsContiguous
  <1>1. ExchangeInv => SentIsContiguous
    BY DEF ExchangeInv, SentInv, Contiguous, SentIsContiguous
  <1>2. QED
    BY <1>1, ExchangeInvariant, PTL

\* The numbers that ComputeAckBits scans are in ascending order and end with
\* the newest, for every width of the wire numbers and every limit.
THEOREM ReceivedAscends == Spec => []ReceivedIsAscending
  <1>1. ExchangeInv => ReceivedIsAscending
    BY DEF ExchangeInv, ReceivedInv, ReceivedIsAscending, Ascends
  <1>2. QED
    BY <1>1, ExchangeInvariant, PTL

-----------------------------------------------------------------------------
(* What counts as acknowledged. *)

\* The limits within which the wire numbers tell enough: what is late stays
\* within half their range, the packets stored and what is late together
\* within the range, and the peer remembers what can still be named.
WithinReach ==
    /\ MaxLate <= SEQUENCE_NUMBER_HALF
    /\ MAX_SEND_PACKETS_STORED + MaxUnanswered + MaxLate <= SEQUENCE_NUMBER_MAX
    /\ MAX_SEND_PACKETS_STORED + MaxUnanswered <= ACK_BITS + MaxLate + 2

\* A GAME_STATE acknowledges only what has arrived, and is not too late.
TellsTruth(packet) ==
    /\ packet.acked \in arrived \cup {0}
    /\ packet.acked + MaxLate >= m_localSequenceNumberLarge
    /\ packet.ack = Small(packet.acked)
    /\ \A bit \in packet.ackBits : NumberOfBit(packet.acked, bit) \in arrived

ArrivedInv ==
    /\ Latest(arrived) + MaxLate >= m_localSequenceNumberLarge
    /\ \A packet \in toClient : TellsTruth(packet)
    /\ OnlyArrivedCount

\* A number on the wire is the number's remainder.
LEMMA SmallIs ==
    ASSUME NEW number \in Nat
    PROVE  \E q \in Nat : /\ number = q * SEQUENCE_NUMBER_MAX + Small(number)
                          /\ Small(number) \in 0..SEQUENCE_NUMBER_MAX - 1
  <1> DEFINE S == SEQUENCE_NUMBER_MAX
  <1>1. S \in Nat /\ S > 0
    BY WordAssumption DEF SEQUENCE_NUMBER_MAX
  <1> HIDE DEF S
  <1>2. /\ number = (number \div S) * S + (number % S)
        /\ number % S \in 0..S - 1 /\ number \div S \in Nat
    BY <1>1
  <1>3. QED
    BY <1>2 DEF Small, S

\* The distance of the remainders of two numbers that are not far apart.
LEMMA SmallDistance ==
    ASSUME NEW large \in Nat, NEW acked \in 0..large,
           large - acked < SEQUENCE_NUMBER_MAX
    PROVE  \/ Small(large) - Small(acked) = large - acked
           \/ /\ Small(large) - Small(acked) = large - acked - SEQUENCE_NUMBER_MAX
              /\ large >= SEQUENCE_NUMBER_MAX
  <1> DEFINE S == SEQUENCE_NUMBER_MAX
             a == Small(large)
             b == Small(acked)
  <1>1. S \in Nat /\ S > 0
    BY WordAssumption DEF SEQUENCE_NUMBER_MAX
  <1>2. PICK q \in Nat : large = q * S + a /\ a \in 0..S - 1
    BY SmallIs
  <1>3. PICK r \in Nat : acked = r * S + b /\ b \in 0..S - 1
    BY SmallIs
  <1> HIDE DEF S, a, b
  <1> DEFINE d == large - acked
  <1>4. d \in 0..S - 1
    BY <1>1 DEF S
  <1>5. d = (q - r) * S + (a - b) /\ a - b \in -(S - 1)..S - 1
    BY <1>1, <1>2, <1>3
  <1>6. q - r \in {0, 1}
    <2> DEFINE k == q - r
    <2>1. k \in Int /\ d = k * S + (a - b)
      BY <1>5
    <2> HIDE DEF k, d
    <2>2. ~(k >= 2)
      <3> SUFFICES ASSUME k >= 2 PROVE FALSE
        OBVIOUS
      <3>1. k * S >= 2 * S
        BY <1>1, <2>1
      <3>2. QED
        BY <1>1, <1>4, <1>5, <2>1, <3>1
    <2>3. ~(k <= -1)
      <3> SUFFICES ASSUME k <= -1 PROVE FALSE
        OBVIOUS
      <3>1. k * S <= -S
        BY <1>1, <2>1
      <3>2. QED
        BY <1>1, <1>4, <1>5, <2>1, <3>1
    <2>4. QED
      BY <2>1, <2>2, <2>3 DEF k
  <1>7. CASE q = r
    <2>1. (q - r) * S = 0
      BY <1>1, <1>7
    <2>2. QED
      BY <1>2, <1>3, <1>5, <2>1 DEF a, b
  <1>8. CASE q = r + 1
    <2>1. (q - r) * S = S /\ q * S = r * S + S
      BY <1>1, <1>8
    <2>2. r * S \in Nat
      BY <1>1
    <2>3. a - b = d - S /\ large >= S
      BY <1>1, <1>2, <1>3, <1>5, <2>1, <2>2
    <2>4. QED
      BY <2>3 DEF a, b, S
  <1>9. QED
    BY <1>2, <1>3, <1>6, <1>7, <1>8

\* A wire number is taken for the number that it stands for, or for one that
\* is behind every packet stored.
LEMMA AckedNumberIs ==
    ASSUME WithinReach, SentInv, NEW acked \in 0..m_localSequenceNumberLarge,
           acked + MaxLate >= m_localSequenceNumberLarge
    PROVE  \/ AckedNumber(Small(acked)) = acked
           \/ AckedNumber(Small(acked)) \in
                0..m_localSequenceNumberLarge - Len(m_sendPackets)
  <1> DEFINE large == m_localSequenceNumberLarge
             S == SEQUENCE_NUMBER_MAX
             d == large - acked
             a == Small(large)
             b == Small(acked)
             n == Len(m_sendPackets)
             diff == SequenceNumberDiff(a, b)
  <1>1. /\ S \in Nat /\ S > 0 /\ WORD = S + 1 /\ LONG \in Nat
        /\ large \in Nat /\ large < LONG /\ MaxLate \in Nat
        /\ n \in Nat /\ n <= large /\ n <= MAX_SEND_PACKETS_STORED + MaxUnanswered
    BY WordAssumption, LongAssumption, AckBitsAssumption, ExchangeAssumption, LenProperties
       DEF SEQUENCE_NUMBER_MAX, SentInv
  <1>2. d \in 0..MaxLate /\ d + n <= S /\ d < S /\ d <= SEQUENCE_NUMBER_HALF
    <2>1. d \in 0..MaxLate
      BY <1>1
    <2>2. SEQUENCE_NUMBER_HALF \in Nat
      BY WordAssumption DEF SEQUENCE_NUMBER_HALF
    <2>3. /\ MaxLate <= SEQUENCE_NUMBER_HALF /\ MaxUnanswered \in Nat
          /\ MAX_SEND_PACKETS_STORED \in Nat \ {0}
          /\ MAX_SEND_PACKETS_STORED + MaxUnanswered + MaxLate <= S
      BY ExchangeAssumption DEF WithinReach
    <2> HIDE DEF d, n, S
    <2>4. QED
      BY <1>1, <2>1, <2>2, <2>3
  <1>3. a \in 0..S - 1 /\ b \in 0..S - 1
    BY <1>1 DEF Small
  <1>4. a - b = d \/ (a - b = d - S /\ large >= S)
    BY <1>1, <1>2, SmallDistance
  <1>5. AckedNumber(b) = (large - diff) % LONG
    BY DEF AckedNumber
  <1>6. CASE a - b = d
    <2>1. diff = d
      BY <1>1, <1>2, <1>3, <1>6 DEF SequenceNumberDiff
    <2>2. large - diff = acked /\ acked \in 0..LONG - 1
      BY <1>1, <2>1
    <2>3. QED
      BY <1>1, <1>5, <2>2
  <1>7. CASE a - b = d - S /\ large >= S
    <2>1. diff = S - d
      <3> HIDE DEF d, S, a, b
      <3>1. ~(a > b) /\ b - a = S - d /\ S - d \in 0..WORD - 1
        BY <1>1, <1>2, <1>3, <1>7
      <3>2. (b - a) % WORD = S - d
        BY <1>1, <3>1
      <3>3. QED
        BY <3>1, <3>2 DEF SequenceNumberDiff
    <2>2. large - diff \in 0..LONG - 1 /\ large - diff <= large - n
      BY <1>1, <1>2, <1>7, <2>1
    <2>3. QED
      BY <1>1, <1>5, <2>2
  <1>8. QED
    BY <1>4, <1>6, <1>7

\* The numbers that a GAME_STATE acknowledges among the packets stored have
\* arrived.
LEMMA StoredAcksArrived ==
    ASSUME WithinReach, SentInv, NEW packet, TellsTruth(packet),
           arrived \subseteq 1..m_localSequenceNumberLarge,
           NEW i \in DOMAIN m_sendPackets,
           m_sendPackets[i].seqNum \in AckedBy(AckedNumber(packet.ack), packet.ackBits)
    PROVE  m_sendPackets[i].seqNum \in arrived
  <1> DEFINE large == m_localSequenceNumberLarge
             n == Len(m_sendPackets)
             number == m_sendPackets[i].seqNum
             ack == AckedNumber(packet.ack)
             acked == packet.acked
  <1>1. /\ LONG \in Nat /\ ACK_BITS \in Nat \ {0} /\ large \in Nat
        /\ large + ACK_BITS < LONG /\ n \in Nat /\ n <= large
        /\ DOMAIN m_sendPackets = 1..n
    BY LongAssumption, AckBitsAssumption, ExchangeAssumption, LenProperties DEF SentInv
  <1>2. number \in large - n + 1..large /\ number \in 1..large
    <2>1. number = large - (n - i)
      BY DEF SentInv, Contiguous
    <2>2. QED
      BY <1>1, <2>1
  <1>3. acked \in 0..large /\ acked \in arrived \cup {0}
        /\ acked + MaxLate >= large /\ packet.ack = Small(acked)
    <2>1. /\ acked \in arrived \cup {0} /\ acked + MaxLate >= large
          /\ packet.ack = Small(acked)
      BY DEF TellsTruth
    <2>2. 0 \in 0..large /\ 1..large \subseteq 0..large
      BY <1>1
    <2> HIDE DEF acked, large
    <2>3. QED
      BY <2>1, <2>2 DEF large
  <1>4. ack = acked \/ ack \in 0..large - n
    BY <1>3, AckedNumberIs
  <1>5. PICK bit \in Bits : RoundIsAck(packet.ackBits, bit)
                              /\ number = (ack - (ACK_BITS - 1 - bit)) % LONG
    BY DEF AckedBy
  <1> DEFINE back == ACK_BITS - 1 - bit
  <1>6. back \in 0..ACK_BITS - 1 /\ ack \in 0..LONG - 1
    BY <1>1, <1>3, <1>4, <1>5 DEF Bits
  <1> HIDE DEF ack, acked, number, large, n
  <1>7. number = Before(ack, back) /\ back \in 0..ACK_BITS
    BY <1>1, <1>5, <1>6 DEF Before
  <1>8. number = IF back <= ack THEN ack - back ELSE LONG + ack - back
    <2> HIDE DEF back
    <2>1. ACK_BITS <= LONG
      BY <1>1
    <2>2. Before(ack, back) = IF back <= ack THEN ack - back ELSE LONG + ack - back
      BY <1>6, <1>7, <2>1, BeforeIs
    <2>3. QED
      BY <1>7, <2>2
  <1>9. back <= ack /\ number = ack - back
    BY <1>1, <1>2, <1>6, <1>8
  <1>10. ack = acked
    BY <1>1, <1>2, <1>4, <1>6, <1>9
  <1>11. CASE bit = ACK_BITS - 1
    <2>1. number = acked
      BY <1>1, <1>3, <1>9, <1>10, <1>11
    <2>2. QED
      BY <1>2, <1>3, <2>1 DEF number
  <1>12. CASE bit + 1 \in packet.ackBits
    <2>1. NumberOfBit(acked, bit + 1) \in arrived
      BY <1>12 DEF TellsTruth, acked
    <2>2. NumberOfBit(acked, bit + 1) = number
      <3>1. ACK_BITS - (bit + 1) = back /\ bit \in Int
        BY <1>1 DEF Bits
      <3>2. QED
        BY <1>5, <1>10, <3>1 DEF NumberOfBit
    <2>3. QED
      BY <2>1, <2>2 DEF number
  <1>13. QED
    BY <1>5, <1>11, <1>12 DEF RoundIsAck

\* Handling a GAME_STATE counts only what has arrived, in what it keeps and in
\* the round trip time.
LEMMA HandleCountsArrived ==
    ASSUME WithinReach, SentInv, OnlyArrivedCount,
           arrived \subseteq 1..m_localSequenceNumberLarge,
           NEW packet, IsMine(packet), TellsTruth(packet), packet.ack \in 0..WORD - 1,
           HandleGameState(packet)
    PROVE  Acknowledged(m_sendPackets') \cup averaged' \subseteq arrived
  <1> DEFINE acks == AckedBy(AckedNumber(packet.ack), packet.ackBits)
             verified == Verified(packet)
             kept == RemoveOld(verified)
  <1>1. /\ m_sendPackets' = kept
        /\ averaged' = Acknowledged(verified) \ Numbers(kept)
    BY DEF HandleGameState, Verified
  <1>2. /\ verified \in Seq(PacketInfo) /\ Len(verified) <= MaxFrames
        /\ AckedNumber(packet.ack) \in 0..LONG - 1
    BY VerifiedIs
  <1>3. /\ m_sendPackets \in Seq(PacketInfo)
        /\ Ascends(NumbersOf(m_sendPackets))
    BY ContiguousAscends, ExchangeAssumption DEF SentInv
  <1>4. \A i \in DOMAIN m_sendPackets : m_sendPackets[i].seqNum < LONG - ACK_BITS
    <2> SUFFICES ASSUME NEW i \in DOMAIN m_sendPackets
                 PROVE  m_sendPackets[i].seqNum < LONG - ACK_BITS
      OBVIOUS
    <2> DEFINE n == Len(m_sendPackets)
               number == m_sendPackets[i].seqNum
    <2>1. /\ n \in Nat /\ i \in 1..n /\ number = m_localSequenceNumberLarge - (n - i)
          /\ m_localSequenceNumberLarge \in 0..MaxFrames
      BY LenProperties DEF SentInv, Contiguous
    <2> HIDE DEF n, number
    <2>2. QED
      BY <2>1, ExchangeAssumption, LongAssumption, AckBitsAssumption DEF number
  <1>5. verified = Flagged(m_sendPackets, acks)
    BY <1>2, <1>3, <1>4, VerifyAckIsExact DEF Verified
  <1> HIDE DEF verified
  <1>6. Acknowledged(verified) \subseteq arrived
    <2> SUFFICES ASSUME NEW i \in DOMAIN verified, verified[i].acknowledged
                 PROVE  verified[i].seqNum \in arrived
      BY DEF Acknowledged
    <2>1. i \in DOMAIN m_sendPackets
      BY <1>5 DEF Flagged
    <2> DEFINE flag == \/ m_sendPackets[i].acknowledged
                       \/ m_sendPackets[i].seqNum \in acks
    <2>2. verified[i] = [seqNum |-> m_sendPackets[i].seqNum, acknowledged |-> flag]
      BY <1>5, <2>1 DEF Flagged
    <2> HIDE DEF flag
    <2>3. verified[i].seqNum = m_sendPackets[i].seqNum /\ flag
      BY <2>2
    <2>4. m_sendPackets[i].acknowledged \/ m_sendPackets[i].seqNum \in acks
      BY <2>3 DEF flag
    <2>5. CASE m_sendPackets[i].acknowledged
      BY <2>1, <2>3, <2>5 DEF OnlyArrivedCount, Acknowledged
    <2>6. CASE m_sendPackets[i].seqNum \in acks
      BY <2>1, <2>3, <2>6, StoredAcksArrived
    <2>7. QED
      BY <2>4, <2>5, <2>6
  <1>7. Acknowledged(kept) \subseteq Acknowledged(verified)
    <2>1. /\ kept \in Seq(PacketInfo) /\ Len(kept) <= Len(verified)
          /\ \A i \in 1..Len(kept) : kept[i] = verified[Len(verified) - Len(kept) + i]
      BY <1>2, RemoveOldIs
    <2> DEFINE n == Len(verified)
               m == Len(kept)
    <2>2. /\ n \in Nat /\ m \in Nat /\ DOMAIN kept = 1..m /\ DOMAIN verified = 1..n
      BY <1>2, <2>1, LenProperties
    <2> HIDE DEF kept, n, m
    <2>3. \A i \in DOMAIN kept : n - m + i \in DOMAIN verified /\ kept[i] = verified[n - m + i]
      BY <2>1, <2>2 DEF n, m
    <2>4. QED
      BY <2>3 DEF Acknowledged
  <1>8. QED
    BY <1>1, <1>6, <1>7

\* A number of which a packet that is not too late may tell is not forgotten.
LEMMA SendRemembers ==
    ASSUME WithinReach, ExchangeInv, SendGameState, NEW packet, TellsTruth(packet),
           packet.acked + MaxLate >= m_localSequenceNumberLarge',
           packet.acked \in Nat, packet.ackBits \subseteq Bits
    PROVE  TellsTruth(packet)'
  <1> DEFINE large == m_localSequenceNumberLarge
             acked == packet.acked
  <1>1. /\ large \in 0..MaxFrames /\ large' = large + 1 /\ Lately(arrived) \subseteq arrived'
        /\ arrived \subseteq 1..large /\ acked \in Nat /\ MaxLate \in Nat
        /\ ACK_BITS \in Nat /\ LONG \in Nat /\ large + ACK_BITS < LONG
    BY ExchangeAssumption, AckBitsAssumption, LongAssumption
       DEF SendGameState, Lately, ExchangeInv, SentInv, PeerInv
  <1>2. acked \in arrived \cup {0} /\ acked <= large
    BY <1>1 DEF TellsTruth
  <1>3. acked \in arrived => acked \in Lately(arrived)
    BY <1>1 DEF Lately
  <1>4. ASSUME NEW bit \in packet.ackBits PROVE NumberOfBit(acked, bit) \in arrived'
    <2> DEFINE back == ACK_BITS - bit
               number == NumberOfBit(acked, bit)
    <2>1. back \in 0..ACK_BITS /\ acked \in 0..LONG - 1 /\ ACK_BITS <= LONG
      BY <1>1, <1>2 DEF Bits
    <2>2. number = Before(acked, back)
      BY DEF NumberOfBit, Before
    <2> HIDE DEF back, number
    <2>3. number = IF back <= acked THEN acked - back ELSE LONG + acked - back
      BY <2>1, <2>2, BeforeIs
    <2>4. number \in arrived /\ number \in 1..large
      BY <1>1 DEF TellsTruth, number
    <2>5. back <= acked /\ number = acked - back
      BY <1>1, <2>1, <2>3, <2>4
    <2>6. number + ACK_BITS + MaxLate >= large
      BY <1>1, <2>1, <2>5
    <2>7. number \in Lately(arrived)
      BY <2>4, <2>6 DEF Lately
    <2>8. QED
      BY <1>1, <2>7 DEF number
  <1>5. QED
    BY <1>1, <1>2, <1>3, <1>4 DEF TellsTruth

\* Sending a frame keeps what is told true, and counts nothing new.
LEMMA SendKeepsArrived ==
    ASSUME WithinReach, ExchangeInv, ArrivedInv, SendGameState
    PROVE  ArrivedInv'
  <1> DEFINE large == m_localSequenceNumberLarge
  <1>1. /\ large' = large + 1 /\ large \in Nat /\ toClient' = toClient /\ averaged' = {}
        /\ MaxLate \in Nat /\ toClient \subseteq GameState
        /\ arrived \subseteq 1..large
        /\ \A acked \in {Latest(arrived')} \cup {packet.acked : packet \in toClient} :
             large' - acked <= MaxLate
    BY ExchangeAssumption DEF SendGameState, ExchangeInv, SentInv, PeerInv
  <1>2. arrived' \subseteq 1..large + 1
    <2>1. arrived' \subseteq Lately(arrived) \cup {large + 1}
      BY <1>1 DEF SendGameState
    <2>2. Lately(arrived) \subseteq 1..large
      BY <1>1 DEF Lately
    <2> HIDE DEF large
    <2>3. QED
      BY <1>1, <2>1, <2>2
  <1>3. Latest(arrived') \in Nat
    BY <1>1, <1>2, LatestIs
  <1>4. Latest(arrived') + MaxLate >= large'
    <2>1. large' - Latest(arrived') <= MaxLate
      BY <1>1
    <2> DEFINE latest == Latest(arrived')
    <2> HIDE DEF latest
    <2>2. latest + MaxLate >= large'
      BY <1>1, <1>3, <2>1 DEF latest
    <2>3. QED
      BY <2>2 DEF latest
  <1>5. ASSUME NEW packet \in toClient PROVE TellsTruth(packet)'
    <2>1. packet \in GameState
      BY <1>1
    <2>2. packet.acked \in Nat /\ packet.ackBits \subseteq Bits
      BY <2>1 DEF GameState
    <2>3. large' - packet.acked <= MaxLate
      BY <1>1
    <2>4. packet.acked + MaxLate >= large'
      BY <1>1, <2>2, <2>3
    <2>5. QED
      BY <2>2, <2>4, SendRemembers DEF ArrivedInv
  <1>6. Acknowledged(m_sendPackets') \subseteq arrived'
    <2> DEFINE n == Len(m_sendPackets)
               info == [seqNum |-> large + 1, acknowledged |-> FALSE]
    <2>1. /\ m_sendPackets' = Append(m_sendPackets, info)
          /\ Lately(arrived) \subseteq arrived' /\ unanswered < MaxUnanswered
      BY DEF SendGameState, Lately
    <2>2. info.acknowledged = FALSE /\ info \in PacketInfo
      BY <1>1 DEF PacketInfo
    <2> HIDE DEF info
    <2>3. /\ n \in Nat /\ DOMAIN m_sendPackets = 1..n
          /\ DOMAIN m_sendPackets' = 1..n + 1 /\ m_sendPackets'[n + 1] = info
          /\ \A i \in 1..n : m_sendPackets'[i] = m_sendPackets[i]
      BY <2>1, <2>2, AppendProperties, LenProperties DEF ExchangeInv, SentInv
    <2>4. /\ \A i \in 1..n : m_sendPackets[i].seqNum = large - (n - i)
          /\ n <= MAX_SEND_PACKETS_STORED + unanswered /\ unanswered \in Nat
      BY <2>3, ExchangeAssumption DEF ExchangeInv, SentInv, Contiguous
    <2> SUFFICES ASSUME NEW i \in DOMAIN m_sendPackets', m_sendPackets'[i].acknowledged
                 PROVE  m_sendPackets'[i].seqNum \in arrived'
      BY DEF Acknowledged
    <2>5. i \in 1..n
      BY <2>2, <2>3
    <2>6. m_sendPackets'[i] = m_sendPackets[i]
      BY <2>3, <2>5
    <2>7. m_sendPackets[i].seqNum \in arrived
      BY <2>3, <2>5, <2>6 DEF ArrivedInv, OnlyArrivedCount, Acknowledged
    <2> DEFINE number == m_sendPackets[i].seqNum
    <2> HIDE DEF n, number
    <2>8. number + ACK_BITS + MaxLate >= large
      <3>1. number = large - (n - i) /\ i \in 1..n
        BY <2>4, <2>5 DEF number
      <3>2. n + 1 <= MAX_SEND_PACKETS_STORED + MaxUnanswered
        BY <2>1, <2>3, <2>4, ExchangeAssumption
      <3> DEFINE most == MAX_SEND_PACKETS_STORED + MaxUnanswered
                 reach == ACK_BITS + MaxLate
      <3>3. most \in Nat /\ reach \in Nat /\ most <= reach + 2 /\ large \in Nat
        BY <1>1, ExchangeAssumption, AckBitsAssumption DEF WithinReach
      <3> HIDE DEF most
      <3>4. n + 1 <= reach + 2
        <4> HIDE DEF reach
        <4>1. n + 1 <= most
          BY <3>2 DEF most
        <4>2. QED
          BY <2>3, <3>3, <4>1
      <3>5. number + reach >= large
        <4> HIDE DEF reach
        <4>1. QED
          BY <2>3, <3>1, <3>3, <3>4
      <3>6. number \in Int
        BY <2>3, <3>1, <3>3
      <3>7. QED
        BY <1>1, <3>5, <3>6, AckBitsAssumption
    <2>9. QED
      BY <2>1, <2>6, <2>7, <2>8 DEF Lately, number
  <1>7. OnlyArrivedCount'
    BY <1>1, <1>6 DEF OnlyArrivedCount
  <1>8. QED
    BY <1>1, <1>4, <1>5, <1>7 DEF ArrivedInv

\* Nothing that the client handles or the peer tells breaks it.
LEMMA StepKeepsArrived ==
    ASSUME WithinReach, ExchangeInv, ArrivedInv, [Next]_vars
    PROVE  ArrivedInv'
  <1>1. CASE SendGameState
    BY <1>1, SendKeepsArrived
  <1>2. CASE ReceiveGameState
    <2>1. PICK packet \in toClient :
            /\ toClient' \subseteq toClient
            /\ arrived' = arrived /\ HandleGameState(packet)
      BY <1>2 DEF ReceiveGameState, peerVars
    <2>4. TellsTruth(packet) /\ IsMine(packet) /\ packet.ack \in 0..WORD - 1
      BY DEF ArrivedInv, ExchangeInv, PeerInv, GameState, IsMine
    <2>5. m_localSequenceNumberLarge' = m_localSequenceNumberLarge
      BY <2>1, <2>4 DEF HandleGameState
    <2>6. Acknowledged(m_sendPackets') \cup averaged' \subseteq arrived
      BY <2>1, <2>4, HandleCountsArrived DEF ArrivedInv, ExchangeInv, PeerInv
    <2>7. QED
      BY <2>1, <2>5, <2>6 DEF ArrivedInv, TellsTruth, OnlyArrivedCount
  <1>3. CASE ReceiveStray
    <2>1. UNCHANGED <<sentVars, arrived, toClient>> /\ averaged' = {}
      BY <1>3 DEF ReceiveStray, HandleGameState, IsMine, peerVars
    <2>2. QED
      BY <2>1 DEF sentVars, ArrivedInv, TellsTruth, OnlyArrivedCount
  <1>4. CASE PeerAnswers
    <2> DEFINE answer == [salt |-> "m_connectionSalt",
                          number |-> peerNumber', acked |-> Latest(arrived),
                          seqNum |-> Small(peerNumber'),
                          ack |-> Small(Latest(arrived)),
                          ackBits |-> AckBitsOf(arrived, Latest(arrived))]
    <2>1. /\ UNCHANGED <<sentVars, arrived>> /\ averaged' = {}
          /\ toClient' \subseteq toClient \cup {answer}
      BY <1>4 DEF PeerAnswers
    <2>3. Latest(arrived) \in arrived \cup {0}
      BY LatestIs, ExchangeAssumption DEF ExchangeInv, SentInv, PeerInv
    <2>4. \A bit \in AckBitsOf(arrived, Latest(arrived)) :
            NumberOfBit(Latest(arrived), bit) \in arrived
      BY DEF AckBitsOf
    <2>5. /\ answer.acked = Latest(arrived) /\ answer.ack = Small(Latest(arrived))
          /\ answer.ackBits = AckBitsOf(arrived, Latest(arrived))
      OBVIOUS
    <2> HIDE DEF answer
    <2>6. TellsTruth(answer)
      BY <2>3, <2>4, <2>5 DEF TellsTruth, ArrivedInv
    <2>8. \A packet \in toClient' : TellsTruth(packet)
      BY <2>1, <2>6 DEF ArrivedInv
    <2>9. QED
      BY <2>1, <2>8 DEF sentVars, ArrivedInv, TellsTruth, OnlyArrivedCount
  <1>5. CASE UNCHANGED vars
    BY <1>5 DEF vars, sentVars, peerVars, ArrivedInv, TellsTruth, OnlyArrivedCount
  <1>6. QED
    BY <1>1, <1>2, <1>3, <1>4, <1>5 DEF Next

\* No frame counts as acknowledged, in the packets stored or in the round trip
\* time, that has not arrived: for every width and limit within which the wire
\* numbers tell enough.
THEOREM OnlyArrived == WithinReach => (Spec => []OnlyArrivedCount)
  <1> SUFFICES ASSUME WithinReach PROVE Spec => []OnlyArrivedCount
    OBVIOUS
  <1>1. Init => ArrivedInv
    <2>1. Latest({}) \in {} \cup {0}
      BY LatestIs
    <2>2. QED
      BY <2>1, ExchangeAssumption
         DEF Init, ArrivedInv, OnlyArrivedCount, Acknowledged
  <1>2. ExchangeInv /\ ArrivedInv /\ [Next]_vars => ArrivedInv'
    BY StepKeepsArrived
  <1>3. ArrivedInv => OnlyArrivedCount
    BY DEF ArrivedInv
  <1>4. QED
    BY <1>1, <1>2, <1>3, ExchangeInvariant, PTL DEF Spec

-----------------------------------------------------------------------------
(* What the client's frames acknowledge. *)

\* What is lost in a row stays within half the range of the wire numbers, and
\* what is lost between the numbers stored within the range.
GapsCount ==
    /\ MaxGap + SEQUENCE_NUMBER_HALF < SEQUENCE_NUMBER_MAX
    /\ MaxGap * MAX_RECEIVED_PACKETS_STORED <= SEQUENCE_NUMBER_MAX

\* The client counts a number more whenever the wire numbers start over,
\* because it takes differences modulo WORD and not SEQUENCE_NUMBER_MAX.
Counted(number) == number + (number \div SEQUENCE_NUMBER_MAX)

\* A number that is back places from the end of those stored.
Recorded(handled, number, back) ==
    /\ number \in 1..Latest(handled)
    /\ Latest(handled) <= number + MaxGap * back
    /\ number + ACK_BITS >= Latest(handled) => number \in handled

\* While the GAME_STATEs come in order, each is counted as its number, and what
\* is stored was handled.
CountsInOrder ==
    /\ lastHandled = Latest(delivered)
    /\ m_remoteSequenceNumberLarge = Counted(lastHandled)
    /\ \A packet \in toClient : packet.number <= lastHandled + MaxGap
    /\ \A i \in DOMAIN m_receivedPackets :
         \E number \in Nat :
             /\ m_receivedPackets[i] = Counted(number)
             /\ Recorded(delivered, number, Len(m_receivedPackets) - i)

FrameInv ==
    /\ peerNumber \in 0..MaxFrames
    /\ delivered \subseteq 1..peerNumber
    /\ lastHandled \in 0..peerNumber
    /\ m_remoteSequenceNumberSmall = Small(lastHandled)
    /\ \A packet \in toClient :
         packet.number \in 1..peerNumber /\ packet.seqNum = Small(packet.number)
    /\ inOrder => CountsInOrder

\* How a number is counted.
LEMMA CountedIs ==
    ASSUME NEW number \in Nat
    PROVE  /\ Counted(number) \in number..2 * number
           /\ number < SEQUENCE_NUMBER_MAX => Counted(number) = number
  <1> DEFINE S == SEQUENCE_NUMBER_MAX
  <1>1. S \in Nat /\ S > 0
    BY WordAssumption DEF SEQUENCE_NUMBER_MAX
  <1> HIDE DEF S
  <1>2. number \div S \in 0..number
    BY <1>1
  <1>3. number < S => number \div S = 0
    BY <1>1
  <1>4. QED
    BY <1>2, <1>3 DEF Counted, S

\* Quotient and remainder of a number.
LEMMA QuotientIs ==
    ASSUME NEW S \in Nat, S > 0, NEW q \in Nat, NEW r \in 0..S - 1, NEW n \in Nat,
           n = q * S + r
    PROVE  n \div S = q /\ n % S = r
  <1> DEFINE a == n \div S
             b == n % S
  <1>1. a \in Nat /\ b \in 0..S - 1 /\ n = a * S + b
    OBVIOUS
  <1> HIDE DEF a, b
  <1>2. q * S + r = a * S + b
    BY <1>1
  <1>3. ~(q < a)
    <2> SUFFICES ASSUME q < a PROVE FALSE
      OBVIOUS
    <2>1. q + 1 <= a
      BY <1>1
    <2>2. (q + 1) * S <= a * S
      BY <1>1, <2>1
    <2>3. (q + 1) * S = q * S + S
      OBVIOUS
    <2>4. QED
      BY <1>1, <1>2, <2>2, <2>3
  <1>4. ~(a < q)
    <2> SUFFICES ASSUME a < q PROVE FALSE
      OBVIOUS
    <2>1. a + 1 <= q
      BY <1>1
    <2>2. (a + 1) * S <= q * S
      BY <1>1, <2>1
    <2>3. (a + 1) * S = a * S + S
      BY <1>1
    <2>4. QED
      BY <1>1, <1>2, <2>2, <2>3
  <1>5. a = q
    BY <1>1, <1>3, <1>4
  <1>6. b = r
    BY <1>1, <1>2, <1>5
  <1>7. QED
    BY <1>5, <1>6 DEF a, b

\* What the client adds for a number that is not too far ahead.
LEMMA DiffCounts ==
    ASSUME GapsCount, NEW latest \in Nat, NEW number \in latest..latest + MaxGap
    PROVE  /\ SequenceNumberDiff(Small(latest), Small(number)) \in Nat
           /\ Counted(latest) + SequenceNumberDiff(Small(latest), Small(number))
                = Counted(number)
           /\ number > latest => SequenceNumberDiff(Small(latest), Small(number)) > 0
  <1> DEFINE S == SEQUENCE_NUMBER_MAX
             r == Small(latest)
             d == number - latest
  <1>1. /\ S \in Nat /\ S > 0 /\ WORD = S + 1 /\ MaxGap \in Nat
        /\ SEQUENCE_NUMBER_HALF \in Nat /\ MaxGap + SEQUENCE_NUMBER_HALF < S
    BY WordAssumption, ExchangeAssumption
        DEF SEQUENCE_NUMBER_MAX, SEQUENCE_NUMBER_HALF, GapsCount
  <1>2. PICK q \in Nat : latest = q * S + r /\ r \in 0..S - 1
    BY SmallIs
  <1>3. d \in 0..MaxGap /\ number \in Nat /\ number = q * S + (r + d)
    BY <1>1, <1>2
  <1> HIDE DEF S, r, d
  <1>4. latest \div S = q
    BY <1>1, <1>2, QuotientIs
  <1>5. CASE r + d < S
    <2>1. number \div S = q /\ number % S = r + d
      <3>1. r + d \in 0..S - 1
        BY <1>1, <1>2, <1>3, <1>5
      <3>2. QED
        BY <1>1, <1>3, <3>1, QuotientIs
    <2>2. SequenceNumberDiff(r, r + d) = d
      <3>1. ~(r > r + d) /\ (r + d) - r = d /\ d \in 0..WORD - 1
        BY <1>1, <1>2, <1>3
      <3>2. d % WORD = d
        BY <1>1, <3>1
      <3>3. QED
        BY <3>1, <3>2 DEF SequenceNumberDiff
    <2>3. Small(number) = r + d
      BY <2>1 DEF Small, S
    <2>4. Counted(number) = number + q /\ Counted(latest) = latest + q
      BY <1>4, <2>1 DEF Counted, S
    <2>5. QED
      BY <1>2, <1>3, <2>2, <2>3, <2>4 DEF d, r
  <1>6. CASE r + d >= S
    <2> DEFINE t == r + d - S
    <2>1. t \in 0..S - 1 /\ number = (q + 1) * S + t /\ q + 1 \in Nat
      <3>1. (q + 1) * S = q * S + S /\ q * S \in Nat
        BY <1>1
      <3>2. QED
        BY <1>1, <1>2, <1>3, <1>6, <3>1
    <2>2. number \div S = q + 1 /\ number % S = t
      <3> DEFINE k == q + 1
      <3>1. k \in Nat /\ number = k * S + t
        BY <2>1
      <3> HIDE DEF t, k
      <3>2. number \div S = k /\ number % S = t
        BY <1>1, <1>3, <2>1, <3>1, QuotientIs
      <3>3. QED
        BY <3>2 DEF k
    <2>3. SequenceNumberDiff(r, t) = d + 1
      <3>1. r > t /\ r - t = S - d /\ S - d > SEQUENCE_NUMBER_HALF
        BY <1>1, <1>2, <1>3, <1>6
      <3>2. (t - r) = (d + 1) - WORD /\ d + 1 \in 0..WORD - 1
        BY <1>1, <1>2, <1>3, <1>6
      <3>3. (t - r) % WORD = d + 1
        BY <1>1, <3>2
      <3>4. QED
        BY <1>1, <1>2, <2>1, <3>1, <3>3 DEF SequenceNumberDiff
    <2>4. Small(number) = t
      BY <2>2 DEF Small, S
    <2>5. Counted(number) = (number + q) + 1 /\ Counted(latest) = latest + q
      BY <1>3, <1>4, <2>2 DEF Counted, S
    <2>6. QED
      BY <1>2, <1>3, <2>3, <2>4, <2>5 DEF d, r
  <1>7. QED
    BY <1>1, <1>2, <1>3, <1>5, <1>6

\* What KeepReceived leaves was there, as far from the end.
LEMMA KeptWasThere ==
    ASSUME NEW s \in Seq(Nat), NEW i \in DOMAIN KeepReceived(s)
    PROVE  /\ Len(KeepReceived(s)) - i \in 0..MAX_RECEIVED_PACKETS_STORED - 1
           /\ \E j \in DOMAIN s : /\ KeepReceived(s)[i] = s[j]
                                  /\ Len(s) - j = Len(KeepReceived(s)) - i
  <1> DEFINE n == Len(s)
             first == n - MAX_RECEIVED_PACKETS_STORED + 1
             kept == SubSeq(s, first, n)
  <1>1. n \in Nat /\ DOMAIN s = 1..n /\ MAX_RECEIVED_PACKETS_STORED \in Nat \ {0}
    BY LenProperties, ExchangeAssumption
  <1>2. CASE n <= MAX_RECEIVED_PACKETS_STORED
    <2>1. KeepReceived(s) = s
      BY <1>1, <1>2 DEF KeepReceived
    <2>2. i \in 1..n
      BY <1>1, <2>1
    <2>3. n - i \in 0..MAX_RECEIVED_PACKETS_STORED - 1
      BY <1>1, <1>2, <2>2
    <2>4. QED
      BY <1>1, <2>1, <2>2, <2>3
  <1>3. CASE n > MAX_RECEIVED_PACKETS_STORED
    <2>1. KeepReceived(s) = kept
      BY <1>3 DEF KeepReceived
    <2>2. first \in 1..n /\ first \in Int /\ n \in Int
      BY <1>1, <1>3
    <2>3. \A k \in first..n : s[k] \in Nat
      BY <1>1, <2>2, ElementOfSeq
    <2>4. n - first + 1 = MAX_RECEIVED_PACKETS_STORED
      BY <1>1
    <2> HIDE DEF first
    <2>5. /\ kept \in Seq(Nat) /\ Len(kept) = n - first + 1
          /\ \A k \in 1..n - first + 1 : kept[k] = s[first + k - 1]
      BY <2>2, <2>3, SubSeqProperties
    <2> HIDE DEF kept, n
    <2>6. i \in 1..n - first + 1
      BY <2>1, <2>5, LenProperties
    <2>7. /\ first + i - 1 \in DOMAIN s /\ kept[i] = s[first + i - 1]
          /\ n - (first + i - 1) = Len(kept) - i
          /\ Len(kept) - i \in 0..MAX_RECEIVED_PACKETS_STORED - 1
      BY <1>1, <2>2, <2>4, <2>5, <2>6
    <2>8. QED
      BY <2>1, <2>7 DEF n
  <1>4. QED
    BY <1>1, <1>2, <1>3

\* Steps that a number is back count at most MaxGap each.
LEMMA GapsAdd ==
    ASSUME NEW back \in Nat
    PROVE  /\ MaxGap * back \in Nat
           /\ MaxGap * (back + 1) = MaxGap * back + MaxGap
           /\ back <= MAX_RECEIVED_PACKETS_STORED =>
                MaxGap * back <= MaxGap * MAX_RECEIVED_PACKETS_STORED
  <1>1. MaxGap \in Nat /\ MAX_RECEIVED_PACKETS_STORED \in Nat
    BY ExchangeAssumption
  <1>2. QED
    BY <1>1

\* What the next frame acknowledges was handled, while the GAME_STATEs come in
\* order: a number of the mask is below
\* the newest wire number, hence was counted before the wire numbers started
\* over, and what is stored does not reach back over a start.
LEMMA FrameInvTells ==
    ASSUME GapsCount, ExchangeInv, FrameInv, inOrder
    PROVE  \A bit \in FrameAckBits : lastHandled - (ACK_BITS - bit) \in delivered
  <1> DEFINE latest == Latest(delivered)
             S == SEQUENCE_NUMBER_MAX
             small == Small(latest)
  <1>1. /\ peerNumber \in 0..MaxFrames /\ MaxFrames \in Nat /\ latest \in 0..peerNumber
        /\ LONG \in Nat /\ ACK_BITS \in Nat \ {0} /\ 2 * MaxFrames + ACK_BITS < LONG
        /\ S \in Nat /\ S > 0 /\ WORD = S + 1 /\ LONG > WORD
    BY LatestIs, ExchangeAssumption, LongAssumption, AckBitsAssumption, WordAssumption
        DEF FrameInv, SEQUENCE_NUMBER_MAX
  <1>2. m_remoteSequenceNumberSmall = small /\ lastHandled = latest
    BY DEF FrameInv, CountsInOrder
  <1>0. latest \in Nat
    BY <1>1
  <1> HIDE DEF latest
  <1>3. PICK q \in Nat : latest = q * S + small /\ small \in 0..S - 1
    BY <1>0, SmallIs
  <1> HIDE DEF S, small
  <1>4. /\ m_receivedPackets \in Seq(Nat) /\ Ascends(m_receivedPackets)
        /\ Len(m_receivedPackets) \in Nat
        /\ Len(m_receivedPackets) <= MAX_RECEIVED_PACKETS_STORED
        /\ DOMAIN m_receivedPackets = 1..Len(m_receivedPackets)
        /\ \A i \in DOMAIN m_receivedPackets :
             \E number \in Nat :
                /\ m_receivedPackets[i] = Counted(number)
                /\ Recorded(delivered, number, Len(m_receivedPackets) - i)
    BY LenProperties DEF ExchangeInv, ReceivedInv, FrameInv, CountsInOrder
  <1>5. \A i \in DOMAIN m_receivedPackets : m_receivedPackets[i] < LONG - ACK_BITS
    <2> SUFFICES ASSUME NEW i \in DOMAIN m_receivedPackets
                 PROVE  m_receivedPackets[i] < LONG - ACK_BITS
      OBVIOUS
    <2>1. PICK number \in Nat : /\ m_receivedPackets[i] = Counted(number)
                                /\ number \in 1..latest
      BY <1>4 DEF Recorded, latest
    <2>2. Counted(number) \in Int /\ Counted(number) <= 2 * number
      BY CountedIs
    <2>3. QED
      BY <1>1, <2>1, <2>2
  <1>6. small \in 0..LONG - 1
    BY <1>1, <1>3
  <1>7. FrameAckBits = AckBitsOf(ToSet(m_receivedPackets), small)
    BY <1>2, <1>4, <1>5, <1>6, AckBitsAreExact DEF FrameAckBits
  <1>8. ASSUME NEW bit \in FrameAckBits PROVE latest - (ACK_BITS - bit) \in delivered
    <2> DEFINE back == ACK_BITS - bit
               named == NumberOfBit(small, bit)
    <2>1. bit \in Bits /\ named \in ToSet(m_receivedPackets)
      BY <1>7 DEF AckBitsOf
    <2>2. back \in 1..ACK_BITS /\ ACK_BITS <= LONG
      BY <1>1, <2>1 DEF Bits
    <2>3. named = Before(small, back)
      BY DEF NumberOfBit, Before
    <2> HIDE DEF back, named
    <2>4. named = IF back <= small THEN small - back ELSE LONG + small - back
      BY <1>6, <2>2, <2>3, BeforeIs
    <2>5. PICK i \in DOMAIN m_receivedPackets : named = m_receivedPackets[i]
      BY <2>1 DEF ToSet
    <2>6. PICK number \in Nat :
            /\ named = Counted(number)
            /\ Recorded(delivered, number, Len(m_receivedPackets) - i)
      BY <1>4, <2>5
    <2>7. named \in Nat /\ named < LONG - ACK_BITS
      <3>1. named \in Int /\ number <= named
        BY <2>6, CountedIs
      <3>2. QED
        BY <1>5, <2>5, <3>1
    <2>8. named = small - back /\ named < S
      BY <1>1, <1>3, <2>2, <2>4, <2>7
    <2>9. number = named
      <3>1. number < S
        <4>1. Counted(number) \in Int /\ number <= Counted(number)
          BY CountedIs
        <4>2. QED
          BY <1>1, <2>6, <2>8, <4>1
      <3>2. QED
        BY <2>6, <3>1, CountedIs DEF S
    <2>10. latest <= number + S
      <3>1. Len(m_receivedPackets) - i \in Nat
              /\ Len(m_receivedPackets) - i <= MAX_RECEIVED_PACKETS_STORED
        BY <1>4, ExchangeAssumption
      <3> DEFINE gaps == MaxGap * (Len(m_receivedPackets) - i)
      <3>2. gaps \in Nat /\ gaps <= MaxGap * MAX_RECEIVED_PACKETS_STORED
        BY <3>1, GapsAdd
      <3>3. MaxGap * MAX_RECEIVED_PACKETS_STORED <= S
        BY DEF GapsCount, S
      <3>4. latest <= number + gaps
        BY <2>6 DEF Recorded, latest
      <3> DEFINE most == MaxGap * MAX_RECEIVED_PACKETS_STORED
      <3>5. most \in Nat
        BY ExchangeAssumption
      <3> HIDE DEF gaps, most
      <3>6. gaps <= most /\ most <= S
        BY <3>2, <3>3 DEF most
      <3>7. QED
        BY <1>1, <3>2, <3>4, <3>5, <3>6
    <2>11. q = 0
      <3> SUFFICES ASSUME q >= 1 PROVE FALSE
        BY <1>3
      <3>1. q * S >= S
        BY <1>1
      <3>2. q * S \in Nat
        BY <1>1
      <3>3. QED
        BY <1>1, <1>3, <2>2, <2>8, <2>9, <2>10, <3>1, <3>2
    <2>12. latest = small
      <3>1. q * S = 0
        BY <1>1, <2>11
      <3>2. QED
        BY <1>3, <3>1
    <2>13. number = latest - back /\ number + ACK_BITS >= latest
      BY <1>1, <2>2, <2>8, <2>9, <2>12
    <2>14. QED
      BY <2>6, <2>13 DEF Recorded, latest, back
  <1>9. QED
    BY <1>2, <1>8

\* A GAME_STATE that is handled becomes the newest one handled.
LEMMA DeliveredIs ==
    ASSUME NEW bound \in Nat, NEW old \in SUBSET (1..bound), NEW number \in 1..bound,
           number >= Latest(old), NEW new,
           \A n : n \in new <=> (n \in old /\ n + ACK_BITS >= number) \/ n = number
    PROVE  new \subseteq 1..bound /\ Latest(new) = number
  <1>1. /\ Latest(old) \in 0..bound /\ \A n \in old : n <= Latest(old)
        /\ new \in SUBSET (1..bound)
    BY LatestIs
  <1>2. /\ Latest(new) \in new \cup {0} /\ Latest(new) \in 0..bound
        /\ \A n \in new : n <= Latest(new)
    BY <1>1, LatestIs
  <1>3. \A n \in new : n <= number
    BY <1>1
  <1>4. QED
    BY <1>1, <1>2, <1>3

\* The small number is that of the packet, also of one that is a duplicate.
LEMMA SmallIsRecorded ==
    ASSUME NEW old \in Nat, NEW number \in Nat,
           m_remoteSequenceNumberSmall = Small(old),
           Record(SequenceNumberDiff(Small(old), Small(number)), Small(number))
    PROVE  m_remoteSequenceNumberSmall' = Small(number)
  <1> DEFINE a == Small(old)
             b == Small(number)
             diff == SequenceNumberDiff(a, b)
  <1>1. a \in 0..WORD - 1 /\ b \in 0..WORD - 1 /\ WORD \in Nat
    <2>1. /\ a \in 0..SEQUENCE_NUMBER_MAX - 1 /\ b \in 0..SEQUENCE_NUMBER_MAX - 1
          /\ SEQUENCE_NUMBER_MAX = WORD - 1 /\ WORD \in Nat
      BY SmallIs, WordAssumption DEF SEQUENCE_NUMBER_MAX
    <2> HIDE DEF a, b
    <2>2. QED
      BY <2>1
  <1> HIDE DEF a, b
  <1>2. diff \in Nat /\ (diff = 0 => a = b)
    BY <1>1, WordAssumption DEF SequenceNumberDiff
  <1> HIDE DEF diff
  <1>3. CASE diff > 0
    BY <1>3 DEF Record, diff, a, b
  <1>4. CASE diff = 0
    <2>1. UNCHANGED m_remoteSequenceNumberSmall
      BY <1>4 DEF Record, diff, receivedVars, a, b
    <2>2. QED
      BY <1>2, <1>4, <2>1 DEF a, b
  <1>5. QED
    BY <1>2, <1>3, <1>4

\* A GAME_STATE that comes in order is recorded as its number, and what was
\* stored moves back by one place.
LEMMA RecordCounts ==
    ASSUME GapsCount, ExchangeInv, FrameInv, inOrder, NEW number \in Nat, number # 0,
           number \in Latest(delivered)..Latest(delivered) + MaxGap,
           Record(SequenceNumberDiff(m_remoteSequenceNumberSmall, Small(number)),
                  Small(number))
    PROVE  /\ m_remoteSequenceNumberLarge' = Counted(number)
           /\ \A i \in DOMAIN m_receivedPackets' :
                LET back == Len(m_receivedPackets') - i
                IN  \/ number = Latest(delivered)
                         /\ UNCHANGED m_receivedPackets
                    \/ back = 0 /\ m_receivedPackets'[i] = Counted(number)
                    \/ \E j \in DOMAIN m_receivedPackets :
                         /\ m_receivedPackets'[i] = m_receivedPackets[j]
                         /\ back = (Len(m_receivedPackets) - j) + 1
  <1> DEFINE latest == Latest(delivered)
             diff == SequenceNumberDiff(m_remoteSequenceNumberSmall, Small(number))
             appended == Append(m_receivedPackets, Counted(number))
             n == Len(m_receivedPackets)
  <1>1. /\ latest \in Nat /\ number \in latest..latest + MaxGap
        /\ m_remoteSequenceNumberLarge = Counted(latest)
        /\ m_remoteSequenceNumberSmall = Small(latest)
        /\ m_receivedPackets \in Seq(Nat)
    <2>1. latest \in Nat
      <3>1. peerNumber \in Nat /\ delivered \in SUBSET (1..peerNumber)
        BY ExchangeAssumption DEF FrameInv
      <3>2. QED
        BY <3>1, LatestIs
    <2>2. QED
      BY <2>1 DEF FrameInv, CountsInOrder, ExchangeInv, ReceivedInv
  <1> HIDE DEF latest
  <1>2. /\ diff \in Nat /\ Counted(latest) + diff = Counted(number)
        /\ number > latest => diff > 0
    BY <1>1, DiffCounts
  <1>3. Counted(number) \in Nat
    BY CountedIs
  <1> HIDE DEF diff
  <1>4. CASE diff > 0
    <2>1. m_remoteSequenceNumberLarge + diff = Counted(number)
      BY <1>1, <1>2
    <2>2. /\ m_remoteSequenceNumberLarge' = Counted(number)
          /\ m_remoteSequenceNumberSmall' = Small(number)
          /\ m_receivedPackets' = KeepReceived(appended)
      BY <1>4, <2>1 DEF Record, diff
    <2>3. /\ appended \in Seq(Nat) /\ Len(appended) = n + 1
          /\ DOMAIN appended = 1..n + 1
          /\ n \in Nat /\ DOMAIN m_receivedPackets = 1..n
          /\ \A k \in 1..n : appended[k] = m_receivedPackets[k]
          /\ appended[n + 1] = Counted(number)
      BY <1>1, <1>3, AppendFacts, LenProperties
    <2> HIDE DEF appended
    <2>4. ASSUME NEW i \in DOMAIN m_receivedPackets'
          PROVE  \/ /\ Len(m_receivedPackets') - i = 0
                    /\ m_receivedPackets'[i] = Counted(number)
                 \/ \E j \in DOMAIN m_receivedPackets :
                      /\ m_receivedPackets'[i] = m_receivedPackets[j]
                      /\ Len(m_receivedPackets') - i = (n - j) + 1
      <3>1. PICK k \in DOMAIN appended :
              /\ m_receivedPackets'[i] = appended[k]
              /\ Len(appended) - k = Len(m_receivedPackets') - i
        BY <2>2, <2>3, KeptWasThere
      <3>2. CASE k = n + 1
        BY <2>3, <3>1, <3>2
      <3>3. CASE k \in DOMAIN m_receivedPackets
        <4>1. Len(m_receivedPackets') - i = (n - k) + 1
          BY <2>3, <3>1, <3>3
        <4>2. QED
          BY <2>3, <3>1, <3>3, <4>1
      <3>4. QED
        BY <2>3, <3>2, <3>3
    <2>5. QED
      BY <2>2, <2>4
  <1>5. CASE ~(diff > 0)
    <2>1. number = latest /\ UNCHANGED receivedVars
      BY <1>1, <1>2, <1>5 DEF Record, diff
    <2>2. QED
      BY <1>1, <2>1 DEF receivedVars, latest
  <1>6. QED
    BY <1>4, <1>5

\* Handling a GAME_STATE that comes in order keeps the record true.
LEMMA InOrderCounts ==
    ASSUME GapsCount, ExchangeInv, FrameInv, inOrder, NEW packet \in toClient,
           packet.number >= lastHandled, HandleGameState(packet), toClient' \subseteq toClient,
           delivered' = {n \in delivered : n + ACK_BITS >= packet.number}
                            \cup {packet.number},
           lastHandled' = packet.number
    PROVE  CountsInOrder'
  <1> DEFINE number == packet.number
             latest == Latest(delivered)
  <1>2. packet \in GameState /\ IsMine(packet)
    BY DEF ExchangeInv, PeerInv, GameState, IsMine
  <1>3. /\ peerNumber \in 0..MaxFrames /\ MaxFrames \in Nat
        /\ number \in latest..peerNumber /\ number # 0 /\ packet.seqNum = Small(number)
        /\ number <= latest + MaxGap /\ latest \in 0..peerNumber /\ lastHandled = latest
    BY LatestIs, ExchangeAssumption DEF FrameInv, CountsInOrder
  <1>4. /\ number \in 1..peerNumber /\ number \in Nat /\ MaxGap \in Nat
        /\ number \in latest..latest + MaxGap
    BY <1>3, ExchangeAssumption
  <1>5. /\ Record(SequenceNumberDiff(m_remoteSequenceNumberSmall, Small(number)),
                  Small(number))
        /\ delivered' = {n \in delivered : n + ACK_BITS >= number} \cup {number}
    BY <1>2, <1>3 DEF HandleGameState
  <1>6. /\ m_remoteSequenceNumberLarge' = Counted(number)
        /\ \A i \in DOMAIN m_receivedPackets' :
             \/ number = Latest(delivered) /\ UNCHANGED m_receivedPackets
             \/ /\ Len(m_receivedPackets') - i = 0
                /\ m_receivedPackets'[i] = Counted(number)
             \/ \E j \in DOMAIN m_receivedPackets :
                  /\ m_receivedPackets'[i] = m_receivedPackets[j]
                  /\ Len(m_receivedPackets') - i = (Len(m_receivedPackets) - j) + 1
    <2> HIDE DEF number
    <2>1. QED
      BY <1>3, <1>4, <1>5, RecordCounts
  <1>7. Latest(delivered') = number
    <2> HIDE DEF number
    <2>1. \A n : n \in delivered' <=>
                  (n \in delivered /\ n + ACK_BITS >= number) \/ n = number
      BY <1>5
    <2>2. peerNumber \in Nat /\ delivered \in SUBSET (1..peerNumber)
      BY <1>3 DEF FrameInv
    <2>3. number \in 1..peerNumber /\ number >= Latest(delivered)
      BY <1>3, <1>4
    <2> DEFINE new == delivered'
    <2>4. \A n : n \in new <=> (n \in delivered /\ n + ACK_BITS >= number) \/ n = number
      BY <2>1
    <2> DEFINE bound == peerNumber
               old == delivered
    <2>5. /\ bound \in Nat /\ old \in SUBSET (1..bound)
          /\ number \in 1..bound /\ number >= Latest(old)
          /\ \A n : n \in new <=> (n \in old /\ n + ACK_BITS >= number) \/ n = number
      BY <2>2, <2>3, <2>4
    <2> HIDE DEF new, bound, old
    <2>6. Latest(new) = number
      BY <2>5, DeliveredIs
    <2>7. QED
      BY <2>6 DEF new
  <1>8. \A other \in toClient' : other.number <= number + MaxGap
    <2> SUFFICES ASSUME NEW other \in toClient PROVE other.number <= number + MaxGap
      OBVIOUS
    <2> DEFINE o == other.number
    <2>1. o \in Nat /\ o <= latest + MaxGap
      BY <1>3 DEF FrameInv, CountsInOrder
    <2> HIDE DEF o, number, latest
    <2>2. o <= number + MaxGap
      BY <1>3, <1>4, <2>1
    <2>3. QED
      BY <2>2 DEF o
  <1>10. ASSUME NEW i \in DOMAIN m_receivedPackets'
         PROVE  \E n \in Nat :
                    /\ m_receivedPackets'[i] = Counted(n)
                    /\ Recorded(delivered', n, Len(m_receivedPackets') - i)
    <2> HIDE DEF number
    <2>1. CASE number = latest /\ UNCHANGED m_receivedPackets
      <3>1. PICK n \in Nat : /\ m_receivedPackets[i] = Counted(n)
                             /\ Recorded(delivered, n, Len(m_receivedPackets) - i)
        BY <2>1 DEF FrameInv, CountsInOrder
      <3>2. /\ Latest(delivered') = latest /\ number = latest
            /\ n \in delivered /\ n + ACK_BITS >= number => n \in delivered'
        BY <1>5, <1>7, <2>1
      <3>3. Recorded(delivered', n, Len(m_receivedPackets) - i)
        BY <3>1, <3>2 DEF Recorded
      <3>4. QED
        BY <2>1, <3>1, <3>3
    <2>2. CASE /\ Len(m_receivedPackets') - i = 0
               /\ m_receivedPackets'[i] = Counted(number)
      <3>1. number <= number + MaxGap * 0
        BY <1>4
      <3>2. number \in 1..number /\ number \in delivered'
        BY <1>4, <1>5
      <3>3. Recorded(delivered', number, 0)
        BY <1>7, <3>1, <3>2 DEF Recorded
      <3>4. QED
        BY <1>4, <2>2, <3>3
    <2>3. ASSUME NEW j \in DOMAIN m_receivedPackets,
                 m_receivedPackets'[i] = m_receivedPackets[j],
                 Len(m_receivedPackets') - i = (Len(m_receivedPackets) - j) + 1
          PROVE  \E n \in Nat :
                    /\ m_receivedPackets'[i] = Counted(n)
                    /\ Recorded(delivered', n, Len(m_receivedPackets') - i)
      <3> DEFINE back == Len(m_receivedPackets) - j
      <3>1. back \in Nat
        BY LenProperties DEF ExchangeInv, ReceivedInv
      <3>2. PICK n \in Nat : m_receivedPackets[j] = Counted(n) /\ Recorded(delivered, n, back)
        BY DEF FrameInv, CountsInOrder
      <3> HIDE DEF back
      <3>3. MaxGap * back \in Nat /\ MaxGap * (back + 1) = MaxGap * back + MaxGap
        BY <3>1, GapsAdd
      <3>4. n \in 1..latest /\ latest <= n + MaxGap * back
              /\ (n + ACK_BITS >= latest => n \in delivered)
        BY <3>2 DEF Recorded
      <3> HIDE DEF latest
      <3>5. n \in 1..number /\ number <= n + MaxGap * (back + 1)
        <4> DEFINE gaps == MaxGap * back
        <4>1. gaps \in Nat /\ MaxGap * (back + 1) = gaps + MaxGap /\ latest <= n + gaps
          BY <3>3, <3>4
        <4> HIDE DEF gaps
        <4>2. number <= n + (gaps + MaxGap) /\ n \in 1..number
          BY <1>3, <1>4, <3>4, <4>1
        <4>3. QED
          BY <4>1, <4>2
      <3>6. n + ACK_BITS >= number => n \in delivered'
        BY <1>3, <1>4, <1>5, <3>4, AckBitsAssumption
      <3>7. Recorded(delivered', n, back + 1)
        BY <1>7, <3>5, <3>6 DEF Recorded
      <3>8. QED
        BY <2>3, <3>2, <3>7 DEF back
    <2>4. QED
      BY <1>6, <2>1, <2>2, <2>3
  <1>11. QED
    BY <1>6, <1>7, <1>8, <1>10 DEF CountsInOrder

\* Handling any GAME_STATE under way keeps the invariant.
LEMMA ReceiveKeepsFrame ==
    ASSUME GapsCount, ExchangeInv, FrameInv, ReceiveGameState
    PROVE  FrameInv'
  <1>1. PICK packet \in toClient :
          /\ HandleGameState(packet) /\ toClient' \subseteq toClient
          /\ delivered' = {n \in delivered : n + ACK_BITS >= packet.number}
                              \cup {packet.number}
          /\ lastHandled' = packet.number
          /\ inOrder' = (inOrder /\ packet.number >= lastHandled)
          /\ peerNumber' = peerNumber
    BY DEF ReceiveGameState, peerVars
  <1>2. IsMine(packet)
    BY DEF ExchangeInv, PeerInv, GameState, IsMine
  <1>3. /\ peerNumber \in 0..MaxFrames /\ MaxFrames \in Nat
        /\ packet.number \in 1..peerNumber /\ packet.seqNum = Small(packet.number)
        /\ lastHandled \in 0..peerNumber /\ m_remoteSequenceNumberSmall = Small(lastHandled)
    BY ExchangeAssumption DEF FrameInv
  <1>4. m_remoteSequenceNumberSmall' = Small(packet.number)
    <2>1. Record(SequenceNumberDiff(Small(lastHandled), Small(packet.number)),
                 Small(packet.number))
      BY <1>1, <1>2, <1>3 DEF HandleGameState
    <2>2. QED
      BY <1>3, <2>1, SmallIsRecorded
  <1>5. inOrder' => CountsInOrder'
    BY <1>1, InOrderCounts
  <1>6. /\ delivered' \subseteq 1..peerNumber /\ lastHandled' \in 0..peerNumber
        /\ \A other \in toClient' :
             other.number \in 1..peerNumber /\ other.seqNum = Small(other.number)
    <2>1. delivered' \subseteq 1..peerNumber
      BY <1>1, <1>3 DEF FrameInv
    <2>2. lastHandled' \in 0..peerNumber
      BY <1>1, <1>3
    <2>3. QED
      BY <1>1, <2>1, <2>2 DEF FrameInv
  <1>7. QED
    BY <1>1, <1>3, <1>4, <1>5, <1>6 DEF FrameInv

\* The peer's next GAME_STATE is within reach of the last one handled.
LEMMA AnswerKeepsFrame ==
    ASSUME ExchangeInv, FrameInv, PeerAnswers
    PROVE  FrameInv'
  <1> DEFINE answer == [salt |-> "m_connectionSalt",
                        number |-> peerNumber', acked |-> Latest(arrived),
                        seqNum |-> Small(peerNumber'),
                        ack |-> Small(Latest(arrived)),
                        ackBits |-> AckBitsOf(arrived, Latest(arrived))]
  <1>1. /\ peerNumber' = peerNumber + 1 /\ peerNumber < MaxFrames
        /\ peerNumber' - Latest(delivered) <= MaxGap
        /\ UNCHANGED <<receivedVars, handledVars>>
        /\ toClient' \subseteq toClient \cup {answer}
    BY DEF PeerAnswers
  <1>2. answer.number = peerNumber' /\ answer.seqNum = Small(answer.number)
    OBVIOUS
  <1>3. /\ peerNumber \in 0..MaxFrames /\ MaxFrames \in Nat /\ MaxGap \in Nat
        /\ delivered \subseteq 1..peerNumber /\ lastHandled \in 0..peerNumber
        /\ \A packet \in toClient :
             packet.number \in 1..peerNumber /\ packet.seqNum = Small(packet.number)
    BY ExchangeAssumption DEF FrameInv
  <1> HIDE DEF answer
  <1>4. \A packet \in toClient' :
          packet.number \in 1..peerNumber' /\ packet.seqNum = Small(packet.number)
    BY <1>1, <1>2, <1>3
  <1>5. inOrder => \A packet \in toClient' : packet.number <= lastHandled + MaxGap
    BY <1>1, <1>2, <1>3 DEF FrameInv, CountsInOrder
  <1>6. /\ peerNumber' \in 0..MaxFrames /\ delivered' \subseteq 1..peerNumber'
        /\ lastHandled' \in 0..peerNumber'
    BY <1>1, <1>3 DEF handledVars
  <1>7. inOrder' => CountsInOrder'
    BY <1>1, <1>5 DEF FrameInv, CountsInOrder, Recorded, receivedVars, handledVars
  <1>8. QED
    BY <1>1, <1>4, <1>6, <1>7 DEF FrameInv, receivedVars, handledVars

\* The next frame names the GAME_STATE handled last, in whatever order they came,
\* and while they come in order its mask names only what was handled, however
\* often the wire numbers start over: for every number of packets that the mask
\* covers, every limit, and gaps that the wire numbers can tell apart.
THEOREM FrameTells == GapsCount => (Spec => []FrameTellsTruth)
  <1> SUFFICES ASSUME GapsCount PROVE Spec => []FrameTellsTruth
    OBVIOUS
  <1>1. Init => FrameInv
    <2>1. Latest({}) \in {} \cup {0}
      BY LatestIs
    <2>2. Small(0) = 0 /\ Counted(0) = 0
      BY SmallIs, CountedIs, WordAssumption DEF SEQUENCE_NUMBER_MAX, Small
    <2>3. QED
      BY <2>1, <2>2, ExchangeAssumption DEF Init, FrameInv, CountsInOrder
  <1>2. ASSUME ExchangeInv, FrameInv, [Next]_vars PROVE FrameInv'
    <2>1. CASE ReceiveGameState
      BY <1>2, <2>1, ReceiveKeepsFrame
    <2>2. CASE PeerAnswers
      BY <1>2, <2>2, AnswerKeepsFrame
    <2>3. CASE SendGameState \/ ReceiveStray \/ UNCHANGED vars
      <3>1. UNCHANGED <<receivedVars, peerNumber, toClient, handledVars>>
        BY <2>3 DEF SendGameState, ReceiveStray, HandleGameState, IsMine, vars, peerVars
      <3>2. QED
        BY <1>2, <3>1 DEF FrameInv, CountsInOrder, Recorded, receivedVars, handledVars
    <2>4. QED
      BY <1>2, <2>1, <2>2, <2>3 DEF Next
  <1>3. ExchangeInv /\ FrameInv => FrameTellsTruth
    BY FrameInvTells DEF FrameTellsTruth, FrameInv
  <1>4. QED
    BY <1>1, <1>2, <1>3, ExchangeInvariant, PTL DEF Spec
=============================================================================
