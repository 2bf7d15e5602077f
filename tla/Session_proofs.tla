--------------------------- MODULE Session_proofs ---------------------------
(***************************************************************************)
(* The properties of Server and of Session, for any number of addresses,   *)
(* players, attempts, salts, frames and faults, and any widths of the      *)
(* sequence numbers and masks. In three parts:                             *)
(*                                                                         *)
(* 1. Server. What a single handler does to m_players is one of four       *)
(* things: it appends a player, replaces one, keeps a subsequence, or      *)
(* leaves all alone. The lemmas state what each of them preserves; the     *)
(* theorems put them together.                                             *)
(*                                                                         *)
(* 2. The steps of Session: what each one does to the queues, to the       *)
(* entries of m_players, to the client concerned and to every other one.   *)
(*                                                                         *)
(* 3. The properties of Session: each gets the invariant of a client that  *)
(* it needs, and each kind of step is shown to keep it.                    *)
(***************************************************************************)
EXTENDS Session, SequenceTheorems, FiniteSetTheorems, TLAPS

-----------------------------------------------------------------------------
(***************************************************************************)
(* The Server.                                                             *)
(***************************************************************************)

(* The invariant of a sequence of players. *)

\* What HandleGameState keeps true of one player's received numbers.
FrameInv(player) ==
    LET received == player.receivedPackets
    IN  /\ Len(received) <= KEEP_RECEIVED
        /\ Ascending(received)
        /\ received = <<>> <=> player.remoteSequenceNumberLarge = 0
        /\ received # <<>> => Last(received) = player.remoteSequenceNumberLarge

GoodPlayers(players) ==
    /\ players \in Seq(Player)
    /\ \A i \in DOMAIN players : FrameInv(players[i])
    /\ \A i, j \in DOMAIN players :
        i < j /\ players[i].Address = players[j].Address
            => players[j].ConnectionState = "CONNECTING"

Inv ==
    /\ running \in BOOLEAN
    /\ DOMAIN toClient = Address
    /\ GoodPlayers(m_players)

\* The inductive invariant is the conjunction of the three properties.
LEMMA InvGives == Inv <=> TypeOK /\ ReceivedAscending /\ OnlyOldestConnected
BY DEF Inv, GoodPlayers, FrameInv, TypeOK, ReceivedAscending, OnlyOldestConnected

\* A new entry behind the others.
LEMMA AppendGood ==
    ASSUME NEW players, GoodPlayers(players),
           NEW p \in Player, FrameInv(p), p.ConnectionState = "CONNECTING"
    PROVE  GoodPlayers(Append(players, p))
<1> DEFINE new == Append(players, p)
<1>1. players \in Seq(Player)
  BY DEF GoodPlayers
<1>2. /\ new \in Seq(Player) /\ Len(new) = Len(players) + 1
      /\ DOMAIN new = 1..Len(players) + 1
      /\ \A i \in 1..Len(players) : new[i] = players[i]
      /\ new[Len(players) + 1] = p
  BY <1>1, AppendProperties, LenProperties
<1>3. DOMAIN players = 1..Len(players) /\ Len(players) \in Nat
  BY <1>1, LenProperties
<1> HIDE DEF new
<1>4. ASSUME NEW i \in DOMAIN new
      PROVE  \/ i \in DOMAIN players /\ new[i] = players[i]
             \/ i = Len(players) + 1 /\ new[i] = p
  BY <1>2, <1>3
<1>5. \A i \in DOMAIN new : FrameInv(new[i])
  BY <1>4 DEF GoodPlayers
<1>6. ASSUME NEW i \in DOMAIN new, NEW j \in DOMAIN new, i < j,
             new[i].Address = new[j].Address
      PROVE  new[j].ConnectionState = "CONNECTING"
  <2>1. CASE j = Len(players) + 1
    BY <2>1, <1>2
  <2>2. CASE j \in DOMAIN players
    <3>1. i \in DOMAIN players
      BY <2>2, <1>2, <1>3, <1>6
    <3> QED BY <2>2, <3>1, <1>2, <1>3, <1>6 DEF GoodPlayers
  <2> QED BY <2>1, <2>2, <1>4
<1>7. GoodPlayers(new)
  BY <1>2, <1>5, <1>6 DEF GoodPlayers
<1> QED BY <1>7 DEF new

\* An entry replaced in place; only the first of its address may change its
\* connection state.
LEMMA ExceptGood ==
    ASSUME NEW players, GoodPlayers(players), NEW i \in DOMAIN players,
           NEW p \in Player, FrameInv(p), p.Address = players[i].Address,
           \/ p.ConnectionState = players[i].ConnectionState
           \/ \A j \in DOMAIN players : players[j].Address = p.Address => i <= j
    PROVE  GoodPlayers([players EXCEPT ![i] = p])
<1> DEFINE new == [players EXCEPT ![i] = p]
<1>1. players \in Seq(Player) /\ i \in 1..Len(players)
      /\ DOMAIN players = 1..Len(players) /\ Len(players) \in Nat
  BY LenProperties DEF GoodPlayers
<1>2. /\ new \in Seq(Player) /\ DOMAIN new = DOMAIN players
      /\ \A j \in DOMAIN players : new[j] = IF j = i THEN p ELSE players[j]
  BY <1>1, ExceptSeq
<1> HIDE DEF new
<1>3. \A j \in DOMAIN new : FrameInv(new[j])
  BY <1>2 DEF GoodPlayers
<1>4. ASSUME NEW j \in DOMAIN new, NEW k \in DOMAIN new, j < k,
             new[j].Address = new[k].Address
      PROVE  new[k].ConnectionState = "CONNECTING"
  <2>1. players[j].Address = players[k].Address
    BY <1>2, <1>4
  <2>2. players[k].ConnectionState = "CONNECTING"
    BY <1>2, <1>4, <2>1 DEF GoodPlayers
  <2>3. CASE k # i
    BY <1>2, <2>2, <2>3
  <2>4. CASE k = i
    <3>1. ~(i <= j)
      BY <1>1, <1>2, <1>4, <2>4
    <3>2. p.ConnectionState = players[i].ConnectionState
      BY <3>1, <2>1, <2>4, <1>2
    <3> QED BY <3>2, <2>2, <2>4, <1>2
  <2> QED BY <2>3, <2>4
<1>5. GoodPlayers(new)
  BY <1>2, <1>3, <1>4 DEF GoodPlayers
<1> QED BY <1>5 DEF new

\* Entries removed, the others kept in their order.
LEMMA SubsequenceGood ==
    ASSUME NEW players, GoodPlayers(players), NEW n \in Nat,
           NEW order \in [1..n -> DOMAIN players],
           \A j, k \in 1..n : j < k => order[j] < order[k]
    PROVE  GoodPlayers([k \in 1..n |-> players[order[k]]])
<1> DEFINE new == [k \in 1..n |-> players[order[k]]]
<1>1. \A k \in 1..n : players[order[k]] \in Player
  BY ElementOfSeq, LenProperties DEF GoodPlayers
<1>2. new \in Seq(Player) /\ DOMAIN new = 1..n
  BY <1>1
<1>3. \A i \in DOMAIN new : FrameInv(new[i])
  BY <1>2 DEF GoodPlayers
<1>4. ASSUME NEW i \in DOMAIN new, NEW j \in DOMAIN new, i < j,
             new[i].Address = new[j].Address
      PROVE  new[j].ConnectionState = "CONNECTING"
  BY <1>2, <1>4 DEF GoodPlayers
<1> QED BY <1>2, <1>3, <1>4 DEF GoodPlayers

\* erase(it) is the subsequence without one position.
LEMMA RemoveIsSubsequence ==
    ASSUME NEW S, NEW players \in Seq(S), NEW i \in DOMAIN players
    PROVE  /\ Len(players) - 1 \in Nat
           /\ RemoveAt(players, i) =
                [k \in 1..Len(players) - 1 |->
                    players[IF k < i THEN k ELSE k + 1]]
<1>1. /\ Len(players) \in Nat /\ i \in 1..Len(players)
      /\ \A j \in 1..Len(players) : players[j] \in S
  BY LenProperties, ElementOfSeq
<1> DEFINE left == SubSeq(players, 1, i - 1)
           right == SubSeq(players, i + 1, Len(players))
           both == left \o right
<1>2. /\ left \in Seq(S) /\ Len(left) = i - 1
      /\ \A k \in 1..i - 1 : left[k] = players[k]
  <2>1. /\ left \in Seq(S)
        /\ Len(left) = IF 1 <= i - 1 THEN (i - 1) - 1 + 1 ELSE 0
        /\ \A k \in 1..(i - 1) - 1 + 1 : left[k] = players[1 + k - 1]
    <3>1. \A k \in 1..i - 1 : players[k] \in S
      BY <1>1
    <3>2. 1 \in Int /\ i - 1 \in Int
      BY <1>1
    <3> QED BY <3>1, <3>2, SubSeqProperties
  <2> QED BY <2>1, <1>1
<1>3. /\ right \in Seq(S) /\ Len(right) = Len(players) - i
      /\ \A k \in 1..Len(players) - i : right[k] = players[i + k]
  <2>1. /\ right \in Seq(S)
        /\ Len(right) = IF i + 1 <= Len(players)
                        THEN Len(players) - (i + 1) + 1 ELSE 0
        /\ \A k \in 1..Len(players) - (i + 1) + 1 :
             right[k] = players[(i + 1) + k - 1]
    <3>1. \A k \in i + 1..Len(players) : players[k] \in S
      BY <1>1
    <3>2. i + 1 \in Int /\ Len(players) \in Int
      BY <1>1
    <3> QED BY <3>1, <3>2, SubSeqProperties
  <2> QED BY <2>1, <1>1
<1> HIDE DEF left, right
<1>4. /\ both \in Seq(S) /\ Len(both) = Len(players) - 1
      /\ \A k \in 1..Len(players) - 1 :
           both[k] = IF k <= i - 1 THEN left[k] ELSE right[k - (i - 1)]
  <2>1. /\ both \in Seq(S) /\ Len(both) = Len(left) + Len(right)
        /\ \A k \in 1..Len(left) + Len(right) :
             both[k] = IF k <= Len(left) THEN left[k] ELSE right[k - Len(left)]
    BY <1>2, <1>3, ConcatProperties
  <2>2. Len(left) + Len(right) = Len(players) - 1
    BY <1>1, <1>2, <1>3
  <2> HIDE DEF both
  <2> QED BY <2>1, <2>2, <1>2
<1> HIDE DEF both
<1>5. ASSUME NEW k \in 1..Len(players) - 1
      PROVE  both[k] = players[IF k < i THEN k ELSE k + 1]
  <2>1. CASE k < i
    BY <2>1, <1>1, <1>2, <1>4
  <2>2. CASE ~(k < i)
    <3>1. /\ k - (i - 1) \in 1..Len(players) - i
          /\ i + (k - (i - 1)) = k + 1
      BY <2>2, <1>1
    <3>2. both[k] = right[k - (i - 1)]
      BY <2>2, <1>1, <1>4
    <3>3. right[k - (i - 1)] = players[k + 1]
      BY <3>1, <1>3
    <3> QED BY <2>2, <3>2, <3>3
  <2> QED BY <2>1, <2>2
<1>6. both = [k \in 1..Len(both) |-> both[k]]
  BY <1>4, LenProperties
<1>7. RemoveAt(players, i) = both
  BY DEF RemoveAt, both, left, right
<1> QED BY <1>1, <1>4, <1>5, <1>6, <1>7

-----------------------------------------------------------------------------
(* What HandleGameState does to the entry of the player. *)

\* The distance of two wire numbers is a wire number.
LEMMA DiffInRange ==
    ASSUME NEW previous \in 0..WORD - 1, NEW next \in 0..WORD - 1
    PROVE  SequenceNumberDiff(previous, next) \in 0..WORD - 1
BY WordAssumption DEF SequenceNumberDiff

\* Of the positions up to n, each is the last one or lies before it.
LEMMA LastOrBefore ==
    ASSUME NEW n \in Nat, NEW k \in 1..n
    PROVE  (k = n \/ k < n) /\ n \in 1..n
  OBVIOUS

\* What lies above the last number of an ascending sequence lies above them all.
LEMMA AboveLast ==
    ASSUME NEW s \in Seq(Nat), Ascending(s), s # <<>>, NEW e \in Nat,
           Last(s) < e
    PROVE  \A k \in DOMAIN s : s[k] < e
<1>1. Len(s) \in Nat /\ DOMAIN s = 1..Len(s)
  BY LenProperties
<1>2. ASSUME NEW k \in DOMAIN s
      PROVE  s[k] < e
  <2>1. (k = Len(s) \/ k < Len(s)) /\ Len(s) \in DOMAIN s
    <3>1. k \in 1..Len(s)
      BY <1>1
    <3> QED BY <1>1, <3>1, LastOrBefore, Zenon
  <2>2. s[k] \in Nat /\ s[Len(s)] \in Nat /\ s[Len(s)] < e
    BY <1>1, <2>1, ElementOfSeq DEF Last
  <2>3. CASE k = Len(s)
    BY <2>2, <2>3, Zenon
  <2>4. CASE k < Len(s)
    <3>1. s[k] < s[Len(s)]
      BY <2>1, <2>4, Zenon DEF Ascending
    <3> QED BY <2>2, <3>1
  <2> QED BY <2>1, <2>3, <2>4
<1> QED BY <1>2

\* A number above the last one keeps the sequence ascending.
LEMMA AppendAscending ==
    ASSUME NEW s \in Seq(Nat), Ascending(s), NEW e \in Nat,
           \A k \in DOMAIN s : s[k] < e
    PROVE  /\ Append(s, e) \in Seq(Nat) /\ Append(s, e) # <<>>
           /\ Ascending(Append(s, e))
           /\ Last(Append(s, e)) = e
<1> DEFINE new == Append(s, e)
<1>1. /\ new \in Seq(Nat) /\ new # <<>> /\ Len(new) = Len(s) + 1
      /\ \A k \in 1..Len(s) : new[k] = s[k]
      /\ new[Len(s) + 1] = e
  BY AppendProperties
<1>2. /\ DOMAIN new = 1..Len(s) + 1 /\ DOMAIN s = 1..Len(s) /\ Len(s) \in Nat
  BY <1>1, LenProperties
<1> HIDE DEF new
<1>3. ASSUME NEW j \in DOMAIN new, NEW k \in DOMAIN new, j < k
      PROVE  new[j] < new[k]
  <2>1. j \in 1..Len(s) /\ new[j] = s[j]
    BY <1>1, <1>2, <1>3
  <2>2. CASE k \in 1..Len(s)
    BY <2>1, <2>2, <1>1, <1>2, <1>3 DEF Ascending
  <2>3. CASE k = Len(s) + 1
    BY <2>1, <2>3, <1>1, <1>2
  <2> QED BY <2>2, <2>3, <1>2
<1>4. Last(new) = e
  BY <1>1 DEF Last
<1> QED BY <1>1, <1>3, <1>4 DEF new, Ascending

\* The numbers kept are the newest ones, still in ascending order.
LEMMA KeepLastGood ==
    ASSUME NEW s \in Seq(Nat), s # <<>>, Ascending(s)
    PROVE  /\ KeepLast(s) \in Seq(Nat) /\ KeepLast(s) # <<>>
           /\ Len(KeepLast(s)) <= KEEP_RECEIVED
           /\ Ascending(KeepLast(s))
           /\ Last(KeepLast(s)) = Last(s)
<1> USE ServerAssumption
<1>1. Len(s) \in Nat \ {0} /\ DOMAIN s = 1..Len(s)
  BY EmptySeq, LenProperties
<1>2. CASE Len(s) <= KEEP_RECEIVED
  <2>1. KeepLast(s) = s
    BY <1>1, <1>2 DEF KeepLast
  <2> QED BY <2>1, <1>2
<1>3. CASE Len(s) > KEEP_RECEIVED
  <2> DEFINE first == Len(s) - KEEP_RECEIVED + 1
             kept == SubSeq(s, first, Len(s))
  <2>1. KeepLast(s) = kept
    BY <1>3 DEF KeepLast
  <2>2. first \in 1..Len(s) /\ Len(s) - first + 1 = KEEP_RECEIVED
    BY <1>1, <1>3
  <2>3. /\ kept \in Seq(Nat)
        /\ Len(kept) = IF first <= Len(s) THEN Len(s) - first + 1 ELSE 0
        /\ \A k \in 1..Len(s) - first + 1 : kept[k] = s[first + k - 1]
    <3>1. \A k \in first..Len(s) : s[k] \in Nat
      BY <1>1, <2>2, ElementOfSeq
    <3>2. first \in Int /\ Len(s) \in Int
      BY <2>2, <1>1
    <3> HIDE DEF first
    <3> QED BY <3>1, <3>2, SubSeqProperties
  <2> HIDE DEF kept, first
  <2>4. /\ Len(kept) = KEEP_RECEIVED /\ DOMAIN kept = 1..KEEP_RECEIVED
        /\ \A k \in 1..KEEP_RECEIVED : kept[k] = s[first + k - 1]
    BY <2>2, <2>3, LenProperties
  <2>5. ASSUME NEW j \in DOMAIN kept, NEW k \in DOMAIN kept, j < k
        PROVE  kept[j] < kept[k]
    <3>1. /\ j \in 1..KEEP_RECEIVED /\ k \in 1..KEEP_RECEIVED
          /\ first \in Nat /\ first >= 1 /\ Len(s) \in Nat
          /\ Len(s) = first + KEEP_RECEIVED - 1
      BY <2>2, <2>4, <1>1
    <3>2. first + j - 1 \in 1..Len(s)
      BY <3>1
    <3>3. first + k - 1 \in 1..Len(s)
      BY <3>1
    <3>4. first + j - 1 < first + k - 1
      BY <3>1, <2>5
    <3> QED BY <3>2, <3>3, <3>4, <2>4, <1>1 DEF Ascending
  <2>6. Last(kept) = Last(s)
    <3>1. first + KEEP_RECEIVED - 1 = Len(s)
      BY <1>1, <2>2
    <3>2. Last(kept) = s[first + KEEP_RECEIVED - 1]
      BY <2>4 DEF Last
    <3> QED BY <3>1, <3>2 DEF Last
  <2>7. kept # <<>>
    BY <2>4
  <2> QED BY <2>1, <2>3, <2>4, <2>5, <2>6, <2>7 DEF Ascending
<1> QED BY <1>1, <1>2, <1>3

\* The receiving half of HandleGameState keeps the received numbers good.
LEMMA RecordReceivedGood ==
    ASSUME NEW p \in Player, FrameInv(p), NEW seqNum \in 0..WORD - 1
    PROVE  LET q == RecordReceived(p, seqNum)
           IN  /\ q \in Player /\ FrameInv(q)
               /\ q.Address = p.Address
               /\ q.ConnectionState = p.ConnectionState
<1> DEFINE diff == SequenceNumberDiff(p.remoteSequenceNumberSmall, seqNum)
           large == p.remoteSequenceNumberLarge + diff
           old == p.receivedPackets
           new == Append(old, large)
<1>1. /\ old \in Seq(Nat) /\ p.remoteSequenceNumberLarge \in Nat
      /\ p.remoteSequenceNumberSmall \in 0..WORD - 1
  BY DEF Player
<1>2. diff \in 0..WORD - 1
  BY <1>1, DiffInRange
<1>3. diff \in Nat /\ large \in Nat
  BY <1>1, <1>2
<1>4. Len(old) \in Nat /\ DOMAIN old = 1..Len(old)
  BY <1>1, LenProperties
<1> HIDE DEF diff
<1>5. CASE diff > 0
  <2>1. \A k \in DOMAIN old : old[k] < large
    <3>1. CASE old = <<>>
      BY <3>1
    <3>2. CASE old # <<>>
      <4>1. Ascending(old) /\ Last(old) = p.remoteSequenceNumberLarge
        BY <3>2 DEF FrameInv
      <4>2. p.remoteSequenceNumberLarge < large
        BY <1>1, <1>3, <1>5
      <4>3. Last(old) < large
        BY <4>1, <4>2, Zenon
      <4>4. old \in Seq(Nat) /\ old # <<>> /\ large \in Nat
        BY <3>2, <1>1, <1>3
      <4> QED BY <4>1, <4>3, <4>4, AboveLast, Zenon
    <3> QED BY <3>1, <3>2
  <2>2. Ascending(old)
    BY DEF FrameInv
  <2> HIDE DEF new, large, old
  <2>3. /\ new \in Seq(Nat) /\ new # <<>> /\ Ascending(new) /\ Last(new) = large
    BY <2>1, <2>2, <1>1, <1>3, AppendAscending DEF new
  <2>6. /\ KeepLast(new) \in Seq(Nat) /\ KeepLast(new) # <<>>
        /\ Len(KeepLast(new)) <= KEEP_RECEIVED
        /\ Ascending(KeepLast(new))
        /\ Last(KeepLast(new)) = large
    BY <2>3, KeepLastGood
  <2>7. RecordReceived(p, seqNum) =
          [p EXCEPT !.remoteSequenceNumberLarge = large,
                    !.remoteSequenceNumberSmall = seqNum,
                    !.receivedPackets = KeepLast(new)]
    BY <1>5 DEF RecordReceived, diff, large, new, old
  <2>8. large # 0
    BY <1>1, <1>3, <1>5 DEF large
  <2> DEFINE q == RecordReceived(p, seqNum)
  <2>9. q \in Player
    BY <2>6, <2>7, <1>3 DEF Player
  <2>10. /\ q.receivedPackets = KeepLast(new)
         /\ q.remoteSequenceNumberLarge = large
         /\ q.Address = p.Address /\ q.ConnectionState = p.ConnectionState
    BY <2>7 DEF Player
  <2> HIDE DEF q
  <2>11. FrameInv(q)
    BY <2>6, <2>8, <2>10, Zenon DEF FrameInv
  <2> QED BY <2>9, <2>10, <2>11 DEF q
<1>6. CASE ~(diff > 0)
  <2>1. KeepLast(old) = old
    BY <1>4, ServerAssumption DEF KeepLast, FrameInv
  <2>2. RecordReceived(p, seqNum) = [p EXCEPT !.receivedPackets = old]
    BY <1>6, <2>1 DEF RecordReceived, diff
  <2>3. RecordReceived(p, seqNum) = p
    BY <2>2 DEF Player
  <2> QED BY <2>3
<1> QED BY <1>5, <1>6

\* Acknowledging and sending leave the received numbers alone.
LEMMA RestOfFrameGood ==
    ASSUME NEW p \in Player, FrameInv(p), NEW ack, NEW ackBits,
           NEW keyboard \in Keyboard
    PROVE  LET q == RecordSent(DropAcknowledged(p, ack, ackBits), keyboard)
           IN  /\ q \in Player /\ FrameInv(q)
               /\ q.Address = p.Address
               /\ q.ConnectionState = p.ConnectionState
<1> DEFINE d == DropAcknowledged(p, ack, ackBits)
<1>1. /\ d \in Player /\ FrameInv(d) /\ d.Address = p.Address
      /\ d.ConnectionState = p.ConnectionState
  BY DEF DropAcknowledged, Player, FrameInv
<1> HIDE DEF d
<1>2. LET q == RecordSent(d, keyboard)
      IN  /\ q \in Player /\ FrameInv(q) /\ q.Address = d.Address
          /\ q.ConnectionState = d.ConnectionState
  <2> DEFINE large == d.localSequenceNumberLarge + 1
             q == [d EXCEPT !.localSequenceNumberLarge = large,
                            !.keyboard = keyboard,
                            !.sendPackets = @ \cup {large}]
  <2>1. large \in Nat /\ d.sendPackets \cup {large} \in SUBSET Nat
    BY <1>1 DEF Player
  <2>2. q = RecordSent(d, keyboard)
    BY DEF RecordSent
  <2> HIDE DEF large
  <2>3. q \in Player /\ q.Address = d.Address
        /\ q.ConnectionState = d.ConnectionState
        /\ q.receivedPackets = d.receivedPackets
        /\ q.remoteSequenceNumberLarge = d.remoteSequenceNumberLarge
    BY <1>1, <2>1 DEF Player
  <2> HIDE DEF q
  <2>4. FrameInv(q)
    BY <1>1, <2>3 DEF FrameInv
  <2> QED BY <2>2, <2>3, <2>4
<1> QED BY <1>1, <1>2 DEF d

-----------------------------------------------------------------------------
(* What the entries of the other addresses see of each kind of change. *)

\* The entries of an address in a sequence of players, and that a step for
\* one address leaves those of the others, and their sockets, alone.
EntriesIn(players, b) ==
    {players[i] : i \in {j \in DOMAIN players : players[j].Address = b}}

Isolated(addr) ==
    \A b \in Address \ {addr} :
        /\ EntriesIn(m_players', b) = EntriesIn(m_players, b)
        /\ toClient'[b] = toClient[b]

\* A new entry is seen only at its own address.
LEMMA AppendElsewhere ==
    ASSUME NEW players \in Seq(Player), NEW p \in Player, NEW b,
           p.Address # b
    PROVE  EntriesIn(Append(players, p), b) = EntriesIn(players, b)
<1> DEFINE new == Append(players, p)
<1>1. /\ DOMAIN new = 1..Len(players) + 1
      /\ \A i \in 1..Len(players) : new[i] = players[i]
      /\ new[Len(players) + 1] = p
      /\ DOMAIN players = 1..Len(players) /\ Len(players) \in Nat
  BY AppendProperties, LenProperties
<1> HIDE DEF new
<1>2. {j \in DOMAIN new : new[j].Address = b}
        = {j \in DOMAIN players : players[j].Address = b}
  <2>1. ASSUME NEW j PROVE j \in DOMAIN new /\ new[j].Address = b
                           <=> j \in DOMAIN players /\ players[j].Address = b
    <3>1. j \in DOMAIN new <=> j \in DOMAIN players \/ j = Len(players) + 1
      BY <1>1
    <3>2. Len(players) + 1 \notin DOMAIN players
      BY <1>1
    <3> QED BY <3>1, <3>2, <1>1
  <2> QED BY <2>1
<1>3. \A j \in DOMAIN players : new[j] = players[j]
  BY <1>1
<1>4. EntriesIn(new, b) = EntriesIn(players, b)
  BY <1>2, <1>3 DEF EntriesIn
<1> QED BY <1>4 DEF new

\* A changed entry is seen only at its own address.
LEMMA ExceptElsewhere ==
    ASSUME NEW players \in Seq(Player), NEW i \in DOMAIN players,
           NEW p \in Player, NEW b \in Address,
           players[i].Address # b, p.Address = players[i].Address
    PROVE  EntriesIn([players EXCEPT ![i] = p], b) = EntriesIn(players, b)
<1> DEFINE new == [players EXCEPT ![i] = p]
<1>1. DOMAIN new = DOMAIN players
  OBVIOUS
<1>2. \A j \in DOMAIN players : new[j] = IF j = i THEN p ELSE players[j]
  OBVIOUS
<1> HIDE DEF new
<1>3. {j \in DOMAIN new : new[j].Address = b}
        = {j \in DOMAIN players : players[j].Address = b}
  BY <1>1, <1>2
<1>4. \A j \in {k \in DOMAIN players : players[k].Address = b} :
        new[j] = players[j]
  BY <1>2
<1>5. EntriesIn(new, b) = EntriesIn(players, b)
  BY <1>3, <1>4 DEF EntriesIn
<1> QED BY <1>5 DEF new

\* Removed entries are missed only at the addresses they had.
LEMMA SubsequenceElsewhere ==
    ASSUME NEW players, NEW n \in Nat, NEW order \in [1..n -> DOMAIN players],
           NEW b,
           \A i \in DOMAIN players :
                players[i].Address = b => \E k \in 1..n : order[k] = i
    PROVE  EntriesIn([k \in 1..n |-> players[order[k]]], b)
             = EntriesIn(players, b)
<1> DEFINE new == [k \in 1..n |-> players[order[k]]]
<1>1. DOMAIN new = 1..n /\ \A k \in 1..n : new[k] = players[order[k]]
  OBVIOUS
<1> HIDE DEF new
<1>2. ASSUME NEW e PROVE e \in EntriesIn(new, b) <=> e \in EntriesIn(players, b)
  <2>1. ASSUME e \in EntriesIn(new, b) PROVE e \in EntriesIn(players, b)
    <3>1. PICK k \in 1..n : new[k].Address = b /\ e = new[k]
      BY <2>1, <1>1 DEF EntriesIn
    <3>2. order[k] \in DOMAIN players /\ players[order[k]].Address = b
          /\ e = players[order[k]]
      BY <3>1, <1>1
    <3> QED BY <3>2 DEF EntriesIn
  <2>2. ASSUME e \in EntriesIn(players, b) PROVE e \in EntriesIn(new, b)
    <3>1. PICK i \in DOMAIN players : players[i].Address = b /\ e = players[i]
      BY <2>2 DEF EntriesIn
    <3>2. PICK k \in 1..n : order[k] = i
      BY <3>1
    <3>3. k \in DOMAIN new /\ new[k].Address = b /\ e = new[k]
      BY <3>1, <3>2, <1>1
    <3> QED BY <3>3 DEF EntriesIn
  <2> QED BY <2>1, <2>2
<1>3. EntriesIn(new, b) = EntriesIn(players, b)
  BY <1>2
<1> QED BY <1>3 DEF new

\* An answer reaches one socket.
LEMMA SendElsewhere ==
    ASSUME DOMAIN toClient = Address, NEW addr \in Address, NEW packet,
           Send(addr, packet)
    PROVE  /\ DOMAIN toClient' = Address
           /\ \A b \in Address \ {addr} : toClient'[b] = toClient[b]
BY DEF Send

-----------------------------------------------------------------------------
(* The handlers: each keeps the players good and works for one address. *)

\* CONNECTION_REQUEST appends an entry that is still CONNECTING.
LEMMA RequestGood ==
    ASSUME Inv, NEW addr \in Address, NEW salt \in ClientSalt,
           NEW serverSalt \in ServerSalt,
           HandleConnectionRequest(addr, salt, serverSalt)
    PROVE  Inv' /\ Isolated(addr)
<1>1. PICK id \in 1..MAX_PLAYERS - 1 :
        m_players' = Append(m_players, NewPlayer(id, addr, salt, serverSalt))
  BY DEF HandleConnectionRequest
<1> DEFINE p == NewPlayer(id, addr, salt, serverSalt)
<1>2. p \in Player /\ p.Address = addr /\ p.ConnectionState = "CONNECTING"
  BY ServerAssumption, WordAssumption DEF NewPlayer, Player
<1>3. FrameInv(p)
  BY ServerAssumption DEF NewPlayer, FrameInv, Ascending
<1>4. m_players \in Seq(Player) /\ GoodPlayers(m_players)
  BY DEF Inv, GoodPlayers
<1>5. /\ running' \in BOOLEAN /\ DOMAIN toClient' = Address
      /\ \A b \in Address \ {addr} : toClient'[b] = toClient[b]
  BY SendElsewhere DEF HandleConnectionRequest, Inv
<1>6. m_players' = Append(m_players, p)
  BY <1>1
<1> HIDE DEF p
<1>7. GoodPlayers(m_players)'
  BY <1>2, <1>3, <1>4, <1>6, AppendGood DEF GoodPlayers
<1>8. \A b \in Address \ {addr} : EntriesIn(m_players', b) = EntriesIn(m_players, b)
  BY <1>2, <1>4, <1>6, AppendElsewhere
<1> QED BY <1>5, <1>7, <1>8 DEF Inv, Isolated

\* A handler that replaces the entry it found, and answers.
LEMMA ReplaceGood ==
    ASSUME Inv, NEW addr \in Address, NEW i \in DOMAIN m_players,
           m_players[i].Address = addr,
           NEW p \in Player, FrameInv(p), p.Address = addr,
           \/ p.ConnectionState = m_players[i].ConnectionState
           \/ \A j \in DOMAIN m_players : m_players[j].Address = addr => i <= j,
           m_players' = [m_players EXCEPT ![i] = p],
           running' = running, NEW packet, Send(addr, packet)
    PROVE  Inv' /\ Isolated(addr)
<1>1. m_players \in Seq(Player) /\ GoodPlayers(m_players)
  BY DEF Inv, GoodPlayers
<1>2. /\ running' \in BOOLEAN /\ DOMAIN toClient' = Address
      /\ \A b \in Address \ {addr} : toClient'[b] = toClient[b]
  BY SendElsewhere DEF Inv
<1>3. GoodPlayers([m_players EXCEPT ![i] = p])
  BY <1>1, ExceptGood
<1>4. ASSUME NEW b \in Address \ {addr}
      PROVE  EntriesIn(m_players', b) = EntriesIn(m_players, b)
  <2>1. m_players[i].Address # b /\ p.Address = m_players[i].Address
    OBVIOUS
  <2>2. EntriesIn([m_players EXCEPT ![i] = p], b) = EntriesIn(m_players, b)
    BY <1>1, <2>1, ExceptElsewhere
  <2> QED BY <2>2
<1>5. GoodPlayers(m_players)'
  BY <1>3 DEF GoodPlayers
<1> QED BY <1>2, <1>4, <1>5 DEF Inv, Isolated

\* A step that leaves the players and the sockets alone.
LEMMA IgnoredGood ==
    ASSUME Inv, NEW addr, UNCHANGED serverVars
    PROVE  Inv' /\ Isolated(addr)
BY DEF Inv, Isolated, serverVars, GoodPlayers

\* CHALLENGE_RESPONSE connects the first entry of the address or erases it.
LEMMA ChallengeGood ==
    ASSUME Inv, NEW addr \in Address, NEW salt,
           HandleChallengeResponse(addr, salt)
    PROVE  Inv' /\ Isolated(addr)
<1>1. m_players \in Seq(Player) /\ GoodPlayers(m_players)
      /\ running' = running /\ running \in BOOLEAN
  BY DEF Inv, GoodPlayers, HandleChallengeResponse
<1>2. CASE ChallengeAccepted(addr, salt)
  <2>1. PICK i \in DOMAIN m_players :
          /\ IsFirst(i, EntriesAt(addr))
          /\ m_players' = [m_players EXCEPT ![i].ConnectionState = "CONNECTED"]
          /\ Send(addr, [type |-> "CONNECTION_ACCEPTED",
                         playerID |-> m_players[i].playerID])
    BY <1>2 DEF ChallengeAccepted
  <2> DEFINE p == [m_players[i] EXCEPT !.ConnectionState = "CONNECTED"]
  <2>2. m_players[i] \in Player /\ FrameInv(m_players[i])
    BY <1>1, ElementOfSeq, LenProperties DEF GoodPlayers
  <2>3. p \in Player /\ p.Address = m_players[i].Address
    BY <2>2 DEF Player
  <2>4. FrameInv(p)
    BY <2>2 DEF FrameInv, Player
  <2>5. /\ m_players[i].Address = addr
        /\ \A j \in DOMAIN m_players : m_players[j].Address = addr => i <= j
    BY <2>1 DEF IsFirst, EntriesAt
  <2>6. m_players' = [m_players EXCEPT ![i] = p]
    BY <2>1
  <2> HIDE DEF p
  <2> QED BY <1>1, <2>1, <2>3, <2>4, <2>5, <2>6, ReplaceGood
<1>3. CASE ChallengeDenied(addr, salt)
  <2>1. PICK i \in DOMAIN m_players :
          /\ IsFirst(i, EntriesAt(addr))
          /\ m_players' = RemoveAt(m_players, i)
          /\ Send(addr, [type |-> "CONNECTION_DENIED"])
    BY <1>3 DEF ChallengeDenied
  <2> DEFINE n == Len(m_players) - 1
             order == [k \in 1..n |-> IF k < i THEN k ELSE k + 1]
             kept == [k \in 1..n |-> m_players[order[k]]]
  <2>2. n \in Nat /\ m_players' = kept
    BY <1>1, <2>1, RemoveIsSubsequence
  <2>3. DOMAIN m_players = 1..Len(m_players) /\ Len(m_players) \in Nat
    BY <1>1, LenProperties
  <2>4. /\ order \in [1..n -> DOMAIN m_players]
        /\ \A j, k \in 1..n : j < k => order[j] < order[k]
    BY <2>2, <2>3
  <2>5. \A j \in DOMAIN m_players : j # i => \E k \in 1..n : order[k] = j
    <3>1. ASSUME NEW j \in DOMAIN m_players, j # i
          PROVE  \E k \in 1..n : order[k] = j
      <4>1. CASE j < i
        BY <4>1, <2>3
      <4>2. CASE j > i
        <5>1. j - 1 \in 1..n /\ order[j - 1] = j
          BY <4>2, <2>3
        <5> QED BY <5>1
      <4> QED BY <4>1, <4>2, <3>1, <2>3
    <3> QED BY <3>1
  <2>6. m_players[i].Address = addr
    BY <2>1 DEF IsFirst, EntriesAt
  <2> HIDE DEF n, order
  <2>7. GoodPlayers(kept)
    BY <1>1, <2>2, <2>4, SubsequenceGood
  <2>8. ASSUME NEW b \in Address \ {addr}
        PROVE  EntriesIn(kept, b) = EntriesIn(m_players, b)
    <3>1. \A j \in DOMAIN m_players :
            m_players[j].Address = b => \E k \in 1..n : order[k] = j
      BY <2>5, <2>6
    <3> QED BY <3>1, <2>2, <2>4, SubsequenceElsewhere
  <2>9. GoodPlayers(m_players)'
    BY <2>2, <2>7 DEF GoodPlayers
  <2>10. /\ DOMAIN toClient' = Address
         /\ \A b \in Address \ {addr} : toClient'[b] = toClient[b]
    BY <2>1, SendElsewhere DEF Inv
  <2> QED BY <1>1, <2>2, <2>8, <2>9, <2>10 DEF Inv, Isolated
<1>4. CASE EntriesAt(addr) = {} /\ UNCHANGED <<m_players, toClient>>
  BY <1>1, <1>4, IgnoredGood DEF serverVars
<1> QED BY <1>2, <1>3, <1>4 DEF HandleChallengeResponse

\* CLOCK changes the clock offset of one entry.
LEMMA ClockGood ==
    ASSUME Inv, NEW addr \in Address, NEW salt, NEW offset \in Offset,
           HandleClockSync(addr, salt, offset)
    PROVE  Inv' /\ Isolated(addr)
<1>1. m_players \in Seq(Player) /\ GoodPlayers(m_players) /\ running' = running
  BY DEF Inv, GoodPlayers, HandleClockSync
<1>2. CASE ClockSynchronized(addr, salt, offset)
  <2>1. PICK i \in DOMAIN m_players :
          /\ IsFirst(i, EntriesWith(addr, salt))
          /\ m_players' = [m_players EXCEPT ![i].serverClockOffset = offset]
          /\ Send(m_players[i].Address, [type |-> "CLOCK_RESPONSE"])
    BY <1>2 DEF ClockSynchronized
  <2> DEFINE p == [m_players[i] EXCEPT !.serverClockOffset = offset]
  <2>2. m_players[i] \in Player /\ FrameInv(m_players[i])
    BY <1>1, ElementOfSeq, LenProperties DEF GoodPlayers
  <2>3. /\ p \in Player /\ p.Address = m_players[i].Address
        /\ p.ConnectionState = m_players[i].ConnectionState
    BY <2>2 DEF Player
  <2>4. FrameInv(p)
    BY <2>2 DEF FrameInv, Player
  <2>5. m_players[i].Address = addr
    BY <2>1 DEF IsFirst, EntriesWith, EntriesAt
  <2>6. m_players' = [m_players EXCEPT ![i] = p]
    BY <2>1
  <2> HIDE DEF p
  <2> QED BY <1>1, <2>1, <2>3, <2>4, <2>5, <2>6, ReplaceGood
<1>3. CASE EntriesWith(addr, salt) = {} /\ UNCHANGED <<m_players, toClient>>
  BY <1>1, <1>3, IgnoredGood DEF serverVars
<1> QED BY <1>2, <1>3 DEF HandleClockSync

\* GAME_STATE records the packet and the answer in one entry.
LEMMA GameStateGood ==
    ASSUME Inv, NEW addr \in Address, NEW salt, NEW seqNum \in 0..WORD - 1,
           NEW ack, NEW ackBits, NEW keyboard \in Keyboard,
           HandleGameState(addr, salt, seqNum, ack, ackBits, keyboard)
    PROVE  Inv' /\ Isolated(addr)
<1>1. m_players \in Seq(Player) /\ GoodPlayers(m_players) /\ running' = running
  BY DEF Inv, GoodPlayers, HandleGameState
<1>2. CASE GameStateAnswered(addr, salt, seqNum, ack, ackBits, keyboard)
  <2> DEFINE received(i) == RecordReceived(m_players[i], seqNum)
             replied(i) == RecordSent(DropAcknowledged(received(i), ack, ackBits),
                                     keyboard)
  <2>1. PICK i \in DOMAIN m_players :
          /\ IsFirst(i, EntriesWith(addr, salt))
          /\ m_players' = [m_players EXCEPT ![i] = replied(i)]
          /\ Send(replied(i).Address, GameStatePacket(replied(i), m_players'))
    BY <1>2 DEF GameStateAnswered
  <2>2. m_players[i] \in Player /\ FrameInv(m_players[i])
    BY <1>1, ElementOfSeq, LenProperties DEF GoodPlayers
  <2>3. /\ received(i) \in Player /\ FrameInv(received(i))
        /\ received(i).Address = m_players[i].Address
        /\ received(i).ConnectionState = m_players[i].ConnectionState
    BY <2>2, RecordReceivedGood
  <2> HIDE DEF received
  <2>4. /\ replied(i) \in Player /\ FrameInv(replied(i))
        /\ replied(i).Address = m_players[i].Address
        /\ replied(i).ConnectionState = m_players[i].ConnectionState
    BY <2>3, RestOfFrameGood
  <2>5. m_players[i].Address = addr
    BY <2>1 DEF IsFirst, EntriesWith, EntriesAt
  <2> HIDE DEF replied
  <2> QED BY <1>1, <2>1, <2>4, <2>5, ReplaceGood
<1>3. CASE EntriesWith(addr, salt) = {} /\ UNCHANGED <<m_players, toClient>>
  BY <1>1, <1>3, IgnoredGood DEF serverVars
<1> QED BY <1>2, <1>3 DEF HandleGameState

\* DISCONNECT removes entries of the address.
LEMMA DisconnectGood ==
    ASSUME Inv, NEW addr \in Address, NEW salt, HandleDisconnect(addr, salt)
    PROVE  Inv' /\ Isolated(addr)
<1> DEFINE kept == DOMAIN m_players \ EntriesWith(addr, salt)
           n == Cardinality(kept)
<1>1. m_players \in Seq(Player) /\ GoodPlayers(m_players)
  BY DEF Inv, GoodPlayers
<1>2. n \in Nat
  <2>1. DOMAIN m_players = 1..Len(m_players) /\ Len(m_players) \in Int
    BY <1>1, LenProperties
  <2>2. IsFiniteSet(DOMAIN m_players)
    BY <2>1, FS_Interval
  <2> QED BY <2>2, FS_Subset, FS_CardinalityType
<1>3. /\ running' \in BOOLEAN /\ toClient' = toClient /\ DOMAIN toClient = Address
      /\ KeepOnly(kept)
  BY DEF HandleDisconnect, Inv
<1>4. PICK order \in [1..n -> kept] :
        /\ \A j, k \in DOMAIN order : j < k => order[j] < order[k]
        /\ \A i \in kept : \E k \in DOMAIN order : order[k] = i
        /\ m_players' = [k \in DOMAIN order |-> m_players[order[k]]]
  BY <1>3 DEF KeepOnly
<1>5. \A i \in DOMAIN m_players : m_players[i].Address # addr => i \in kept
  BY DEF EntriesWith, EntriesAt
<1> HIDE DEF n
<1>6. /\ DOMAIN order = 1..n /\ order \in [1..n -> DOMAIN m_players]
      /\ \A j, k \in 1..n : j < k => order[j] < order[k]
      /\ m_players' = [k \in 1..n |-> m_players[order[k]]]
  BY <1>4
<1>7. \A i \in DOMAIN m_players :
        m_players[i].Address # addr => \E k \in 1..n : order[k] = i
  BY <1>4, <1>5, <1>6
<1> HIDE DEF kept
<1>8. GoodPlayers([k \in 1..n |-> m_players[order[k]]])
  BY <1>1, <1>2, <1>6, SubsequenceGood
<1>9. ASSUME NEW b \in Address \ {addr}
      PROVE  EntriesIn(m_players', b) = EntriesIn(m_players, b)
  <2>1. \A i \in DOMAIN m_players :
          m_players[i].Address = b => \E k \in 1..n : order[k] = i
    BY <1>7
  <2>2. EntriesIn([k \in 1..n |-> m_players[order[k]]], b)
          = EntriesIn(m_players, b)
    BY <1>2, <1>6, <2>1, SubsequenceElsewhere
  <2> QED BY <2>2, <1>6
<1>10. GoodPlayers(m_players)'
  BY <1>6, <1>8 DEF GoodPlayers
<1> QED BY <1>3, <1>9, <1>10 DEF Inv, Isolated

\* QuitGame and Crash end the process and its players with it.
LEMMA EndGood ==
    ASSUME Inv, QuitGame \/ Crash
    PROVE  Inv' /\ ~running'
<1>1. m_players' = <<>> /\ running' = FALSE /\ DOMAIN toClient' = Address
  BY DEF QuitGame, Crash, Inv
<1>2. GoodPlayers(m_players')
  BY <1>1 DEF GoodPlayers
<1>3. GoodPlayers(m_players)'
  BY <1>2 DEF GoodPlayers
<1> QED BY <1>1, <1>3 DEF Inv

\* Start, and a client that reads its socket, leave m_players alone.
LEMMA OtherGood ==
    ASSUME Inv, Start \/ \E addr \in Address : ClientReceives(addr)
    PROVE  Inv' /\ m_players' = m_players
<1>1. m_players' = m_players /\ running' \in BOOLEAN /\ DOMAIN toClient' = Address
  BY DEF Start, ClientReceives, Inv
<1>2. GoodPlayers(m_players)'
  BY <1>1 DEF Inv, GoodPlayers
<1> QED BY <1>1, <1>2 DEF Inv

-----------------------------------------------------------------------------
(* The specification. *)

\* A handler keeps the invariant and works for the address of its packet.
LEMMA HandleGood ==
    ASSUME Inv, NEW addr \in Address, Handle(addr)
    PROVE  Inv' /\ Isolated(addr)
<1>1. CASE \E salt \in ClientSalt, serverSalt \in ServerSalt :
             HandleConnectionRequest(addr, salt, serverSalt)
  BY <1>1, RequestGood
<1>2. CASE \E salt \in Salts : HandleChallengeResponse(addr, salt)
  BY <1>2, ChallengeGood
<1>3. CASE \E salt \in Salts, offset \in Offset :
             HandleClockSync(addr, salt, offset)
  BY <1>3, ClockGood
<1>4. CASE \E salt \in Salts, seqNum, ack \in 0..WORD - 1,
              ackBits \in SUBSET Bits, keyboard \in Keyboard :
             HandleGameState(addr, salt, seqNum, ack, ackBits, keyboard)
  BY <1>4, GameStateGood
<1>5. CASE \E salt \in Salts : HandleDisconnect(addr, salt)
  BY <1>5, DisconnectGood
<1> QED BY <1>1, <1>2, <1>3, <1>4, <1>5 DEF Handle

\* The server starts without players.
LEMMA InitInv == ServerInit => Inv
BY DEF ServerInit, Inv, GoodPlayers

\* Every step keeps the invariant.
LEMMA NextInv == Inv /\ [Next]_serverVars => Inv'
<1> SUFFICES ASSUME Inv, [Next]_serverVars PROVE Inv'
  OBVIOUS
<1>1. CASE \E addr \in Address : Quiet /\ Handle(addr)
  BY <1>1, HandleGood
<1>2. CASE \E addr \in Address : ClientReceives(addr)
  BY <1>2, OtherGood
<1>3. CASE QuitGame \/ Crash
  BY <1>3, EndGood
<1>4. CASE Start
  BY <1>4, OtherGood
<1>5. CASE UNCHANGED serverVars
  BY <1>5 DEF serverVars, Inv, GoodPlayers
<1> QED BY <1>1, <1>2, <1>3, <1>4, <1>5 DEF Next

\* The invariant holds in every reachable state.
THEOREM Invariance == Spec => []Inv
BY InitInv, NextInv, PTL DEF Spec

\* Every variable keeps its type, for any number of clients and frames, and
\* HandleGameState never keeps more than KEEP_RECEIVED numbers.
THEOREM TypeCorrect == Spec => []TypeOK
<1>1. Inv => TypeOK
  BY InvGives
<1> QED BY <1>1, Invariance, PTL

\* receivedPackets, which ComputeAckBits scans, is always in ascending order
\* with the newest number last.
THEOREM ReceivedInOrder == Spec => []ReceivedAscending
<1>1. Inv => ReceivedAscending
  BY InvGives
<1> QED BY <1>1, Invariance, PTL

\* However many entries an address collects in m_players, only its oldest one
\* is ever CONNECTED.
THEOREM OneConnectedPerAddress == Spec => []OnlyOldestConnected
<1>1. Inv => OnlyOldestConnected
  BY InvGives
<1> QED BY <1>1, Invariance, PTL

\* A packet of one client never adds, changes or removes an entry of another
\* one, nor is it answered to another one.
THEOREM Isolation == Spec => AddressIsolation
<1> DEFINE Step ==
      \A b \in Address :
        EntriesOf(b)' # EntriesOf(b) \/ toClient'[b] # toClient[b] =>
            \A a \in Address \ {b} : ~(Quiet /\ Handle(a))
<1>1. ASSUME NEW b PROVE /\ EntriesOf(b) = EntriesIn(m_players, b)
                        /\ EntriesOf(b)' = EntriesIn(m_players', b)
  BY DEF EntriesOf, EntriesIn, EntriesAt
<1>2. ASSUME Inv, NEW a \in Address, Handle(a), NEW b \in Address \ {a}
      PROVE  EntriesOf(b)' = EntriesOf(b) /\ toClient'[b] = toClient[b]
  <2>1. Isolated(a)
    BY <1>2, HandleGood
  <2> QED BY <1>1, <1>2, <2>1 DEF Isolated
<1>3. Inv => Step
  <2> SUFFICES ASSUME Inv, NEW b \in Address, NEW a \in Address \ {b}, Handle(a)
               PROVE  EntriesOf(b)' = EntriesOf(b) /\ toClient'[b] = toClient[b]
    OBVIOUS
  <2> QED BY <1>2
<1>4. Spec => [][Step]_serverVars
  BY <1>3, Invariance, PTL DEF Spec
<1> QED BY <1>4 DEF AddressIsolation

-----------------------------------------------------------------------------
(***************************************************************************)
(* The steps of Session. A step is of one of the kinds below: Begins,      *)
(* Challenged, Accepted, GivesUp, PlayStep, Hints (a client),              *)
(* HandlesRequest, HandlesResponse, HandlesOther, NobodyTakes (the server, *)
(* for a client), Disturbed (the network), Ended (the server, for all      *)
(* clients) or Rests. A kind says what the invariants of a client need to  *)
(* know of the step, and the lemma of each action shows that it is of its  *)
(* kind and keeps the types (SessionInv).                                  *)
(***************************************************************************)

(* Queues of packets. *)

\* The packets of a queue are its elements.
LEMMA ToSetElements ==
    ASSUME NEW S, NEW q \in Seq(S), NEW m
    PROVE  m \in ToSet(q) <=> \E i \in 1..Len(q) : m = q[i]
<1>1. DOMAIN q = 1..Len(q)
  BY LenProperties
<1> QED BY <1>1 DEF ToSet

\* Taking the oldest packet leaves some of the others.
LEMMA TailKeeps ==
    ASSUME NEW S, NEW q \in Seq(S), q # <<>>
    PROVE  /\ Tail(q) \in Seq(S) /\ Head(q) \in S
           /\ Head(q) \in ToSet(q)
           /\ \A m \in ToSet(Tail(q)) : m \in ToSet(q)
<1>1. /\ Tail(q) \in Seq(S) /\ Head(q) \in S
      /\ Len(Tail(q)) = Len(q) - 1
      /\ \A i \in 1..Len(Tail(q)) : Tail(q)[i] = q[i + 1]
  BY HeadTailProperties
<1>2. Len(q) \in Nat \ {0}
  BY EmptySeq
<1>3. Head(q) \in ToSet(q)
  <2>1. 1 \in 1..Len(q) /\ Head(q) = q[1]
    BY <1>2
  <2> QED BY <2>1, ToSetElements
<1> DEFINE t == Tail(q)
<1>4. /\ t \in Seq(S) /\ Len(t) = Len(q) - 1
      /\ \A i \in 1..Len(t) : t[i] = q[i + 1]
  BY <1>1
<1> HIDE DEF t
<1>5. ASSUME NEW m \in ToSet(t) PROVE m \in ToSet(q)
  <2>1. PICK i \in 1..Len(t) : m = t[i]
    BY <1>4, ToSetElements
  <2>2. i + 1 \in 1..Len(q) /\ m = q[i + 1]
    BY <2>1, <1>4, <1>2
  <2> QED BY <2>2, ToSetElements
<1> QED BY <1>1, <1>3, <1>5 DEF t

\* So does losing one of them.
LEMMA RemoveKeeps ==
    ASSUME NEW S, NEW q \in Seq(S), NEW j \in DOMAIN q
    PROVE  /\ RemoveAt(q, j) \in Seq(S)
           /\ \A m \in ToSet(RemoveAt(q, j)) : m \in ToSet(q)
<1> DEFINE r == RemoveAt(q, j)
           at(k) == IF k < j THEN k ELSE k + 1
<1>1. Len(q) - 1 \in Nat /\ r = [k \in 1..Len(q) - 1 |-> q[at(k)]]
  BY RemoveIsSubsequence
<1>2. \A k \in 1..Len(q) - 1 : at(k) \in 1..Len(q)
  BY <1>1
<1>3. \A i \in 1..Len(q) : q[i] \in S
  BY ElementOfSeq
<1> HIDE DEF r, at
<1>4. r \in Seq(S) /\ Len(r) = Len(q) - 1
  <2> DEFINE n == Len(q) - 1
  <2>1. \A k \in 1..n : q[at(k)] \in S
    BY <1>2, <1>3
  <2>2. n \in Nat /\ r = [k \in 1..n |-> q[at(k)]]
    BY <1>1
  <2> HIDE DEF n
  <2>3. r \in Seq(S) /\ Len(r) = n
    BY <2>1, <2>2
  <2> QED BY <2>3 DEF n
<1>5. ASSUME NEW m \in ToSet(r) PROVE m \in ToSet(q)
  <2>1. PICK k \in 1..Len(q) - 1 : m = r[k]
    BY <1>4, ToSetElements
  <2>2. at(k) \in 1..Len(q) /\ m = q[at(k)]
    BY <2>1, <1>1, <1>2
  <2> QED BY <2>2, ToSetElements
<1> QED BY <1>4, <1>5 DEF r

\* Packets sent come behind those that are under way.
LEMMA ConcatKeeps ==
    ASSUME NEW S, NEW q \in Seq(S), NEW r \in Seq(S)
    PROVE  /\ q \o r \in Seq(S)
           /\ \A m \in ToSet(q \o r) : m \in ToSet(q) \/ m \in ToSet(r)
<1>1. /\ q \o r \in Seq(S) /\ Len(q \o r) = Len(q) + Len(r)
      /\ \A i \in 1..Len(q) + Len(r) :
           (q \o r)[i] = IF i <= Len(q) THEN q[i] ELSE r[i - Len(q)]
  BY ConcatProperties
<1>2. Len(q) \in Nat /\ Len(r) \in Nat
  BY LenProperties
<1> DEFINE both == q \o r
<1>3. /\ both \in Seq(S) /\ Len(both) = Len(q) + Len(r)
      /\ \A i \in 1..Len(q) + Len(r) :
           both[i] = IF i <= Len(q) THEN q[i] ELSE r[i - Len(q)]
  BY <1>1
<1> HIDE DEF both
<1>4. ASSUME NEW m \in ToSet(both) PROVE m \in ToSet(q) \/ m \in ToSet(r)
  <2>1. PICK i \in 1..Len(both) : m = both[i]
    BY <1>3, ToSetElements
  <2>2. i \in 1..Len(q) + Len(r)
    BY <2>1, <1>3
  <2>3. CASE i <= Len(q)
    <3>1. i \in 1..Len(q) /\ m = q[i]
      BY <2>1, <2>2, <2>3, <1>3, <1>2
    <3> QED BY <3>1, ToSetElements
  <2>4. CASE ~(i <= Len(q))
    <3>1. i - Len(q) \in 1..Len(r) /\ m = r[i - Len(q)]
      BY <2>1, <2>2, <2>4, <1>3, <1>2
    <3> QED BY <3>1, ToSetElements
  <2> QED BY <2>3, <2>4
<1> QED BY <1>1, <1>4 DEF both

\* A packet sent comes behind those that are under way.
LEMMA AppendKeeps ==
    ASSUME NEW S, NEW q \in Seq(S), NEW p \in S
    PROVE  /\ Append(q, p) \in Seq(S)
           /\ \A m \in ToSet(Append(q, p)) : m \in ToSet(q) \/ m = p
<1> DEFINE r == Append(q, p)
<1>1. /\ r \in Seq(S) /\ Len(r) = Len(q) + 1
      /\ \A i \in 1..Len(q) : r[i] = q[i]
      /\ r[Len(q) + 1] = p
  BY AppendProperties
<1> HIDE DEF r
<1>2. Len(q) \in Nat
  BY LenProperties
<1>3. ASSUME NEW m \in ToSet(r) PROVE m \in ToSet(q) \/ m = p
  <2>1. PICK i \in 1..Len(r) : m = r[i]
    BY <1>1, ToSetElements
  <2>2. i \in 1..Len(q) \/ i = Len(q) + 1
    BY <2>1, <1>1, <1>2
  <2>3. CASE i \in 1..Len(q)
    <3>1. m = q[i]
      BY <2>1, <2>3, <1>1
    <3> QED BY <2>3, <3>1, ToSetElements
  <2> QED BY <2>1, <2>2, <2>3, <1>1
<1> QED BY <1>1, <1>3 DEF r

\* Whether or not the socket has room, nothing else gets into the queue.
LEMMA EnqueueKeeps ==
    ASSUME NEW S, NEW q \in Seq(S), NEW p \in S
    PROVE  /\ Enqueue(q, p) \in Seq(S)
           /\ \A m \in ToSet(Enqueue(q, p)) : m \in ToSet(q) \/ m = p
BY AppendKeeps DEF Enqueue

\* An empty socket has room.
LEMMA EnqueueFirst == ASSUME NEW p PROVE Enqueue(<<>>, p) = <<p>>
<1>1. Len(<<>>) = 0 /\ 0 < SocketCapacity
  BY ProtocolAssumption
<1>2. Append(<<>>, p) = <<p>>
  OBVIOUS
<1> QED BY <1>1, <1>2 DEF Enqueue

\* The one packet of a queue is all there is.
LEMMA Single ==
    ASSUME NEW p
    PROVE  /\ <<p>> # <<>> /\ Head(<<p>>) = p /\ Tail(<<p>>) = <<>>
           /\ <<>> \o <<p>> = <<p>>
           /\ \A q \in Lost(<<p>>) : q = <<>>
           /\ ToSet(<<p>>) = {p} /\ ToSet(<<>>) = {} /\ Lost(<<>>) = {}
<1>1. <<p>> # <<>> /\ Head(<<p>>) = p /\ Tail(<<p>>) = <<>>
  OBVIOUS
<1>2. <<>> \o <<p>> = <<p>>
  <2>1. <<p>> \in Seq({p})
    OBVIOUS
  <2> QED BY <2>1, ConcatEmptySeq
<1>3. ASSUME NEW q \in Lost(<<p>>) PROVE q = <<>>
  <2>1. <<p>> \in Seq({p}) /\ Len(<<p>>) = 1
    OBVIOUS
  <2>2. PICK i \in DOMAIN <<p>> : q = RemoveAt(<<p>>, i)
    BY <1>3 DEF Lost
  <2>3. q = [k \in 1..Len(<<p>>) - 1 |-> <<p>>[IF k < i THEN k ELSE k + 1]]
    BY <2>1, <2>2, RemoveIsSubsequence
  <2>4. 1..Len(<<p>>) - 1 = {}
    BY <2>1
  <2> QED BY <2>3, <2>4
<1>4. ToSet(<<p>>) = {p} /\ ToSet(<<>>) = {} /\ Lost(<<>>) = {}
  BY DEF ToSet, Lost
<1> QED BY <1>1, <1>2, <1>3, <1>4

-----------------------------------------------------------------------------
(* How many entries a client has in m_players, and which one is CONNECTED. *)

\* The positions of the entries of an address in a sequence of players.
PositionsIn(players, b) == {i \in DOMAIN players : players[i].Address = b}

\* How many entries of m_players a client has.
Count(b) == Cardinality(EntriesAt(b))

\* The salts of the CONNECTED entries of an address.
AdmittedIn(players, b) ==
    {ConnectionSalt(e) :
        e \in {x \in EntriesIn(players, b) : x.ConnectionState = "CONNECTED"}}

\* What Session says of an address is said of the sequence m_players.
LEMMA OfPlayers ==
    ASSUME NEW b
    PROVE  /\ EntriesAt(b) = PositionsIn(m_players, b)
           /\ EntriesAt(b)' = PositionsIn(m_players', b)
           /\ Count(b) = Cardinality(PositionsIn(m_players, b))
           /\ Count(b)' = Cardinality(PositionsIn(m_players', b))
           /\ Admitted(b) = AdmittedIn(m_players, b)
           /\ Admitted(b)' = AdmittedIn(m_players', b)
<1>1. ASSUME NEW players
      PROVE  AdmittedIn(players, b) =
               {ConnectionSalt(players[i]) :
                  i \in {j \in PositionsIn(players, b) :
                          players[j].ConnectionState = "CONNECTED"}}
  BY DEF AdmittedIn, EntriesIn, PositionsIn
<1> QED BY <1>1 DEF EntriesAt, PositionsIn, Count, Admitted

\* There are finitely many of them.
LEMMA PositionsFinite ==
    ASSUME NEW players \in Seq(Player), NEW b
    PROVE  /\ IsFiniteSet(PositionsIn(players, b))
           /\ Cardinality(PositionsIn(players, b)) \in Nat
<1>1. DOMAIN players = 1..Len(players) /\ Len(players) \in Int
  BY LenProperties
<1>2. IsFiniteSet(DOMAIN players)
  BY <1>1, FS_Interval
<1> QED BY <1>2, FS_Subset, FS_CardinalityType DEF PositionsIn

\* A new entry counts at its own address.
LEMMA AppendCount ==
    ASSUME NEW players \in Seq(Player), NEW p \in Player, NEW b
    PROVE  Cardinality(PositionsIn(Append(players, p), b))
             = Cardinality(PositionsIn(players, b))
                 + IF p.Address = b THEN 1 ELSE 0
<1> DEFINE new == Append(players, p)
           old == PositionsIn(players, b)
           n == Len(players) + 1
<1>1. /\ DOMAIN new = 1..n /\ \A i \in 1..Len(players) : new[i] = players[i]
      /\ new[n] = p /\ DOMAIN players = 1..Len(players) /\ Len(players) \in Nat
  BY AppendProperties, LenProperties
<1>2. 1..n = 1..Len(players) \cup {n} /\ n \notin 1..Len(players)
  BY <1>1
<1> HIDE DEF new, n
<1>3. PositionsIn(new, b) = IF p.Address = b THEN old \cup {n} ELSE old
  BY <1>1, <1>2 DEF PositionsIn
<1>4. n \notin old
  BY <1>1, <1>2 DEF PositionsIn
<1>5. IsFiniteSet(old) /\ Cardinality(old) \in Nat
  BY PositionsFinite
<1> HIDE DEF old
<1>6. Cardinality(old \cup {n}) = Cardinality(old) + 1
  BY <1>4, <1>5, FS_AddElement
<1>7. Cardinality(PositionsIn(new, b))
        = Cardinality(old) + IF p.Address = b THEN 1 ELSE 0
  BY <1>3, <1>5, <1>6
<1> QED BY <1>7 DEF new, old

\* A replaced entry counts as before.
LEMMA ExceptCount ==
    ASSUME NEW players \in Seq(Player), NEW i \in DOMAIN players,
           NEW p \in Player, p.Address = players[i].Address, NEW b
    PROVE  PositionsIn([players EXCEPT ![i] = p], b) = PositionsIn(players, b)
BY DEF PositionsIn

\* Entries kept count no more than before, and less if one of them is gone.
LEMMA SubsequenceCount ==
    ASSUME NEW players \in Seq(Player), NEW n \in Nat,
           NEW order \in [1..n -> DOMAIN players],
           \A j, k \in 1..n : j < k => order[j] < order[k],
           NEW b, NEW gone, \A k \in 1..n : order[k] # gone
    PROVE  Cardinality(PositionsIn([k \in 1..n |-> players[order[k]]], b))
             <= Cardinality(PositionsIn(players, b) \ {gone})
<1> DEFINE new == [k \in 1..n |-> players[order[k]]]
           from == PositionsIn(new, b)
           to == PositionsIn(players, b) \ {gone}
           f == [k \in from |-> order[k]]
<1>1. from \subseteq 1..n
  BY DEF PositionsIn
<1>2. \A k \in from : order[k] \in to
  BY <1>1 DEF PositionsIn
<1>3. \A j, k \in 1..n : order[j] = order[k] => j = k
  <2>1. DOMAIN players \subseteq Int
    BY LenProperties
  <2>2. ASSUME NEW j \in 1..n, NEW k \in 1..n, order[j] = order[k], j # k
        PROVE  FALSE
    <3>1. order[j] \in Int /\ order[k] \in Int
      BY <2>1
    <3>2. j < k \/ k < j
      BY <2>2
    <3>3. order[j] < order[k] \/ order[k] < order[j]
      BY <3>2
    <3> QED BY <3>1, <3>3, <2>2
  <2> QED BY <2>2
<1>4. IsFiniteSet(to)
  BY PositionsFinite, FS_RemoveElement
<1> HIDE DEF new, from, to
<1>5. f \in Injection(from, to)
  BY <1>1, <1>2, <1>3 DEF Injection, IsInjective
<1>6. Cardinality(from) <= Cardinality(to)
  BY <1>4, <1>5, FS_Injection
<1> QED BY <1>6 DEF from, to, new

\* A salt is admitted by a CONNECTED entry that has it.
LEMMA AdmittedElement ==
    ASSUME NEW players, NEW b, NEW salt
    PROVE  salt \in AdmittedIn(players, b)
             <=> \E i \in DOMAIN players :
                    /\ players[i].Address = b
                    /\ players[i].ConnectionState = "CONNECTED"
                    /\ ConnectionSalt(players[i]) = salt
BY DEF AdmittedIn, EntriesIn

\* The CONNECTED entry of an address is one of its entries.
LEMMA AdmittedNeedsEntry ==
    ASSUME Inv, NEW b, Count(b) <= 0
    PROVE  Admitted(b) = {}
<1>1. IsFiniteSet(EntriesAt(b)) /\ Count(b) \in Nat
  BY PositionsFinite, OfPlayers DEF Inv, GoodPlayers
<1>2. EntriesAt(b) = {}
  BY <1>1, FS_EmptySet DEF Count
<1> QED BY <1>2 DEF Admitted

\* There is at most one.
LEMMA AdmittedUnique ==
    ASSUME Inv, NEW b, NEW s \in Admitted(b), NEW t \in Admitted(b)
    PROVE  s = t
<1>1. PICK i \in DOMAIN m_players :
        /\ m_players[i].Address = b
        /\ m_players[i].ConnectionState = "CONNECTED"
        /\ ConnectionSalt(m_players[i]) = s
  BY OfPlayers, AdmittedElement
<1>2. PICK j \in DOMAIN m_players :
        /\ m_players[j].Address = b
        /\ m_players[j].ConnectionState = "CONNECTED"
        /\ ConnectionSalt(m_players[j]) = t
  BY OfPlayers, AdmittedElement
<1>3. DOMAIN m_players \subseteq Int
  BY LenProperties DEF Inv, GoodPlayers
<1>4. ~(i < j) /\ ~(j < i)
  BY <1>1, <1>2 DEF Inv, GoodPlayers
<1>5. i = j
  BY <1>3, <1>4
<1> QED BY <1>1, <1>2, <1>5

-----------------------------------------------------------------------------
(* What each handler does to the entries of its client, and no other's.    *)

\* What a step for address c leaves as it is for another address.
Elsewhere(c) ==
    \A b \in Address \ {c} :
        /\ toClient'[b] = toClient[b]
        /\ Admitted(b)' = Admitted(b)
        /\ Count(b)' <= Count(b)

\* Entries, and with them who is admitted, change for one address only.
LEMMA IsolatedElsewhere ==
    ASSUME NEW c, Isolated(c), \A b \in Address \ {c} : Count(b)' <= Count(b)
    PROVE  Elsewhere(c)
<1>1. ASSUME NEW b \in Address \ {c} PROVE Admitted(b)' = Admitted(b)
  <2>1. EntriesIn(m_players', b) = EntriesIn(m_players, b)
    BY DEF Isolated
  <2>2. AdmittedIn(m_players', b) = AdmittedIn(m_players, b)
    BY <2>1 DEF AdmittedIn
  <2> QED BY <2>2, OfPlayers
<1> QED BY <1>1 DEF Isolated, Elsewhere

\* CONNECTION_REQUEST adds one entry, which admits nobody.
LEMMA RequestEffect ==
    ASSUME Inv, NEW c \in Address, NEW cSalt \in ClientSalt,
           NEW sSalt \in ServerSalt, HandleConnectionRequest(c, cSalt, sSalt)
    PROVE  /\ Inv' /\ Elsewhere(c) /\ running /\ running'
           /\ Admitted(c)' = Admitted(c)
           /\ Count(c)' <= Count(c) + 1
           /\ Send(c, [type |-> "CHALLENGE",
                       clientSalt |-> cSalt, serverSalt |-> sSalt])
<1>1. Inv' /\ Isolated(c)
  BY RequestGood
<1>2. PICK id \in 1..MAX_PLAYERS - 1 :
        m_players' = Append(m_players, NewPlayer(id, c, cSalt, sSalt))
  BY DEF HandleConnectionRequest
<1> DEFINE p == NewPlayer(id, c, cSalt, sSalt)
<1>3. p \in Player /\ p.Address = c /\ p.ConnectionState = "CONNECTING"
  BY ServerAssumption, WordAssumption DEF NewPlayer, Player
<1>4. m_players' = Append(m_players, p) /\ m_players \in Seq(Player)
  BY <1>2 DEF Inv, GoodPlayers
<1> HIDE DEF p
<1>5. \A b : Count(b)' = Count(b) + IF b = c THEN 1 ELSE 0
  BY <1>3, <1>4, AppendCount, OfPlayers
<1>6. \A b : Count(b) \in Nat
  BY <1>4, PositionsFinite, OfPlayers
<1>7. Admitted(c)' = Admitted(c)
  <2>1. /\ DOMAIN m_players' = 1..Len(m_players) + 1
        /\ \A i \in 1..Len(m_players) : m_players'[i] = m_players[i]
        /\ m_players'[Len(m_players) + 1] = p
        /\ DOMAIN m_players = 1..Len(m_players) /\ Len(m_players) \in Nat
    BY <1>3, <1>4, AppendProperties, LenProperties
  <2>2. ASSUME NEW salt
        PROVE  salt \in AdmittedIn(m_players', c)
                 <=> salt \in AdmittedIn(m_players, c)
    <3>1. ASSUME NEW i
          PROVE  i \in DOMAIN m_players' <=>
                    i \in DOMAIN m_players \/ i = Len(m_players) + 1
      BY <2>1
    <3> QED BY <3>1, <2>1, <1>3, AdmittedElement
  <2>3. AdmittedIn(m_players', c) = AdmittedIn(m_players, c)
    BY <2>2
  <2> QED BY <2>3, OfPlayers
<1>8. Elsewhere(c)
  <2>1. \A b \in Address \ {c} : Count(b)' <= Count(b)
    BY <1>5, <1>6
  <2> QED BY <2>1, <1>1, IsolatedElsewhere
<1>9. /\ running /\ running'
      /\ Send(c, [type |-> "CHALLENGE",
                  clientSalt |-> cSalt, serverSalt |-> sSalt])
  BY DEF HandleConnectionRequest, Inv
<1> QED BY <1>1, <1>5, <1>6, <1>7, <1>8, <1>9

\* CHALLENGE_RESPONSE admits the salt it names, or removes an entry and with
\* it who was admitted, or finds no entry.
LEMMA ChallengeEffect ==
    ASSUME Inv, NEW c \in Address, NEW salt, HandleChallengeResponse(c, salt)
    PROVE  /\ Inv' /\ Elsewhere(c) /\ running /\ running'
           /\ \/ /\ Admitted(c)' = {salt} /\ Count(c)' = Count(c)
                 /\ \E id \in 1..MAX_PLAYERS - 1 :
                        Send(c, [type |-> "CONNECTION_ACCEPTED",
                                 playerID |-> id])
              \/ /\ Admitted(c)' = {} /\ Count(c)' <= Count(c) - 1
                 /\ Send(c, [type |-> "CONNECTION_DENIED"])
              \/ /\ Count(c) = 0 /\ UNCHANGED <<m_players, toClient>>
<1>1. Inv' /\ Isolated(c) /\ running /\ running'
  BY ChallengeGood DEF HandleChallengeResponse
<1>2. m_players \in Seq(Player) /\ DOMAIN toClient = Address
  BY DEF Inv, GoodPlayers
<1>3. \A b : IsFiniteSet(EntriesAt(b)) /\ Count(b) \in Nat
  BY <1>2, PositionsFinite, OfPlayers
<1>4. /\ \A j \in DOMAIN m_players : m_players[j] \in Player
      /\ DOMAIN m_players \subseteq Int
  BY <1>2, ElementOfSeq, LenProperties
<1>5. CASE ChallengeAccepted(c, salt)
  <2>1. PICK i \in DOMAIN m_players :
          /\ IsFirst(i, EntriesAt(c))
          /\ ConnectionSalt(m_players[i]) = salt
          /\ m_players' = [m_players EXCEPT ![i].ConnectionState = "CONNECTED"]
          /\ Send(c, [type |-> "CONNECTION_ACCEPTED",
                      playerID |-> m_players[i].playerID])
    BY <1>5 DEF ChallengeAccepted
  <2> DEFINE p == [m_players[i] EXCEPT !.ConnectionState = "CONNECTED"]
  <2>2. /\ p \in Player /\ p.Address = m_players[i].Address
        /\ p.ConnectionState = "CONNECTED" /\ ConnectionSalt(p) = salt
    BY <2>1, <1>4 DEF Player, ConnectionSalt
  <2>3. m_players' = [m_players EXCEPT ![i] = p]
    BY <2>1
  <2> HIDE DEF p
  <2>4. \A b : Count(b)' = Count(b)
    BY <2>2, <2>3, <1>2, ExceptCount, OfPlayers
  <2>5. /\ m_players[i].Address = c
        /\ \A j \in DOMAIN m_players : m_players[j].Address = c => i <= j
    BY <2>1 DEF IsFirst, EntriesAt
  <2>6. \A j \in DOMAIN m_players :
          m_players[j].Address = c /\ j # i
            => m_players[j].ConnectionState = "CONNECTING"
    <3>1. ASSUME NEW j \in DOMAIN m_players, m_players[j].Address = c, j # i
          PROVE  m_players[j].ConnectionState = "CONNECTING"
      <4>1. i < j
        BY <3>1, <2>5, <1>4
      <4> QED BY <3>1, <4>1, <2>5 DEF Inv, GoodPlayers
    <3> QED BY <3>1
  <2>7. /\ DOMAIN m_players' = DOMAIN m_players /\ m_players'[i] = p
        /\ \A j \in DOMAIN m_players : j # i => m_players'[j] = m_players[j]
    BY <2>3
  <2>8. Admitted(c)' = {salt}
    <3>1. \A s : s \in AdmittedIn(m_players', c) <=> s = salt
      BY <2>2, <2>5, <2>6, <2>7, AdmittedElement
    <3> QED BY <3>1, OfPlayers
  <2>9. \E id \in 1..MAX_PLAYERS - 1 :
          Send(c, [type |-> "CONNECTION_ACCEPTED", playerID |-> id])
    <3>1. m_players[i].playerID \in 1..MAX_PLAYERS - 1
      BY <1>4 DEF Player
    <3>2. Send(c, [type |-> "CONNECTION_ACCEPTED",
                   playerID |-> m_players[i].playerID])
      BY <2>1, <1>2
    <3> QED BY <3>1, <3>2
  <2>10. Elsewhere(c)
    <3>1. \A b \in Address \ {c} : Count(b)' <= Count(b)
      BY <2>4, <1>3
    <3> QED BY <3>1, <1>1, IsolatedElsewhere
  <2> QED BY <1>1, <2>4, <2>8, <2>9, <2>10
<1>6. CASE ChallengeDenied(c, salt)
  <2>1. PICK i \in DOMAIN m_players :
          /\ IsFirst(i, EntriesAt(c))
          /\ m_players' = RemoveAt(m_players, i)
          /\ Send(c, [type |-> "CONNECTION_DENIED"])
    BY <1>6 DEF ChallengeDenied
  <2> DEFINE n == Len(m_players) - 1
             order == [k \in 1..n |-> IF k < i THEN k ELSE k + 1]
  <2>2. n \in Nat /\ m_players' = [k \in 1..n |-> m_players[order[k]]]
    BY <1>2, <2>1, RemoveIsSubsequence
  <2>3. DOMAIN m_players = 1..Len(m_players) /\ Len(m_players) \in Nat
    BY <1>2, LenProperties
  <2>4. /\ order \in [1..n -> DOMAIN m_players]
        /\ \A j, k \in 1..n : j < k => order[j] < order[k]
        /\ \A k \in 1..n : order[k] # i
    BY <2>2, <2>3
  <2> HIDE DEF n, order
  <2>5. ASSUME NEW b PROVE Count(b)' <= Cardinality(EntriesAt(b) \ {i})
    <3>1. Cardinality(PositionsIn(m_players', b))
            <= Cardinality(PositionsIn(m_players, b) \ {i})
      BY <1>2, <2>2, <2>4, SubsequenceCount
    <3> QED BY <3>1, OfPlayers
  <2>6. i \in EntriesAt(c)
        /\ \A j \in DOMAIN m_players : m_players[j].Address = c => i <= j
    BY <2>1 DEF IsFirst, EntriesAt
  <2>7. \A b : Cardinality(EntriesAt(b) \ {i})
                 = IF i \in EntriesAt(b) THEN Count(b) - 1 ELSE Count(b)
    BY <1>3, FS_RemoveElement DEF Count
  <2>8. \A b : Count(b)' \in Nat
    BY <1>1, PositionsFinite, OfPlayers DEF Inv, GoodPlayers
  <2>9. Count(c)' <= Count(c) - 1
    BY <2>5, <2>6, <2>7
  <2>10. ASSUME NEW b PROVE Count(b)' <= Count(b)
    <3>1. Cardinality(EntriesAt(b) \ {i}) <= Count(b)
      BY <2>7, <1>3
    <3>2. Cardinality(EntriesAt(b) \ {i}) \in Int
      BY <2>7, <1>3
    <3> QED BY <3>1, <3>2, <2>5, <2>8, <1>3
  <2>11. Admitted(c)' = {}
    <3>1. ASSUME NEW s, s \in AdmittedIn(m_players', c) PROVE FALSE
      <4>1. PICK k \in 1..n : /\ m_players[order[k]].Address = c
                              /\ m_players[order[k]].ConnectionState = "CONNECTED"
        BY <3>1, <2>2, AdmittedElement
      <4>2. order[k] \in DOMAIN m_players /\ order[k] # i
        BY <2>4
      <4>3. i < order[k] /\ m_players[i].Address = c
        BY <4>1, <4>2, <2>6, <1>4 DEF EntriesAt
      <4> QED BY <4>1, <4>2, <4>3, <2>1 DEF Inv, GoodPlayers
    <3> QED BY <3>1, OfPlayers
  <2>12. Elsewhere(c)
    BY <2>10, <1>1, IsolatedElsewhere
  <2>13. Send(c, [type |-> "CONNECTION_DENIED"])
    BY <2>1, <1>2
  <2> QED BY <1>1, <2>9, <2>11, <2>12, <2>13
<1>7. CASE EntriesAt(c) = {} /\ UNCHANGED <<m_players, toClient>>
  <2>1. Count(c) = 0
    BY <1>7, FS_EmptySet DEF Count
  <2>2. \A b : Count(b)' <= Count(b)
    BY <1>7, <1>3, OfPlayers
  <2>3. Elsewhere(c)
    BY <2>2, <1>1, IsolatedElsewhere
  <2> QED BY <2>1, <2>3, <1>1, <1>7
<1> QED BY <1>5, <1>6, <1>7 DEF HandleChallengeResponse

\* CLOCK is answered or not.
LEMMA ClockEffect ==
    ASSUME Inv, NEW c \in Address, NEW salt, NEW offset \in Offset,
           HandleClockSync(c, salt, offset)
    PROVE  /\ Inv' /\ Elsewhere(c) /\ running /\ running'
           /\ Admitted(c)' = Admitted(c)
           /\ Count(c)' = Count(c)
           /\ \/ Send(c, [type |-> "CLOCK_RESPONSE"])
              \/ toClient' = toClient
<1>1. Inv' /\ Isolated(c) /\ running /\ running'
  BY ClockGood DEF HandleClockSync
<1>2. m_players \in Seq(Player) /\ DOMAIN toClient = Address
  BY DEF Inv, GoodPlayers
<1>3. \A b : Count(b) \in Nat
  BY <1>2, PositionsFinite, OfPlayers
<1>4. CASE ClockSynchronized(c, salt, offset)
  <2>1. PICK i \in DOMAIN m_players :
          /\ m_players' = [m_players EXCEPT ![i].serverClockOffset = offset]
          /\ Send(c, [type |-> "CLOCK_RESPONSE"])
    BY <1>4 DEF ClockSynchronized, IsFirst, EntriesWith, EntriesAt
  <2> DEFINE p == [m_players[i] EXCEPT !.serverClockOffset = offset]
  <2>2. m_players[i] \in Player
    BY <1>2, ElementOfSeq, LenProperties
  <2>3. /\ p \in Player /\ p.Address = m_players[i].Address
        /\ p.ConnectionState = m_players[i].ConnectionState
        /\ ConnectionSalt(p) = ConnectionSalt(m_players[i])
    BY <2>2 DEF Player, ConnectionSalt
  <2>4. m_players' = [m_players EXCEPT ![i] = p]
    BY <2>1
  <2> HIDE DEF p
  <2>5. \A b : Count(b)' = Count(b)
    BY <2>3, <2>4, <1>2, ExceptCount, OfPlayers
  <2>6. /\ DOMAIN m_players' = DOMAIN m_players /\ m_players'[i] = p
        /\ \A j \in DOMAIN m_players : j # i => m_players'[j] = m_players[j]
    BY <2>4
  <2>7. Admitted(c)' = Admitted(c)
    <3>1. ASSUME NEW j \in DOMAIN m_players
          PROVE  /\ m_players'[j].Address = m_players[j].Address
                 /\ m_players'[j].ConnectionState = m_players[j].ConnectionState
                 /\ ConnectionSalt(m_players'[j]) = ConnectionSalt(m_players[j])
      BY <2>3, <2>6
    <3>2. \A s : s \in AdmittedIn(m_players', c) <=> s \in AdmittedIn(m_players, c)
      BY <3>1, <2>6, AdmittedElement
    <3>3. AdmittedIn(m_players', c) = AdmittedIn(m_players, c)
      BY <3>2
    <3> QED BY <3>3, OfPlayers
  <2>8. Elsewhere(c)
    BY <2>5, <1>1, <1>3, IsolatedElsewhere
  <2> QED BY <1>1, <2>1, <2>5, <2>7, <2>8
<1>5. CASE EntriesWith(c, salt) = {} /\ UNCHANGED <<m_players, toClient>>
  <2>1. \A b : Count(b)' = Count(b) /\ Admitted(b)' = Admitted(b)
    BY <1>5, OfPlayers
  <2>2. Elsewhere(c)
    BY <2>1, <1>1, <1>3, IsolatedElsewhere
  <2> QED BY <2>1, <2>2, <1>1, <1>5
<1> QED BY <1>4, <1>5 DEF HandleClockSync

\* DISCONNECT removes who is admitted under the salt it names.
LEMMA DisconnectEffect ==
    ASSUME Inv, NEW c \in Address, NEW salt, HandleDisconnect(c, salt)
    PROVE  /\ Inv' /\ Elsewhere(c) /\ running /\ running'
           /\ Admitted(c)' = Admitted(c) \ {salt}
           /\ Count(c)' <= Count(c) /\ toClient' = toClient
<1> DEFINE kept == DOMAIN m_players \ EntriesWith(c, salt)
           n == Cardinality(kept)
<1>1. Inv' /\ Isolated(c) /\ running /\ running' /\ toClient' = toClient
  BY DisconnectGood DEF HandleDisconnect
<1>2. m_players \in Seq(Player)
  BY DEF Inv, GoodPlayers
<1>3. n \in Nat
  <2>1. DOMAIN m_players = 1..Len(m_players) /\ Len(m_players) \in Int
    BY <1>2, LenProperties
  <2>2. IsFiniteSet(DOMAIN m_players)
    BY <2>1, FS_Interval
  <2> QED BY <2>2, FS_Subset, FS_CardinalityType
<1>4. KeepOnly(kept)
  BY DEF HandleDisconnect
<1>5. PICK order \in [1..n -> kept] :
        /\ \A j, k \in DOMAIN order : j < k => order[j] < order[k]
        /\ \A i \in kept : \E k \in DOMAIN order : order[k] = i
        /\ m_players' = [k \in DOMAIN order |-> m_players[order[k]]]
  BY <1>4 DEF KeepOnly
<1>6. \A i : i \in kept <=>
        /\ i \in DOMAIN m_players
        /\ ~(m_players[i].Address = c /\ ConnectionSalt(m_players[i]) = salt)
  BY DEF EntriesWith, EntriesAt
<1> HIDE DEF n, kept
<1>7. /\ order \in [1..n -> DOMAIN m_players]
      /\ \A j, k \in 1..n : j < k => order[j] < order[k]
      /\ \A i \in kept : \E k \in 1..n : order[k] = i
      /\ m_players' = [k \in 1..n |-> m_players[order[k]]]
  BY <1>5, <1>6
<1>8. ASSUME NEW b PROVE Count(b)' <= Count(b)
  <2>1. /\ IsFiniteSet(EntriesAt(b)) /\ Count(b) \in Nat
        /\ 0 \notin EntriesAt(b) /\ \A k \in 1..n : order[k] # 0
    <3>1. 0 \notin DOMAIN m_players
      BY <1>2, LenProperties
    <3>2. 0 \notin EntriesAt(b) /\ \A k \in 1..n : order[k] # 0
      BY <3>1, <1>7 DEF EntriesAt
    <3> QED BY <3>2, <1>2, PositionsFinite, OfPlayers
  <2>2. EntriesAt(b) \ {0} = EntriesAt(b)
    BY <2>1
  <2>3. Cardinality(PositionsIn(m_players', b))
          <= Cardinality(PositionsIn(m_players, b) \ {0})
    BY <1>2, <1>3, <1>7, <2>1, SubsequenceCount
  <2> QED BY <2>2, <2>3, OfPlayers DEF Count
<1>9. Admitted(c)' = Admitted(c) \ {salt}
  <2>1. ASSUME NEW s, s \in AdmittedIn(m_players', c)
        PROVE  s \in AdmittedIn(m_players, c) /\ s # salt
    <3>1. PICK k \in DOMAIN m_players' :
            /\ m_players'[k].Address = c
            /\ m_players'[k].ConnectionState = "CONNECTED"
            /\ ConnectionSalt(m_players'[k]) = s
      BY <2>1, AdmittedElement
    <3>2. /\ k \in 1..n /\ m_players[order[k]].Address = c
          /\ m_players[order[k]].ConnectionState = "CONNECTED"
          /\ ConnectionSalt(m_players[order[k]]) = s
      BY <3>1, <1>7
    <3>3. order[k] \in kept /\ order[k] \in DOMAIN m_players
      BY <1>5, <1>7
    <3> QED BY <3>2, <3>3, <1>6, AdmittedElement
  <2>2. ASSUME NEW s, s \in AdmittedIn(m_players, c), s # salt
        PROVE  s \in AdmittedIn(m_players', c)
    <3>1. PICK i \in DOMAIN m_players :
            /\ m_players[i].Address = c
            /\ m_players[i].ConnectionState = "CONNECTED"
            /\ ConnectionSalt(m_players[i]) = s
      BY <2>2, AdmittedElement
    <3>2. PICK k \in 1..n : order[k] = i
      BY <3>1, <2>2, <1>6, <1>7
    <3>3. k \in DOMAIN m_players' /\ m_players'[k] = m_players[i]
      BY <3>2, <1>7
    <3> QED BY <3>1, <3>3, AdmittedElement
  <2>3. AdmittedIn(m_players', c) = AdmittedIn(m_players, c) \ {salt}
    BY <2>1, <2>2
  <2> QED BY <2>3, OfPlayers
<1>10. Elsewhere(c)
  BY <1>8, <1>1, IsolatedElsewhere
<1> QED BY <1>1, <1>8, <1>9, <1>10

\* A server that ends forgets everybody.
LEMMA EndEffect ==
    ASSUME Inv, QuitGame \/ Crash
    PROVE  /\ Inv' /\ ~running' /\ m_players' = <<>>
           /\ \A b : Admitted(b)' = {} /\ Count(b)' = 0
<1>1. m_players' = <<>>
  BY DEF QuitGame, Crash
<1>2. \A b : PositionsIn(<<>>, b) = {} /\ AdmittedIn(<<>>, b) = {}
  BY DEF PositionsIn, AdmittedIn, EntriesIn
<1>3. \A b : Admitted(b)' = {} /\ Count(b)' = 0
  BY <1>1, <1>2, OfPlayers, FS_EmptySet
<1> QED BY <1>1, <1>3, EndGood

-----------------------------------------------------------------------------
(* Types. *)

\* The invariant of all runs: the types, the server's own invariant, and that
\* the players are gone with their server.
SessionInv ==
    /\ SessionTypeOK
    /\ Inv
    /\ ~running => m_players = <<>>

\* The parts of SessionTypeOK.
ClientTypes ==
    /\ phase \in [Address -> Phases]
    /\ g_running \in [Address -> BOOLEAN]
    /\ m_connectionState \in
        [Address -> {"DISCONNECTED", "CONNECTING", "CONNECTED"}]
    /\ clientSalt \in [Address -> ClientSalt \cup {NoSalt}]
    /\ connectionSalt \in [Address -> Salts \cup {NoSalt}]
    /\ m_connectionSalt \in [Address -> Salts \cup {NoSalt}]
    /\ syncRound \in [Address -> 0..SYNC_ROUNDS - 1]
    /\ clockOffsets \in [Address -> 0..SYNC_ROUNDS - 1]
    /\ \A c \in Address : clockOffsets[c] <= syncRound[c]

FaultTypes == faults \in 0..MaxFaults /\ strays \in BOOLEAN

\* The salts issued and the packets of earlier attempts.
HistoryTypes ==
    /\ undisturbed \in [Address -> BOOLEAN]
    /\ issued \in [Address -> SUBSET Salts]
    /\ answered \in [Address -> SUBSET Salts]

\* What is under way, in either direction.
QueueTypes ==
    /\ toServer \in [Address -> Seq(Upstream)]
    /\ toClient \in [Address -> Seq(Downstream)]

\* They are all there is to it.
LEMMA TypeParts ==
    SessionTypeOK <=> ClientTypes /\ FaultTypes /\ HistoryTypes /\ QueueTypes
BY DEF SessionTypeOK, ClientTypes, FaultTypes, HistoryTypes, QueueTypes

\* Faults are counted, and without one no packet goes astray.
FaultsAddUp ==
    /\ faults <= faults' /\ (strays => strays')
    /\ faults' = faults => (strays' => strays)

\* A fault is counted; what it makes stray is the packet of a fault.
LEMMA FaultCounted ==
    ASSUME FaultTypes, NEW kind, NoFault \/ Fault(kind)
    PROVE  FaultTypes' /\ FaultsAddUp
<1>1. CASE NoFault
  <2>1. faults' = faults /\ strays' = strays
    BY <1>1 DEF NoFault, faultVars
  <2>2. faults <= faults
    BY SessionAssumption DEF FaultTypes
  <2>3. FaultTypes'
    BY <2>1 DEF FaultTypes
  <2> QED BY <2>1, <2>2, <2>3 DEF FaultsAddUp
<1>2. CASE Fault(kind)
  <2>1. faults' \in 0..MaxFaults /\ faults <= faults' /\ faults' # faults
    BY <1>2, SessionAssumption DEF FaultTypes, Fault
  <2>2. strays' \in BOOLEAN /\ (strays => strays')
    BY <1>2 DEF Fault
  <2> QED BY <2>1, <2>2 DEF FaultTypes, FaultsAddUp
<1> QED BY <1>1, <1>2

\* Whatever happens to an attempt, its variables keep their types.
LEMMA AttemptTypes ==
    ASSUME ClientTypes, NEW c \in Address,
           NEW state \in {"DISCONNECTED", "CONNECTING"}, AttemptFails(c, state),
           m_connectionSalt' = m_connectionSalt
              \/ m_connectionSalt' = Set(m_connectionSalt, c, NoSalt)
    PROVE  ClientTypes'
<1> USE DEF ClientTypes, AttemptFails, Set
<1>1. phase' \in [Address -> Phases]
  BY DEF Retry, GoTo, Phases
<1>2. m_connectionState' \in
        [Address -> {"DISCONNECTED", "CONNECTING", "CONNECTED"}]
  OBVIOUS
<1>3. /\ clientSalt' \in [Address -> ClientSalt \cup {NoSalt}]
      /\ connectionSalt' \in [Address -> Salts \cup {NoSalt}]
  OBVIOUS
<1>4. m_connectionSalt' \in [Address -> Salts \cup {NoSalt}]
  OBVIOUS
<1>5. UNCHANGED <<g_running, syncRound, clockOffsets>>
  BY DEF syncVars
<1> QED BY <1>1, <1>2, <1>3, <1>4, <1>5

\* What a packet under way says of its fields.
LEMMA PacketFields ==
    /\ \A m \in Downstream : m.type = "CHALLENGE" =>
          m.clientSalt \in ClientSalt /\ m.serverSalt \in ServerSalt
    /\ \A m \in Upstream :
        /\ m.type = "CONNECTION_REQUEST" => m.clientSalt \in ClientSalt
        /\ m.type = "CHALLENGE_RESPONSE" => m.salt \in Salts
BY DEF Downstream, Upstream

-----------------------------------------------------------------------------
(* What each step of a client does, as the invariants below see it.        *)

\* What a step for another client leaves alone.
Untouched(d) ==
    /\ phase'[d] = phase[d] /\ clientSalt'[d] = clientSalt[d]
    /\ connectionSalt'[d] = connectionSalt[d]
    /\ m_connectionSalt'[d] = m_connectionSalt[d]
    /\ toServer'[d] = toServer[d] /\ toClient'[d] = toClient[d]
    /\ undisturbed'[d] = undisturbed[d] /\ issued'[d] = issued[d]
    /\ answered'[d] = answered[d]
    /\ Admitted(d)' = Admitted(d) /\ Count(d)' <= Count(d)

\* A step of client c, or for it, that keeps the invariant; faults add up.
StepOf(c) ==
    /\ SessionInv'
    /\ \A d \in Address \ {c} : Untouched(d)
    /\ FaultsAddUp

\* A step that leaves the server alone.
Apart == UNCHANGED <<running, m_players>>

\* Such a step keeps what the server promises.
LEMMA ServerKept ==
    ASSUME Inv, ~running => m_players = <<>>, Apart, DOMAIN toClient' = Address
    PROVE  /\ Inv' /\ (~running' => m_players' = <<>>)
           /\ \A b : Admitted(b)' = Admitted(b) /\ Count(b)' = Count(b)
           /\ \A b : Count(b) \in Nat /\ Count(b)' \in Nat
<1>1. m_players' = m_players /\ running' = running
  BY DEF Apart
<1>2. GoodPlayers(m_players)'
  BY <1>1 DEF Inv, GoodPlayers
<1>3. Inv'
  BY <1>1, <1>2 DEF Inv
<1>4. \A b : Admitted(b)' = Admitted(b) /\ Count(b)' = Count(b)
  BY <1>1, OfPlayers
<1>5. \A b : Count(b) \in Nat
  BY PositionsFinite, OfPlayers DEF Inv, GoodPlayers
<1> QED BY <1>1, <1>3, <1>4, <1>5

\* Only c's variables change: what is left to show for a step of a client.
LEMMA ClientStepOf ==
    ASSUME SessionInv, NEW c \in Address, Apart,
           ClientTypes', HistoryTypes', QueueTypes',
           \A d \in Address \ {c} :
             /\ phase'[d] = phase[d] /\ clientSalt'[d] = clientSalt[d]
             /\ connectionSalt'[d] = connectionSalt[d]
             /\ m_connectionSalt'[d] = m_connectionSalt[d]
             /\ toServer'[d] = toServer[d] /\ toClient'[d] = toClient[d]
             /\ undisturbed'[d] = undisturbed[d] /\ issued'[d] = issued[d]
             /\ answered'[d] = answered[d],
           NEW kind, NoFault \/ Fault(kind)
    PROVE  /\ StepOf(c)
           /\ Admitted(c)' = Admitted(c) /\ Count(c)' = Count(c)
<1>1. FaultTypes' /\ FaultsAddUp
  BY FaultCounted, TypeParts DEF SessionInv
<1>2. SessionTypeOK'
  BY <1>1, TypeParts DEF SessionTypeOK, ClientTypes, FaultTypes, HistoryTypes, QueueTypes
<1>3. /\ Inv' /\ (~running' => m_players' = <<>>)
      /\ \A b : Admitted(b)' = Admitted(b) /\ Count(b)' = Count(b)
      /\ \A b : Count(b) \in Nat
  <2>1. DOMAIN toClient' = Address
    BY DEF QueueTypes
  <2> QED BY <2>1, ServerKept DEF SessionInv
<1>4. \A b : Count(b)' <= Count(b)
  BY <1>3
<1> QED BY <1>1, <1>2, <1>3, <1>4 DEF StepOf, SessionInv, Untouched

\* A client may take its next packet.
Takes(c) ==
    \/ toClient' = toClient
    \/ toClient[c] # <<>> /\ toClient' = Set(toClient, c, Tail(toClient[c]))

\* The packets it leaves are packets for it.
LEMMA TakesTyped ==
    ASSUME QueueTypes, NEW c \in Address, Takes(c)
    PROVE  /\ toClient' \in [Address -> Seq(Downstream)]
           /\ \A d \in Address \ {c} : toClient'[d] = toClient[d]
           /\ \A m \in ToSet(toClient'[c]) : m \in ToSet(toClient[c])
<1>1. CASE toClient' = toClient
  BY <1>1 DEF QueueTypes
<1>2. CASE toClient[c] # <<>> /\ toClient' = Set(toClient, c, Tail(toClient[c]))
  <2>1. /\ toClient \in [Address -> Seq(Downstream)]
        /\ toClient[c] \in Seq(Downstream)
    BY DEF QueueTypes
  <2>2. /\ Tail(toClient[c]) \in Seq(Downstream)
        /\ \A m \in ToSet(Tail(toClient[c])) : m \in ToSet(toClient[c])
    BY <2>1, <1>2, TailKeeps
  <2>3. /\ toClient' \in [Address -> Seq(Downstream)]
        /\ toClient'[c] = Tail(toClient[c])
        /\ \A d \in Address \ {c} : toClient'[d] = toClient[d]
    BY <2>1, <2>2, <1>2 DEF Set
  <2> QED BY <2>2, <2>3
<1> QED BY <1>1, <1>2 DEF Takes

\* A client sends packets or none.
LEMMA SendsTyped ==
    ASSUME QueueTypes, NEW c \in Address, NEW packets \in Seq(Upstream),
           SendToServer(c, packets)
    PROVE  /\ toServer' \in [Address -> Seq(Upstream)]
           /\ toServer'[c] = toServer[c] \o packets
           /\ \A d \in Address \ {c} : toServer'[d] = toServer[d]
           /\ \A m \in ToSet(toServer'[c]) :
                m \in ToSet(toServer[c]) \/ m \in ToSet(packets)
<1>1. /\ toServer \in [Address -> Seq(Upstream)]
      /\ toServer[c] \in Seq(Upstream)
  BY DEF QueueTypes
<1>2. /\ toServer[c] \o packets \in Seq(Upstream)
      /\ \A m \in ToSet(toServer[c] \o packets) :
           m \in ToSet(toServer[c]) \/ m \in ToSet(packets)
  BY <1>1, ConcatKeeps
<1>3. /\ toServer' \in [Address -> Seq(Upstream)]
      /\ toServer'[c] = toServer[c] \o packets
      /\ \A d \in Address \ {c} : toServer'[d] = toServer[d]
  BY <1>1, <1>2 DEF SendToServer, Set
<1> QED BY <1>2, <1>3

\* An attempt that failed, whatever the reason: the client starts over.
LEMMA FailsEffect ==
    ASSUME SessionInv, NEW c \in Address, Apart, UNCHANGED historyVars,
           NEW state \in {"DISCONNECTED", "CONNECTING"}, AttemptFails(c, state),
           m_connectionSalt' = m_connectionSalt
              \/ m_connectionSalt' = Set(m_connectionSalt, c, NoSalt),
           toServer' = toServer, Takes(c),
           NEW kind, NoFault \/ Fault(kind)
    PROVE  /\ StepOf(c)
           /\ Admitted(c)' = Admitted(c) /\ Count(c)' = Count(c)
           /\ phase'[c] \in {"establish", "stopped"}
<1>1. /\ ClientTypes /\ HistoryTypes /\ QueueTypes
      /\ phase \in [Address -> Phases]
      /\ clientSalt \in [Address -> ClientSalt \cup {NoSalt}]
      /\ connectionSalt \in [Address -> Salts \cup {NoSalt}]
      /\ m_connectionSalt \in [Address -> Salts \cup {NoSalt}]
  BY TypeParts DEF SessionInv, ClientTypes
<1>2. ClientTypes'
  BY <1>1, AttemptTypes
<1>3. HistoryTypes'
  BY <1>1 DEF HistoryTypes, historyVars
<1>4. /\ QueueTypes' /\ \A d \in Address \ {c} : toClient'[d] = toClient[d]
  BY <1>1, TakesTyped DEF QueueTypes
<1>5. phase'[c] \in {"establish", "stopped"}
      /\ \A d \in Address \ {c} : phase'[d] = phase[d]
  BY <1>1 DEF AttemptFails, Retry, GoTo, Set
<1>6. \A d \in Address \ {c} : /\ clientSalt'[d] = clientSalt[d]
                              /\ connectionSalt'[d] = connectionSalt[d]
  BY <1>1 DEF AttemptFails, Set
<1>7. \A d \in Address \ {c} : m_connectionSalt'[d] = m_connectionSalt[d]
  BY <1>1 DEF Set
<1>8. \A d \in Address \ {c} : /\ toServer'[d] = toServer[d]
                              /\ undisturbed'[d] = undisturbed[d]
                              /\ issued'[d] = issued[d]
                              /\ answered'[d] = answered[d]
  BY DEF historyVars
<1>9. StepOf(c) /\ Admitted(c)' = Admitted(c) /\ Count(c)' = Count(c)
  BY <1>2, <1>3, <1>4, <1>5, <1>6, <1>7, <1>8, ClientStepOf
<1> QED BY <1>5, <1>9

\* A new attempt: a fresh salt goes out, and what was issued before counts no
\* more.
Begins(c) ==
    /\ phase[c] = "establish" /\ phase'[c] = "await_challenge"
    /\ undisturbed'[c] = TRUE /\ issued'[c] = {}
    /\ answered'[c] = answered[c] \cap OpenSalts(c)
    /\ toClient' = toClient
    /\ clientSalt'[c] \notin ClientSaltsInUse(c)
    /\ toServer'[c] = toServer[c] \o
        <<[type |-> "CONNECTION_REQUEST", clientSalt |-> clientSalt'[c]]>>
    /\ \A m \in ToSet(toServer'[c]) :
        m \in ToSet(toServer[c]) \/ m.type = "CONNECTION_REQUEST"

\* BeginAttempt is such a step.
LEMMA BeginEffect ==
    ASSUME SessionInv, NEW c \in Address, BeginAttempt(c)
    PROVE  /\ StepOf(c)
           /\ Admitted(c)' = Admitted(c) /\ Count(c)' = Count(c)
           /\ Begins(c)
<1>1. /\ ClientTypes /\ HistoryTypes /\ QueueTypes
      /\ phase \in [Address -> Phases]
      /\ clientSalt \in [Address -> ClientSalt \cup {NoSalt}]
      /\ m_connectionSalt \in [Address -> Salts \cup {NoSalt}]
  BY TypeParts DEF SessionInv, ClientTypes
<1>2. PICK salt \in OneOf(ClientSalt \ ClientSaltsInUse(c)) :
        EstablishConnection(c, salt)
  BY DEF BeginAttempt
<1>3. salt \in ClientSalt /\ salt \notin ClientSaltsInUse(c)
  <2>1. \A S : OneOf(S) \subseteq S
    BY DEF OneOf
  <2> QED BY <2>1
<1> DEFINE request == [type |-> "CONNECTION_REQUEST", clientSalt |-> salt]
<1>4. /\ phase[c] = "establish" /\ phase'[c] = "await_challenge"
      /\ clientSalt'[c] = salt
      /\ \A d \in Address \ {c} :
           /\ phase'[d] = phase[d] /\ clientSalt'[d] = clientSalt[d]
           /\ m_connectionSalt'[d] = m_connectionSalt[d]
      /\ connectionSalt' = connectionSalt
      /\ SendToServer(c, <<request>>)
  BY <1>1, <1>2 DEF EstablishConnection, GoTo, Set
<1>5. ClientTypes'
  <2> USE <1>2 DEF EstablishConnection, GoTo, Set, ClientTypes, syncVars
  <2>1. phase' \in [Address -> Phases]
    BY <1>1 DEF Phases
  <2>2. m_connectionState' \in
          [Address -> {"DISCONNECTED", "CONNECTING", "CONNECTED"}]
    BY <1>1
  <2>3. /\ clientSalt' \in [Address -> ClientSalt \cup {NoSalt}]
        /\ m_connectionSalt' \in [Address -> Salts \cup {NoSalt}]
    BY <1>1, <1>3
  <2>4. UNCHANGED <<g_running, connectionSalt, syncRound, clockOffsets>>
    OBVIOUS
  <2> QED BY <1>1, <2>1, <2>2, <2>3, <2>4
<1>6. /\ undisturbed'[c] = TRUE /\ issued'[c] = {}
      /\ answered'[c] = answered[c] \cap OpenSalts(c)
      /\ \A d \in Address \ {c} : /\ undisturbed'[d] = undisturbed[d]
                                  /\ issued'[d] = issued[d]
                                  /\ answered'[d] = answered[d]
      /\ HistoryTypes'
  BY <1>1 DEF BeginAttempt, HistoryTypes, Set
<1>7. <<request>> \in Seq(Upstream) /\ ToSet(<<request>>) = {request}
  <2>1. request \in Upstream
    BY <1>3 DEF Upstream
  <2> HIDE DEF request
  <2> QED BY <2>1, Single
<1>8. Apart /\ toClient' = toClient /\ \E kind : NoFault \/ Fault(kind)
  BY DEF BeginAttempt, serverVars, Apart, Slept
<1> HIDE DEF request
<1>9. /\ toServer' \in [Address -> Seq(Upstream)]
      /\ toServer'[c] = toServer[c] \o <<request>>
      /\ \A d \in Address \ {c} : toServer'[d] = toServer[d]
      /\ \A m \in ToSet(toServer'[c]) : m \in ToSet(toServer[c]) \/ m = request
  BY <1>1, <1>4, <1>7, SendsTyped
<1>10. QueueTypes'
  BY <1>1, <1>8, <1>9 DEF QueueTypes
<1>11. StepOf(c) /\ Admitted(c)' = Admitted(c) /\ Count(c)' = Count(c)
  BY <1>4, <1>5, <1>6, <1>8, <1>9, <1>10, ClientStepOf
<1>12. /\ toServer'[c] = toServer[c] \o
            <<[type |-> "CONNECTION_REQUEST", clientSalt |-> clientSalt'[c]]>>
       /\ \A m \in ToSet(toServer'[c]) :
            m \in ToSet(toServer[c]) \/ m.type = "CONNECTION_REQUEST"
  BY <1>4, <1>9 DEF request
<1>13. Begins(c)
  BY <1>3, <1>4, <1>6, <1>8, <1>12 DEF Begins
<1> QED BY <1>11, <1>13

\* The challenge of this attempt is answered.
Challenged(c) ==
    /\ phase[c] = "await_challenge" /\ phase'[c] = "await_accepted"
    /\ undisturbed' = undisturbed /\ issued' = issued
    /\ answered'[c] = answered[c] \cup {connectionSalt'[c]}
    /\ toClient[c] # <<>> /\ toClient'[c] = Tail(toClient[c])
    /\ clientSalt'[c] = clientSalt[c]
    /\ IsMyChallenge(c, Head(toClient[c]))
    /\ connectionSalt'[c] = <<clientSalt[c], Head(toClient[c]).serverSalt>>
    /\ toServer'[c] = toServer[c] \o
         <<[type |-> "CHALLENGE_RESPONSE", salt |-> connectionSalt'[c]]>>
    /\ \A m \in ToSet(toServer'[c]) :
         \/ m \in ToSet(toServer[c])
         \/ m.type = "CHALLENGE_RESPONSE" /\ m.salt = connectionSalt'[c]

\* ReceiveChallenge is such a step.
LEMMA ChallengedEffect ==
    ASSUME SessionInv, NEW c \in Address, ReceivePacket(c),
           ReceiveChallenge(c, Head(toClient[c])),
           answered' = Set(answered, c, answered[c] \cup {connectionSalt'[c]}),
           Slept(c)
    PROVE  /\ StepOf(c)
           /\ Admitted(c)' = Admitted(c) /\ Count(c)' = Count(c)
           /\ Challenged(c)
<1>1. /\ ClientTypes /\ HistoryTypes /\ QueueTypes
      /\ phase \in [Address -> Phases]
      /\ connectionSalt \in [Address -> Salts \cup {NoSalt}]
      /\ toClient \in [Address -> Seq(Downstream)]
  BY TypeParts DEF SessionInv, ClientTypes, QueueTypes
<1> DEFINE packet == Head(toClient[c])
           salt == <<clientSalt[c], packet.serverSalt>>
           response == [type |-> "CHALLENGE_RESPONSE", salt |-> salt]
<1>2. /\ toClient[c] # <<>> /\ Takes(c) /\ toClient'[c] = Tail(toClient[c])
  BY <1>1 DEF ReceivePacket, EmptySocket, Takes, Set
<1>3. packet \in Downstream
  <2>1. toClient[c] \in Seq(Downstream)
    BY <1>1
  <2> QED BY <2>1, <1>2, TailKeeps
<1>4. salt \in Salts
  <2>1. packet.type = "CHALLENGE" /\ packet.clientSalt = clientSalt[c]
    BY DEF ReceiveChallenge, IsMyChallenge
  <2> HIDE DEF packet
  <2> QED BY <2>1, <1>3, PacketFields DEF Salts
<1> HIDE DEF packet
<1>5. /\ phase[c] = "await_challenge" /\ phase'[c] = "await_accepted"
      /\ IsMyChallenge(c, packet)
      /\ connectionSalt'[c] = salt
      /\ clientSalt' = clientSalt /\ m_connectionSalt' = m_connectionSalt
      /\ \A d \in Address \ {c} :
           phase'[d] = phase[d] /\ connectionSalt'[d] = connectionSalt[d]
      /\ SendToServer(c, <<response>>)
  BY <1>1 DEF ReceiveChallenge, GoTo, Set, packet
<1>6. ClientTypes'
  <2> USE DEF ReceiveChallenge, GoTo, Set, ClientTypes, syncVars
  <2>1. phase' \in [Address -> Phases]
    BY <1>1 DEF Phases
  <2>2. connectionSalt' \in [Address -> Salts \cup {NoSalt}]
    <3>1. connectionSalt' = [connectionSalt EXCEPT ![c] = salt]
      BY DEF packet
    <3> HIDE DEF salt
    <3> QED BY <1>1, <1>4, <3>1
  <2>3. UNCHANGED <<g_running, m_connectionState, clientSalt, m_connectionSalt,
                    syncRound, clockOffsets>>
    OBVIOUS
  <2> QED BY <1>1, <2>1, <2>2, <2>3
<1>7. <<response>> \in Seq(Upstream) /\ ToSet(<<response>>) = {response}
  <2>1. response \in Upstream
    BY <1>4 DEF Upstream
  <2> HIDE DEF response
  <2> QED BY <2>1, Single
<1> HIDE DEF response, salt
<1>8. /\ undisturbed' = undisturbed /\ issued' = issued
      /\ answered'[c] = answered[c] \cup {salt}
      /\ \A d \in Address \ {c} : answered'[d] = answered[d]
      /\ HistoryTypes'
  <2>1. undisturbed' = undisturbed /\ issued' = issued
    BY DEF ReceivePacket
  <2>2. answered' = [answered EXCEPT ![c] = answered[c] \cup {salt}]
    <3>1. answered' = Set(answered, c, answered[c] \cup {salt})
      BY <1>5
    <3> QED BY <3>1 DEF Set
  <2> QED BY <2>1, <2>2, <1>1, <1>4 DEF HistoryTypes
<1>9. Apart /\ \E kind : NoFault \/ Fault(kind)
  BY DEF ReceivePacket, Apart, Slept
<1>10. /\ toServer' \in [Address -> Seq(Upstream)]
       /\ toServer'[c] = toServer[c] \o <<response>>
       /\ \A d \in Address \ {c} : toServer'[d] = toServer[d]
       /\ \A m \in ToSet(toServer'[c]) : m \in ToSet(toServer[c]) \/ m = response
  BY <1>1, <1>5, <1>7, SendsTyped
<1>11. QueueTypes' /\ \A d \in Address \ {c} : toClient'[d] = toClient[d]
  BY <1>1, <1>2, <1>10, TakesTyped DEF QueueTypes
<1>12. StepOf(c) /\ Admitted(c)' = Admitted(c) /\ Count(c)' = Count(c)
  BY <1>5, <1>6, <1>8, <1>9, <1>10, <1>11, ClientStepOf
<1>13. /\ toServer'[c] = toServer[c] \o
            <<[type |-> "CHALLENGE_RESPONSE", salt |-> connectionSalt'[c]]>>
       /\ \A m \in ToSet(toServer'[c]) :
            \/ m \in ToSet(toServer[c])
            \/ m.type = "CHALLENGE_RESPONSE" /\ m.salt = connectionSalt'[c]
  BY <1>5, <1>10 DEF response
<1>14. /\ IsMyChallenge(c, Head(toClient[c]))
       /\ connectionSalt'[c] = <<clientSalt[c], Head(toClient[c]).serverSalt>>
  BY <1>5 DEF salt, packet
<1>15. /\ answered'[c] = answered[c] \cup {connectionSalt'[c]}
       /\ clientSalt'[c] = clientSalt[c]
  BY <1>5, <1>8
<1>16. Challenged(c)
  BY <1>2, <1>5, <1>8, <1>13, <1>14, <1>15 DEF Challenged
<1> QED BY <1>12, <1>16

\* The client takes a CONNECTION_ACCEPTED for the answer to this attempt.
Accepted(c) ==
    /\ phase[c] = "await_accepted" /\ phase'[c] = "sync"
    /\ UNCHANGED historyVars /\ toServer' = toServer
    /\ toClient[c] # <<>> /\ toClient'[c] = Tail(toClient[c])
    /\ IsAccepted(Head(toClient[c]))
    /\ m_connectionSalt'[c] = connectionSalt[c]

\* ReceiveAccepted is such a step.
LEMMA AcceptedEffect ==
    ASSUME SessionInv, NEW c \in Address, ReceivePacket(c),
           ReceiveAccepted(c, Head(toClient[c])), answered' = answered, Slept(c)
    PROVE  /\ StepOf(c)
           /\ Admitted(c)' = Admitted(c) /\ Count(c)' = Count(c)
           /\ Accepted(c)
<1>1. /\ ClientTypes /\ HistoryTypes /\ QueueTypes
      /\ phase \in [Address -> Phases]
      /\ clientSalt \in [Address -> ClientSalt \cup {NoSalt}]
      /\ connectionSalt \in [Address -> Salts \cup {NoSalt}]
      /\ m_connectionSalt \in [Address -> Salts \cup {NoSalt}]
      /\ toClient \in [Address -> Seq(Downstream)]
  BY TypeParts DEF SessionInv, ClientTypes, QueueTypes
<1>2. /\ toClient[c] # <<>> /\ Takes(c) /\ toClient'[c] = Tail(toClient[c])
  BY <1>1 DEF ReceivePacket, EmptySocket, Takes, Set
<1>3. /\ phase[c] = "await_accepted" /\ phase'[c] = "sync"
      /\ IsAccepted(Head(toClient[c]))
      /\ m_connectionSalt'[c] = connectionSalt[c]
      /\ \A d \in Address \ {c} :
           /\ phase'[d] = phase[d] /\ clientSalt'[d] = clientSalt[d]
           /\ connectionSalt'[d] = connectionSalt[d]
           /\ m_connectionSalt'[d] = m_connectionSalt[d]
      /\ toServer' = toServer
  BY <1>1 DEF ReceiveAccepted, GoTo, Set
<1>4. ClientTypes'
  <2> USE DEF ReceiveAccepted, GoTo, Set, ClientTypes, syncVars
  <2>1. phase' \in [Address -> Phases]
    BY <1>1 DEF Phases
  <2>2. m_connectionState' \in
          [Address -> {"DISCONNECTED", "CONNECTING", "CONNECTED"}]
    BY <1>1
  <2>3. /\ clientSalt' \in [Address -> ClientSalt \cup {NoSalt}]
        /\ connectionSalt' \in [Address -> Salts \cup {NoSalt}]
    BY <1>1
  <2>4. m_connectionSalt' \in [Address -> Salts \cup {NoSalt}]
    BY <1>1
  <2>5. UNCHANGED <<g_running, syncRound, clockOffsets>>
    OBVIOUS
  <2> QED BY <1>1, <2>1, <2>2, <2>3, <2>4, <2>5
<1>5. /\ UNCHANGED historyVars /\ UNCHANGED <<undisturbed, issued, answered>>
      /\ HistoryTypes'
  BY <1>1 DEF ReceivePacket, HistoryTypes, historyVars
<1>6. Apart /\ \E kind : NoFault \/ Fault(kind)
  BY DEF ReceivePacket, Apart, Slept
<1>7. QueueTypes' /\ \A d \in Address \ {c} : toClient'[d] = toClient[d]
  BY <1>1, <1>2, <1>3, TakesTyped DEF QueueTypes
<1>8. StepOf(c) /\ Admitted(c)' = Admitted(c) /\ Count(c)' = Count(c)
  BY <1>3, <1>4, <1>5, <1>6, <1>7, ClientStepOf
<1>9. Accepted(c)
  BY <1>2, <1>3, <1>5 DEF Accepted
<1> QED BY <1>8, <1>9

\* The rounds of SyncClock keep to their number.
LEMMA SyncTypes ==
    ASSUME ClientTypes, NEW c \in Address,
           \/ SyncFails(c)
           \/ \E samples \in {clockOffsets[c], clockOffsets[c] + 1} :
                NextRound(c, samples)
    PROVE  /\ phase' \in [Address -> Phases]
           /\ phase'[c] \in {"sync", "game", "stopped"}
           /\ \A d \in Address \ {c} : phase'[d] = phase[d]
           /\ syncRound' \in [Address -> 0..SYNC_ROUNDS - 1]
           /\ clockOffsets' \in [Address -> 0..SYNC_ROUNDS - 1]
           /\ \A d \in Address : clockOffsets'[d] <= syncRound'[d]
<1> USE ClientAssumption DEF Set, Retry, GoTo
<1>1. /\ phase \in [Address -> Phases]
      /\ syncRound \in [Address -> 0..SYNC_ROUNDS - 1]
      /\ clockOffsets \in [Address -> 0..SYNC_ROUNDS - 1]
      /\ \A d \in Address : clockOffsets[d] <= syncRound[d]
  BY DEF ClientTypes
<1>2. CASE SyncFails(c)
  BY <1>1, <1>2 DEF SyncFails, Phases
<1>3. ASSUME NEW samples \in {clockOffsets[c], clockOffsets[c] + 1},
             NextRound(c, samples)
      PROVE  /\ phase' \in [Address -> Phases]
             /\ phase'[c] \in {"sync", "game", "stopped"}
             /\ \A d \in Address \ {c} : phase'[d] = phase[d]
             /\ syncRound' \in [Address -> 0..SYNC_ROUNDS - 1]
             /\ clockOffsets' \in [Address -> 0..SYNC_ROUNDS - 1]
             /\ \A d \in Address : clockOffsets'[d] <= syncRound'[d]
  <2>1. CASE syncRound[c] + 1 < SYNC_ROUNDS
    <3>1. /\ phase' = [phase EXCEPT ![c] = "sync"]
          /\ syncRound' = [syncRound EXCEPT ![c] = syncRound[c] + 1]
          /\ clockOffsets' = [clockOffsets EXCEPT ![c] = samples]
      BY <1>3, <2>1 DEF NextRound
    <3>2. /\ syncRound[c] + 1 \in 0..SYNC_ROUNDS - 1
          /\ samples \in 0..SYNC_ROUNDS - 1 /\ samples <= syncRound[c] + 1
      BY <1>1, <2>1
    <3> QED BY <1>1, <3>1, <3>2 DEF Phases
  <2>2. CASE ~(syncRound[c] + 1 < SYNC_ROUNDS)
    <3>1. /\ \E place \in {"sync", "game", "stopped"} :
               phase' = [phase EXCEPT ![c] = place]
          /\ syncRound' = [syncRound EXCEPT ![c] = 0]
          /\ clockOffsets' = [clockOffsets EXCEPT ![c] = 0]
      BY <1>3, <2>2 DEF NextRound
    <3>2. 0 \in 0..SYNC_ROUNDS - 1
      OBVIOUS
    <3> QED BY <1>1, <3>1, <3>2 DEF Phases
  <2> QED BY <2>1, <2>2
<1> QED BY <1>2, <1>3

\* What a client that plays may send.
PlayPackets(c, packets) ==
    /\ packets \in Seq(Upstream)
    /\ \A m \in ToSet(packets) :
        m.type = "CLOCK" \/ (phase'[c] = "stopped" /\ m.type = "DISCONNECT")

\* A client that has joined goes on playing or stops.
PlayStep(c) ==
    /\ InGame(c) /\ (InGame(c)' \/ phase'[c] = "stopped")
    /\ m_connectionSalt' = m_connectionSalt
    /\ clientSalt' = clientSalt /\ connectionSalt' = connectionSalt
    /\ \A m \in ToSet(toServer'[c]) :
        \/ m \in ToSet(toServer[c])
        \/ m.type = "CLOCK"
        \/ (phase'[c] = "stopped" /\ m.type = "DISCONNECT")

\* All that the steps of a client in the game have in common.
LEMMA PlayEffect ==
    ASSUME SessionInv, NEW c \in Address, Apart, UNCHANGED historyVars,
           InGame(c), phase'[c] \in {"sync", "await_clock", "game", "stopped"},
           \A d \in Address \ {c} : phase'[d] = phase[d],
           ClientTypes', UNCHANGED attemptVars,
           m_connectionSalt' = m_connectionSalt, Takes(c),
           \/ toServer' = toServer
           \/ \E packets : PlayPackets(c, packets) /\ SendToServer(c, packets),
           NEW kind, NoFault \/ Fault(kind)
    PROVE  /\ StepOf(c)
           /\ Admitted(c)' = Admitted(c) /\ Count(c)' = Count(c)
           /\ PlayStep(c)
<1>1. /\ ClientTypes /\ HistoryTypes /\ QueueTypes
  BY TypeParts DEF SessionInv
<1>2. /\ HistoryTypes' /\ UNCHANGED <<undisturbed, issued, answered>>
      /\ clientSalt' = clientSalt /\ connectionSalt' = connectionSalt
  BY <1>1 DEF HistoryTypes, historyVars, attemptVars
<1> DEFINE Sent ==
      /\ toServer' \in [Address -> Seq(Upstream)]
      /\ \A d \in Address \ {c} : toServer'[d] = toServer[d]
      /\ \A m \in ToSet(toServer'[c]) :
           \/ m \in ToSet(toServer[c])
           \/ m.type = "CLOCK"
           \/ (phase'[c] = "stopped" /\ m.type = "DISCONNECT")
<1>3. Sent
  <2>1. CASE toServer' = toServer
    BY <2>1, <1>1 DEF QueueTypes
  <2>2. ASSUME NEW packets, PlayPackets(c, packets), SendToServer(c, packets)
        PROVE  Sent
    BY <2>2, <1>1, SendsTyped DEF PlayPackets
  <2> QED BY <2>1, <2>2
<1>4. QueueTypes' /\ \A d \in Address \ {c} : toClient'[d] = toClient[d]
  BY <1>1, <1>3, TakesTyped DEF QueueTypes
<1>5. PlayStep(c)
  BY <1>2, <1>3 DEF PlayStep, InGame
<1>6. StepOf(c) /\ Admitted(c)' = Admitted(c) /\ Count(c)' = Count(c)
  BY <1>1, <1>2, <1>3, <1>4, ClientStepOf
<1> QED BY <1>5, <1>6

\* A round of SyncClock, waiting for the answer and giving up keep c playing.
LEMMA SyncStep ==
    ASSUME SessionInv, NEW c \in Address, Apart, UNCHANGED historyVars,
           InGame(c), UNCHANGED <<g_running, attemptVars, m_connectionSalt, toServer>>,
           m_connectionState' = m_connectionState
             \/ m_connectionState' = Set(m_connectionState, c, "DISCONNECTED"),
           \/ SyncFails(c)
           \/ \E samples \in {clockOffsets[c], clockOffsets[c] + 1} :
                NextRound(c, samples),
           Takes(c), NEW kind, NoFault \/ Fault(kind)
    PROVE  /\ StepOf(c)
           /\ Admitted(c)' = Admitted(c) /\ Count(c)' = Count(c)
           /\ PlayStep(c)
<1>1. ClientTypes
  BY TypeParts DEF SessionInv
<1>2. /\ phase' \in [Address -> Phases]
      /\ phase'[c] \in {"sync", "game", "stopped"}
      /\ \A d \in Address \ {c} : phase'[d] = phase[d]
      /\ syncRound' \in [Address -> 0..SYNC_ROUNDS - 1]
      /\ clockOffsets' \in [Address -> 0..SYNC_ROUNDS - 1]
      /\ \A d \in Address : clockOffsets'[d] <= syncRound'[d]
  BY <1>1, SyncTypes
<1>3. m_connectionState' \in
        [Address -> {"DISCONNECTED", "CONNECTING", "CONNECTED"}]
  BY <1>1 DEF ClientTypes, Set
<1>4. ClientTypes'
  BY <1>1, <1>2, <1>3 DEF ClientTypes, attemptVars
<1> QED BY <1>2, <1>4, PlayEffect

\* Ctrl+C, a DISCONNECT and the idle seconds only ask the client to stop.
Hints(c) ==
    /\ UNCHANGED <<phase, clientSalt, connectionSalt, m_connectionSalt, toServer>>
    /\ UNCHANGED historyVars
    /\ toClient' = toClient \/ InGame(c)

\* A request to stop is such a step, whichever of the three it is.
LEMMA StopEffect ==
    ASSUME SessionInv, NEW c \in Address, Apart, UNCHANGED historyVars,
           StopRunning(c) \/ UNCHANGED clientVars, Takes(c), NoFault,
           toClient' = toClient \/ InGame(c)
    PROVE  /\ StepOf(c)
           /\ Admitted(c)' = Admitted(c) /\ Count(c)' = Count(c)
           /\ Hints(c)
<1>1. /\ ClientTypes /\ HistoryTypes /\ QueueTypes
  BY TypeParts DEF SessionInv
<1>2. /\ UNCHANGED <<phase, clientSalt, connectionSalt, m_connectionSalt, toServer>>
      /\ UNCHANGED <<m_connectionState, syncRound, clockOffsets>>
      /\ g_running' = g_running \/ g_running' = Set(g_running, c, FALSE)
  BY DEF StopRunning, clientVars, attemptVars, syncVars
<1>3. g_running' \in [Address -> BOOLEAN]
  BY <1>1, <1>2 DEF ClientTypes, Set
<1>4. ClientTypes'
  BY <1>1, <1>2, <1>3 DEF ClientTypes
<1>5. /\ HistoryTypes' /\ UNCHANGED <<undisturbed, issued, answered>>
  BY <1>1 DEF HistoryTypes, historyVars
<1>6. QueueTypes' /\ \A d \in Address \ {c} : toClient'[d] = toClient[d]
  BY <1>1, <1>2, TakesTyped DEF QueueTypes
<1>7. StepOf(c) /\ Admitted(c)' = Admitted(c) /\ Count(c)' = Count(c)
  BY <1>2, <1>4, <1>5, <1>6, ClientStepOf
<1> QED BY <1>2, <1>7 DEF Hints

\* A client that sends while it plays: CLOCK in a round, DISCONNECT at the end.
LEMMA SendStep ==
    ASSUME SessionInv, NEW c \in Address, Apart, UNCHANGED historyVars,
           InGame(c), NEW place \in {"await_clock", "stopped"}, GoTo(c, place),
           UNCHANGED <<g_running, m_connectionState, attemptVars,
                       m_connectionSalt, syncVars>>,
           toClient' = toClient,
           NEW packets, PlayPackets(c, packets), SendToServer(c, packets),
           NEW kind, NoFault \/ Fault(kind)
    PROVE  /\ StepOf(c)
           /\ Admitted(c)' = Admitted(c) /\ Count(c)' = Count(c)
           /\ PlayStep(c)
<1>1. ClientTypes
  BY TypeParts DEF SessionInv
<1>2. /\ phase' \in [Address -> Phases] /\ phase'[c] = place
      /\ \A d \in Address \ {c} : phase'[d] = phase[d]
  BY <1>1 DEF ClientTypes, GoTo, Set, Phases
<1>3. ClientTypes'
  BY <1>1, <1>2 DEF ClientTypes, attemptVars, syncVars
<1>4. Takes(c)
  BY DEF Takes
<1> QED BY <1>2, <1>3, <1>4, PlayEffect

\* CLOCK and the DISCONNECTs of QuitGame are what a player may send.
LEMMA PlayPacketsOf ==
    ASSUME ClientTypes, NEW c \in Address
    PROVE  /\ PlayPackets(c, <<[type |-> "CLOCK", salt |-> m_connectionSalt[c]]>>)
           /\ phase'[c] = "stopped" =>
                PlayPackets(c, [i \in 1..QUIT_REPEAT |->
                                  [type |-> "DISCONNECT",
                                   salt |-> m_connectionSalt[c]]])
<1>1. m_connectionSalt[c] \in Salts \cup {NoSalt}
  BY DEF ClientTypes
<1> DEFINE clock == [type |-> "CLOCK", salt |-> m_connectionSalt[c]]
           goodbye == [type |-> "DISCONNECT", salt |-> m_connectionSalt[c]]
           goodbyes == [i \in 1..QUIT_REPEAT |-> goodbye]
<1>2. clock \in Upstream /\ goodbye \in Upstream
  BY <1>1 DEF Upstream
<1>3. clock.type = "CLOCK" /\ goodbye.type = "DISCONNECT"
  OBVIOUS
<1> HIDE DEF clock, goodbye
<1>4. <<clock>> \in Seq(Upstream) /\ ToSet(<<clock>>) = {clock}
  BY <1>2, Single
<1>5. goodbyes \in Seq(Upstream)
  BY <1>2, ProtocolAssumption
<1>6. \A m \in ToSet(goodbyes) : m = goodbye
  BY DEF ToSet
<1> HIDE DEF goodbyes
<1>7. PlayPackets(c, <<clock>>)
  BY <1>3, <1>4 DEF PlayPackets
<1>8. phase'[c] = "stopped" => PlayPackets(c, goodbyes)
  BY <1>3, <1>5, <1>6 DEF PlayPackets
<1> QED BY <1>7, <1>8 DEF clock, goodbye, goodbyes

\* An attempt is given up: its request was not sent, a second went by, or the
\* packet that came is not the one it waits for or cannot be answered.
GivesUp(c) ==
    /\ phase'[c] \in {"establish", "stopped"}
    /\ UNCHANGED historyVars /\ toServer' = toServer
    /\ \/ phase[c] = "establish" /\ toClient' = toClient
       \/ /\ phase[c] \in {"await_challenge", "await_accepted"}
          /\ toClient[c] = <<>> /\ toClient' = toClient
          /\ toServer[c] = <<>> \/ strays'
       \/ /\ phase[c] = "await_challenge" /\ toClient[c] # <<>>
          /\ toClient'[c] = Tail(toClient[c])
          /\ IsMyChallenge(c, Head(toClient[c])) => faults' = faults + 1
       \/ /\ phase[c] = "await_accepted" /\ toClient[c] # <<>>
          /\ toClient'[c] = Tail(toClient[c])
          /\ ~IsAccepted(Head(toClient[c]))

\* What is late may be read in a later attempt.
LEMMA SleptOn ==
    ASSUME NEW c \in Address, Slept(c)
    PROVE  /\ toServer[c] = <<>> \/ strays'
           /\ \E kind : NoFault \/ Fault(kind)
BY DEF Slept, Fault

\* The request could not be sent.
LEMMA FailRequestCase ==
    ASSUME SessionInv, NEW c \in Address, FailRequest(c)
    PROVE  /\ StepOf(c) /\ Admitted(c)' = Admitted(c) /\ Count(c)' = Count(c)
           /\ GivesUp(c)
<1>1. /\ Apart /\ UNCHANGED historyVars /\ toServer' = toServer
      /\ toClient' = toClient /\ Fault("send")
      /\ phase[c] = "establish" /\ AttemptFails(c, "CONNECTING")
      /\ m_connectionSalt' = Set(m_connectionSalt, c, NoSalt)
  BY DEF FailRequest, RequestFails, Apart, serverVars
<1>2. Takes(c)
  BY <1>1 DEF Takes
<1>3. /\ StepOf(c) /\ Admitted(c)' = Admitted(c) /\ Count(c)' = Count(c)
      /\ phase'[c] \in {"establish", "stopped"}
  BY <1>1, <1>2, FailsEffect
<1> QED BY <1>1, <1>3 DEF GivesUp

\* Nothing came for a second.
LEMMA TimeOutCase ==
    ASSUME SessionInv, NEW c \in Address, TimeOut(c)
    PROVE  /\ StepOf(c) /\ Admitted(c)' = Admitted(c) /\ Count(c)' = Count(c)
           /\ \/ GivesUp(c)
              \/ PlayStep(c) /\ UNCHANGED historyVars
              \/ Hints(c)
<1>1. /\ Apart /\ UNCHANGED historyVars /\ toClient[c] = <<>>
      /\ toClient' = toClient /\ Takes(c)
  BY DEF TimeOut, EmptySocket, Apart, serverVars, Takes
<1>2. ASSUME NEW state \in {"DISCONNECTED", "CONNECTING"},
             phase[c] \in {"await_challenge", "await_accepted"},
             AttemptFails(c, state), UNCHANGED <<m_connectionSalt, toServer>>,
             Slept(c)
      PROVE  /\ StepOf(c) /\ Admitted(c)' = Admitted(c) /\ Count(c)' = Count(c)
             /\ GivesUp(c)
  <2>1. /\ StepOf(c) /\ Admitted(c)' = Admitted(c) /\ Count(c)' = Count(c)
        /\ phase'[c] \in {"establish", "stopped"}
    BY <1>1, <1>2, SleptOn, FailsEffect
  <2> QED BY <1>1, <1>2, <2>1, SleptOn DEF GivesUp
<1>3. CASE ChallengeTimeout(c) /\ Slept(c)
  BY <1>2, <1>3 DEF ChallengeTimeout
<1>4. CASE AcceptedTimeout(c) /\ Slept(c)
  BY <1>2, <1>4 DEF AcceptedTimeout
<1>5. CASE NoClockYet(c) /\ NoFault
  <2>1. /\ InGame(c) /\ SyncFails(c) /\ m_connectionState' = m_connectionState
        /\ UNCHANGED <<g_running, attemptVars, m_connectionSalt, toServer>>
    BY <1>5 DEF NoClockYet, InGame
  <2> QED BY <1>1, <1>5, <2>1, SyncStep
<1>6. CASE ClockTimeout(c) /\ Fault("late")
  <2>1. /\ InGame(c) /\ NextRound(c, clockOffsets[c])
        /\ m_connectionState' = m_connectionState
        /\ UNCHANGED <<g_running, attemptVars, m_connectionSalt, toServer>>
    BY <1>6 DEF ClockTimeout, InGame
  <2> QED BY <1>1, <1>6, <2>1, SyncStep
<1>7. CASE IdleOut(c) /\ NoFault
  <2>1. StopRunning(c) /\ NoFault
    BY <1>7 DEF IdleOut
  <2> QED BY <1>1, <2>1, StopEffect
<1> QED BY <1>3, <1>4, <1>5, <1>6, <1>7 DEF TimeOut

\* A packet is read in the handshake: it is the one awaited, or not.
LEMMA ReceiveCase ==
    ASSUME SessionInv, NEW c \in Address, ReceivePacket(c)
    PROVE  /\ StepOf(c) /\ Admitted(c)' = Admitted(c) /\ Count(c)' = Count(c)
           /\ \/ Challenged(c) \/ Accepted(c) \/ GivesUp(c)
              \/ PlayStep(c) /\ UNCHANGED historyVars
              \/ Hints(c)
<1> DEFINE packet == Head(toClient[c])
<1>1. /\ Apart /\ toClient[c] # <<>> /\ Takes(c)
      /\ toClient' = Set(toClient, c, Tail(toClient[c]))
      /\ undisturbed' = undisturbed /\ issued' = issued
  BY DEF ReceivePacket, EmptySocket, Apart, Takes
<1>2. toClient'[c] = Tail(toClient[c])
  <2>1. c \in DOMAIN toClient
    BY TypeParts DEF SessionInv, QueueTypes
  <2> QED BY <1>1, <2>1 DEF Set
<1>3. CASE /\ ReceiveChallenge(c, packet) /\ Slept(c)
           /\ answered' = Set(answered, c, answered[c] \cup {connectionSalt'[c]})
  BY <1>3, ChallengedEffect
<1>4. CASE ReceiveAccepted(c, packet) /\ Slept(c) /\ answered' = answered
  BY <1>4, AcceptedEffect
<1>5. ASSUME NEW state \in {"DISCONNECTED", "CONNECTING"},
             AttemptFails(c, state), UNCHANGED <<m_connectionSalt, toServer>>,
             NEW kind, NoFault \/ Fault(kind), answered' = answered,
             \/ /\ phase[c] = "await_challenge"
                /\ IsMyChallenge(c, packet) => Fault(kind)
             \/ phase[c] = "await_accepted" /\ ~IsAccepted(packet)
      PROVE  /\ StepOf(c) /\ Admitted(c)' = Admitted(c) /\ Count(c)' = Count(c)
             /\ GivesUp(c)
  <2>1. UNCHANGED historyVars
    BY <1>1, <1>5 DEF historyVars
  <2>2. /\ StepOf(c) /\ Admitted(c)' = Admitted(c) /\ Count(c)' = Count(c)
        /\ phase'[c] \in {"establish", "stopped"}
    BY <1>1, <1>5, <2>1, FailsEffect
  <2>3. Fault(kind) => faults' = faults + 1
    BY DEF Fault
  <2> QED BY <1>1, <1>2, <1>5, <2>1, <2>2, <2>3 DEF GivesUp
<1>6. CASE ReceiveOtherThanChallenge(c, packet) /\ Slept(c) /\ answered' = answered
  <2>1. /\ AttemptFails(c, "DISCONNECTED") /\ UNCHANGED <<m_connectionSalt, toServer>>
        /\ phase[c] = "await_challenge" /\ ~IsMyChallenge(c, packet)
    BY <1>6 DEF ReceiveOtherThanChallenge
  <2> QED BY <1>5, <1>6, <2>1, SleptOn
<1>7. CASE ResponseFails(c, packet) /\ Fault("send") /\ answered' = answered
  <2>1. /\ AttemptFails(c, "DISCONNECTED") /\ UNCHANGED <<m_connectionSalt, toServer>>
        /\ phase[c] = "await_challenge"
    BY <1>7 DEF ResponseFails
  <2> QED BY <1>5, <1>7, <2>1
<1>8. CASE ReceiveOtherThanAccepted(c, packet) /\ Slept(c) /\ answered' = answered
  <2>1. /\ AttemptFails(c, "DISCONNECTED") /\ UNCHANGED <<m_connectionSalt, toServer>>
        /\ phase[c] = "await_accepted" /\ ~IsAccepted(packet)
    BY <1>8 DEF ReceiveOtherThanAccepted
  <2> QED BY <1>5, <1>8, <2>1, SleptOn
<1>9. CASE ReceiveClock(c, packet) /\ NoFault /\ answered' = answered
  <2>1. /\ InGame(c)
        /\ NextRound(c, clockOffsets[c] + 1) \/ SyncFails(c)
        /\ m_connectionState' = m_connectionState
        /\ UNCHANGED <<g_running, attemptVars, m_connectionSalt, toServer>>
    BY <1>9 DEF ReceiveClock, InGame
  <2>2. UNCHANGED historyVars
    BY <1>1, <1>9 DEF historyVars
  <2> QED BY <1>1, <1>9, <2>1, <2>2, SyncStep
<1>10. CASE ReceiveInGame(c, packet) /\ NoFault /\ answered' = answered
  <2>1. InGame(c) /\ (StopRunning(c) \/ UNCHANGED clientVars)
    BY <1>10 DEF ReceiveInGame, InGame
  <2>2. UNCHANGED historyVars
    BY <1>1, <1>10 DEF historyVars
  <2> QED BY <1>1, <1>10, <2>1, <2>2, StopEffect
<1> QED
  BY <1>3, <1>4, <1>6, <1>7, <1>8, <1>9, <1>10 DEF ReceivePacket

\* The rounds of SyncClock and what the client reads in them.
LEMMA SynchronizeCase ==
    ASSUME SessionInv, NEW c \in Address, Synchronize(c)
    PROVE  /\ StepOf(c) /\ Admitted(c)' = Admitted(c) /\ Count(c)' = Count(c)
           /\ PlayStep(c) /\ UNCHANGED historyVars
<1>1. /\ Apart /\ UNCHANGED historyVars /\ toClient' = toClient /\ Takes(c)
  BY DEF Synchronize, Apart, serverVars, Takes
<1>2. ClientTypes
  BY TypeParts DEF SessionInv
<1>3. CASE SendClock(c) /\ \E kind : NoFault \/ Fault(kind)
  <2>1. /\ InGame(c) /\ GoTo(c, "await_clock")
        /\ SendToServer(c, <<[type |-> "CLOCK", salt |-> m_connectionSalt[c]]>>)
        /\ UNCHANGED <<g_running, m_connectionState, attemptVars,
                       m_connectionSalt, syncVars>>
    BY <1>3 DEF SendClock, InGame
  <2>2. PlayPackets(c, <<[type |-> "CLOCK", salt |-> m_connectionSalt[c]]>>)
    BY <1>2, PlayPacketsOf
  <2> QED BY <1>1, <1>3, <2>1, <2>2, SendStep
<1>4. CASE ClockSendFails(c) /\ Fault("send")
  <2>1. /\ InGame(c) /\ SyncFails(c)
        /\ m_connectionState' = Set(m_connectionState, c, "DISCONNECTED")
        /\ UNCHANGED <<g_running, attemptVars, m_connectionSalt, toServer>>
    BY <1>4 DEF ClockSendFails, InGame
  <2> QED BY <1>1, <1>4, <2>1, SyncStep
<1>5. CASE SyncNotConnected(c) /\ NoFault
  <2>1. /\ InGame(c) /\ SyncFails(c) /\ m_connectionState' = m_connectionState
        /\ UNCHANGED <<g_running, attemptVars, m_connectionSalt, toServer>>
    BY <1>5 DEF SyncNotConnected, InGame
  <2> QED BY <1>1, <1>5, <2>1, SyncStep
<1> QED BY <1>3, <1>4, <1>5, SleptOn DEF Synchronize

\* The client leaves the game, with its good-byes.
LEMMA LeaveCase ==
    ASSUME SessionInv, NEW c \in Address, Leave(c)
    PROVE  /\ StepOf(c) /\ Admitted(c)' = Admitted(c) /\ Count(c)' = Count(c)
           /\ PlayStep(c) /\ UNCHANGED historyVars
<1> DEFINE goodbyes == [i \in 1..QUIT_REPEAT |->
                          [type |-> "DISCONNECT", salt |-> m_connectionSalt[c]]]
<1>1. /\ Apart /\ UNCHANGED historyVars /\ toClient' = toClient /\ NoFault
      /\ InGame(c) /\ GoTo(c, "stopped") /\ SendToServer(c, goodbyes)
      /\ UNCHANGED <<g_running, m_connectionState, attemptVars,
                     m_connectionSalt, syncVars>>
  BY DEF Leave, LeaveGame, InGame, Apart, serverVars
<1>2. ClientTypes
  BY TypeParts DEF SessionInv
<1>3. phase'[c] = "stopped"
  BY <1>1, <1>2 DEF GoTo, Set, ClientTypes
<1>4. PlayPackets(c, goodbyes)
  BY <1>2, <1>3, PlayPacketsOf
<1> QED BY <1>1, <1>4, SendStep

\* A step of a client is one of six kinds.
LEMMA ClientCases ==
    ASSUME SessionInv, NEW c \in Address, ClientStep(c) \/ UserStops(c)
    PROVE  /\ StepOf(c) /\ Admitted(c)' = Admitted(c) /\ Count(c)' = Count(c)
           /\ \/ Begins(c) \/ Challenged(c) \/ Accepted(c) \/ GivesUp(c)
              \/ PlayStep(c) /\ UNCHANGED historyVars
              \/ Hints(c)
<1>1. CASE UserStops(c)
  <2>1. /\ StopRunning(c) /\ NoFault /\ Apart /\ UNCHANGED historyVars
        /\ toClient' = toClient /\ Takes(c)
    BY <1>1 DEF UserStops, Interrupt, Apart, serverVars, Takes
  <2> QED BY <2>1, StopEffect
<1>2. CASE ClientStep(c)
  BY <1>2, BeginEffect, FailRequestCase, TimeOutCase, ReceiveCase,
     SynchronizeCase, LeaveCase DEF ClientStep
<1> QED BY <1>1, <1>2

-----------------------------------------------------------------------------
(* What the server's steps and the network's do. *)

\* An answer of the server is under way to its client, or was dropped.
LEMMA SendTyped ==
    ASSUME QueueTypes, NEW c \in Address, NEW packet \in Downstream,
           Send(c, packet)
    PROVE  /\ toClient' \in [Address -> Seq(Downstream)]
           /\ toClient'[c] = Enqueue(toClient[c], packet)
           /\ \A m \in ToSet(toClient'[c]) : m \in ToSet(toClient[c]) \/ m = packet
<1>1. /\ toClient \in [Address -> Seq(Downstream)]
      /\ toClient[c] \in Seq(Downstream)
  BY DEF QueueTypes
<1>2. /\ Enqueue(toClient[c], packet) \in Seq(Downstream)
      /\ \A m \in ToSet(Enqueue(toClient[c], packet)) :
           m \in ToSet(toClient[c]) \/ m = packet
  BY <1>1, EnqueueKeeps
<1>3. toClient' = [toClient EXCEPT ![c] = Enqueue(toClient[c], packet)]
  BY DEF Send
<1>4. /\ toClient' \in [Address -> Seq(Downstream)]
      /\ toClient'[c] = Enqueue(toClient[c], packet)
  BY <1>1, <1>2, <1>3
<1> QED BY <1>2, <1>4

\* A step that concerns the clients only by their queues and their entries.
Aside(c) ==
    /\ UNCHANGED <<phase, clientSalt, connectionSalt, m_connectionSalt>>
    /\ UNCHANGED <<undisturbed, answered>>
    /\ \A d \in Address \ {c} :
        toServer'[d] = toServer[d] /\ issued'[d] = issued[d]

\* The server takes the oldest packet of c.
Taken(c) ==
    /\ toServer[c] # <<>> /\ toServer'[c] = Tail(toServer[c])
    /\ Head(toServer[c]) \in Upstream
    /\ Head(toServer[c]) \in ToSet(toServer[c])
    /\ \A m \in ToSet(toServer'[c]) : m \in ToSet(toServer[c])
    /\ UNCHANGED <<faults, strays>>

\* Another queue for c.
LEMMA ToServerTyped ==
    ASSUME SessionInv, NEW c \in Address, NEW queue \in Seq(Upstream),
           ToServer(c, queue), UNCHANGED <<undisturbed, answered>>,
           \A d \in Address \ {c} : issued'[d] = issued[d]
    PROVE  /\ ClientTypes' /\ toServer' \in [Address -> Seq(Upstream)]
           /\ toServer'[c] = queue /\ Aside(c)
<1>1. ClientTypes /\ toServer \in [Address -> Seq(Upstream)]
  BY TypeParts DEF SessionInv, QueueTypes
<1>2. /\ toServer' \in [Address -> Seq(Upstream)] /\ toServer'[c] = queue
      /\ \A d \in Address \ {c} : toServer'[d] = toServer[d]
  BY <1>1 DEF ToServer, Set
<1>3. ClientTypes'
  BY <1>1 DEF ClientTypes, ToServer, attemptVars, syncVars
<1>4. Aside(c)
  BY <1>2 DEF Aside, ToServer, attemptVars
<1> QED BY <1>2, <1>3, <1>4

\* The packets left to the server are packets of that client.
LEMMA TakenTyped ==
    ASSUME SessionInv, NEW c \in Address, toServer[c] # <<>>,
           ToServer(c, Tail(toServer[c])),
           UNCHANGED <<faultVars, undisturbed, answered>>,
           \A d \in Address \ {c} : issued'[d] = issued[d]
    PROVE  /\ ClientTypes' /\ toServer' \in [Address -> Seq(Upstream)]
           /\ FaultTypes' /\ Aside(c) /\ Taken(c)
<1>1. FaultTypes /\ toServer[c] \in Seq(Upstream)
  BY TypeParts DEF SessionInv, QueueTypes
<1>2. /\ Tail(toServer[c]) \in Seq(Upstream)
      /\ Head(toServer[c]) \in Upstream
      /\ Head(toServer[c]) \in ToSet(toServer[c])
      /\ \A m \in ToSet(Tail(toServer[c])) : m \in ToSet(toServer[c])
  BY <1>1, TailKeeps
<1>3. /\ ClientTypes' /\ toServer' \in [Address -> Seq(Upstream)] /\ Aside(c)
      /\ toServer'[c] = Tail(toServer[c])
  BY <1>2, ToServerTyped
<1>4. FaultTypes' /\ UNCHANGED <<faults, strays>>
  BY <1>1 DEF FaultTypes, faultVars
<1>5. Taken(c)
  BY <1>2, <1>3, <1>4 DEF Taken
<1> QED BY <1>3, <1>4, <1>5

\* From the parts to StepOf.
LEMMA ServerStepOf ==
    ASSUME SessionInv, NEW c \in Address, Elsewhere(c), Aside(c),
           Inv', ~running' => m_players' = <<>>,
           ClientTypes', FaultTypes', HistoryTypes', QueueTypes',
           FaultsAddUp
    PROVE  StepOf(c)
<1>1. SessionInv'
  BY TypeParts DEF SessionInv, SessionTypeOK, ClientTypes, FaultTypes,
     HistoryTypes, QueueTypes
<1>2. \A d \in Address \ {c} : Untouched(d)
  BY DEF Elsewhere, Aside, Untouched
<1> QED BY <1>1, <1>2 DEF StepOf

\* The four handlers, and a packet that nobody takes.
HandlesRequest(c) ==
    /\ Head(toServer[c]).type = "CONNECTION_REQUEST"
    /\ Admitted(c)' = Admitted(c) /\ Count(c)' <= Count(c) + 1
    /\ \E serverSalt \in ServerSalt :
        /\ toClient'[c] = Enqueue(toClient[c],
                [type |-> "CHALLENGE", serverSalt |-> serverSalt,
                 clientSalt |-> Head(toServer[c]).clientSalt])
        /\ \A m \in ToSet(toClient'[c]) :
            \/ m \in ToSet(toClient[c])
            \/ /\ m.clientSalt = Head(toServer[c]).clientSalt
               /\ m.serverSalt = serverSalt
        /\ issued'[c] = issued[c] \cup
                {<<Head(toServer[c]).clientSalt, serverSalt>>}
\* CHALLENGE_RESPONSE.
HandlesResponse(c) ==
    /\ Head(toServer[c]).type = "CHALLENGE_RESPONSE"
    /\ issued' = issued
    /\ \A m \in ToSet(toClient'[c]) :
        m \in ToSet(toClient[c]) \/ m.type # "CHALLENGE"
    /\ \/ /\ Admitted(c)' = {Head(toServer[c]).salt} /\ Count(c)' = Count(c)
          /\ \E id \in 1..MAX_PLAYERS - 1 :
                toClient'[c] = Enqueue(toClient[c],
                    [type |-> "CONNECTION_ACCEPTED", playerID |-> id])
       \/ /\ Admitted(c)' = {} /\ Count(c)' <= Count(c) - 1
          /\ toClient'[c] = Enqueue(toClient[c], [type |-> "CONNECTION_DENIED"])
       \/ /\ Count(c) = 0 /\ Count(c)' = 0 /\ Admitted(c)' = Admitted(c)
          /\ toClient'[c] = toClient[c]
\* CLOCK or DISCONNECT.
HandlesOther(c) ==
    /\ issued' = issued
    /\ \A m \in ToSet(toClient'[c]) :
        m \in ToSet(toClient[c]) \/ m.type # "CHALLENGE"
    /\ Count(c)' <= Count(c)
    /\ \/ /\ Head(toServer[c]).type = "CLOCK"
          /\ Admitted(c)' = Admitted(c)
       \/ /\ Head(toServer[c]).type = "DISCONNECT"
          /\ Admitted(c)' = Admitted(c) \ {Head(toServer[c]).salt}
\* A packet that is of no use to the server, or finds none.
NobodyTakes(c) ==
    /\ ~running /\ issued' = issued /\ toClient' = toClient
    /\ Admitted(c)' = {} /\ Count(c)' = 0 /\ Admitted(c) = {} /\ Count(c) = 0

\* CONNECTION_REQUEST, for any outcome of its handler.
LEMMA RequestCase ==
    ASSUME SessionInv, NEW c \in Address, Serve(c),
           Head(toServer[c]).type = "CONNECTION_REQUEST"
    PROVE  StepOf(c) /\ Aside(c) /\ Taken(c) /\ HandlesRequest(c)
<1> DEFINE packet == Head(toServer[c])
<1>1. PICK serverSalt \in OneOf(ServerSalt \ ServerSaltsInUse) :
        /\ HandleConnectionRequest(c, packet.clientSalt, serverSalt)
        /\ issued' = Set(issued, c,
                         issued[c] \cup {<<packet.clientSalt, serverSalt>>})
  BY DEF Serve, Dispatch
<1>2. serverSalt \in ServerSalt
  <2>1. \A S : OneOf(S) \subseteq S
    BY DEF OneOf
  <2> QED BY <2>1
<1>3. /\ HistoryTypes /\ FaultTypes /\ QueueTypes /\ Inv
      /\ packet.clientSalt \in ClientSalt
  <2>1. packet \in Upstream
    <3>1. toServer[c] \in Seq(Upstream) /\ toServer[c] # <<>>
      BY TypeParts DEF SessionInv, QueueTypes, Serve
    <3> QED BY <3>1, TailKeeps
  <2> QED BY <2>1, PacketFields, TypeParts DEF SessionInv
<1> DEFINE challenge == [type |-> "CHALLENGE", clientSalt |-> packet.clientSalt,
                         serverSalt |-> serverSalt]
<1> HIDE DEF packet
<1>4. /\ Inv' /\ Elsewhere(c) /\ running'
      /\ Admitted(c)' = Admitted(c) /\ Count(c)' <= Count(c) + 1
      /\ Send(c, challenge)
  BY <1>1, <1>2, <1>3, RequestEffect
<1>5. /\ HistoryTypes' /\ \A d \in Address \ {c} : issued'[d] = issued[d]
      /\ issued'[c] = issued[c] \cup {<<packet.clientSalt, serverSalt>>}
  <2> DEFINE salt == <<packet.clientSalt, serverSalt>>
  <2>1. salt \in Salts
    BY <1>2, <1>3 DEF Salts
  <2>2. issued' = [issued EXCEPT ![c] = issued[c] \cup {salt}]
    BY <1>1 DEF Set
  <2>3. undisturbed' = undisturbed /\ answered' = answered
    BY DEF Serve
  <2> HIDE DEF salt
  <2>4. /\ HistoryTypes' /\ \A d \in Address \ {c} : issued'[d] = issued[d]
        /\ issued'[c] = issued[c] \cup {salt}
    BY <2>1, <2>2, <2>3, <1>3 DEF HistoryTypes
  <2> QED BY <2>4 DEF salt
<1>6. /\ ClientTypes' /\ toServer' \in [Address -> Seq(Upstream)]
      /\ FaultTypes' /\ Aside(c) /\ Taken(c)
  BY <1>5, TakenTyped DEF Serve
<1>7. /\ challenge \in Downstream /\ challenge.clientSalt = packet.clientSalt
      /\ challenge.serverSalt = serverSalt
  BY <1>2, <1>3 DEF Downstream
<1>8. challenge = [type |-> "CHALLENGE", serverSalt |-> serverSalt,
                   clientSalt |-> packet.clientSalt]
  OBVIOUS
<1> HIDE DEF challenge
<1>9. /\ toClient' \in [Address -> Seq(Downstream)]
      /\ toClient'[c] = Enqueue(toClient[c], challenge)
      /\ \A m \in ToSet(toClient'[c]) : m \in ToSet(toClient[c]) \/ m = challenge
  BY <1>3, <1>4, <1>7, SendTyped
<1>10. QueueTypes'
  BY <1>6, <1>9 DEF QueueTypes
<1>11. StepOf(c)
  <2>1. FaultsAddUp
    BY <1>3, <1>6 DEF Taken, FaultTypes, FaultsAddUp
  <2> QED BY <2>1, <1>4, <1>5, <1>6, <1>10, ServerStepOf
<1>12. HandlesRequest(c)
  <2>1. packet.type = "CONNECTION_REQUEST"
    BY DEF packet
  <2>2. /\ toClient'[c] = Enqueue(toClient[c],
              [type |-> "CHALLENGE", serverSalt |-> serverSalt,
               clientSalt |-> packet.clientSalt])
        /\ \A m \in ToSet(toClient'[c]) :
             \/ m \in ToSet(toClient[c])
             \/ m.clientSalt = packet.clientSalt /\ m.serverSalt = serverSalt
    BY <1>7, <1>8, <1>9
  <2> QED BY <1>2, <1>4, <1>5, <2>1, <2>2 DEF HandlesRequest, packet
<1> QED BY <1>6, <1>11, <1>12

\* What the handlers that issue nothing have in common.
LEMMA ServeTyped ==
    ASSUME SessionInv, NEW c \in Address, Serve(c), issued' = issued,
           Inv', Elsewhere(c), running',
           \/ toClient' = toClient
           \/ \E packet \in Downstream :
                packet.type # "CHALLENGE" /\ Send(c, packet)
    PROVE  /\ StepOf(c) /\ Aside(c) /\ Taken(c)
           /\ \A m \in ToSet(toClient'[c]) :
                m \in ToSet(toClient[c]) \/ m.type # "CHALLENGE"
<1>1. HistoryTypes /\ FaultTypes /\ QueueTypes
  BY TypeParts DEF SessionInv
<1>2. HistoryTypes'
  BY <1>1 DEF HistoryTypes, Serve
<1>3. /\ ClientTypes' /\ toServer' \in [Address -> Seq(Upstream)]
      /\ FaultTypes' /\ Aside(c) /\ Taken(c)
  BY TakenTyped DEF Serve
<1>4. /\ toClient' \in [Address -> Seq(Downstream)]
      /\ \A m \in ToSet(toClient'[c]) :
           m \in ToSet(toClient[c]) \/ m.type # "CHALLENGE"
  <2>1. CASE toClient' = toClient
    BY <2>1, <1>1 DEF QueueTypes
  <2>2. ASSUME NEW packet \in Downstream, packet.type # "CHALLENGE",
               Send(c, packet)
        PROVE  /\ toClient' \in [Address -> Seq(Downstream)]
               /\ \A m \in ToSet(toClient'[c]) :
                    m \in ToSet(toClient[c]) \/ m.type # "CHALLENGE"
    BY <2>2, <1>1, SendTyped
  <2> QED BY <2>1, <2>2
<1>5. QueueTypes'
  BY <1>3, <1>4 DEF QueueTypes
<1>6. FaultsAddUp
  BY <1>1, <1>3 DEF Taken, FaultTypes, FaultsAddUp
<1>7. StepOf(c)
  BY <1>2, <1>3, <1>5, <1>6, ServerStepOf
<1> QED BY <1>3, <1>4, <1>7

\* The answers of the other handlers.
LEMMA AnswersTyped ==
    /\ \A id \in 1..MAX_PLAYERS - 1 :
        /\ [type |-> "CONNECTION_ACCEPTED", playerID |-> id] \in Downstream
        /\ [type |-> "CONNECTION_ACCEPTED", playerID |-> id].type # "CHALLENGE"
    /\ \A t \in {"CONNECTION_DENIED", "CLOCK_RESPONSE", "DISCONNECT"} :
        [type |-> t] \in Downstream /\ [type |-> t].type # "CHALLENGE"
BY DEF Downstream

\* CHALLENGE_RESPONSE, for any outcome of its handler.
LEMMA ResponseCase ==
    ASSUME SessionInv, NEW c \in Address, Serve(c),
           Head(toServer[c]).type = "CHALLENGE_RESPONSE"
    PROVE  StepOf(c) /\ Aside(c) /\ Taken(c) /\ HandlesResponse(c)
<1> DEFINE salt == Head(toServer[c]).salt
<1>1. HandleChallengeResponse(c, salt) /\ issued' = issued /\ Inv
  BY DEF Serve, Dispatch, SessionInv
<1>2. /\ Inv' /\ Elsewhere(c) /\ running'
      /\ \/ /\ Admitted(c)' = {salt} /\ Count(c)' = Count(c)
            /\ \E id \in 1..MAX_PLAYERS - 1 :
                 Send(c, [type |-> "CONNECTION_ACCEPTED", playerID |-> id])
         \/ /\ Admitted(c)' = {} /\ Count(c)' <= Count(c) - 1
            /\ Send(c, [type |-> "CONNECTION_DENIED"])
         \/ /\ Count(c) = 0 /\ UNCHANGED <<m_players, toClient>>
  BY <1>1, ChallengeEffect
<1>3. /\ StepOf(c) /\ Aside(c) /\ Taken(c)
      /\ \A m \in ToSet(toClient'[c]) :
           m \in ToSet(toClient[c]) \/ m.type # "CHALLENGE"
  <2>1. \/ toClient' = toClient
        \/ \E packet \in Downstream : packet.type # "CHALLENGE" /\ Send(c, packet)
    BY <1>2, AnswersTyped
  <2> QED BY <1>1, <1>2, <2>1, ServeTyped
<1>4. \A packet : Send(c, packet) => toClient'[c] = Enqueue(toClient[c], packet)
  BY TypeParts DEF SessionInv, QueueTypes, Send
<1>5. UNCHANGED m_players => Count(c)' = Count(c) /\ Admitted(c)' = Admitted(c)
  BY OfPlayers
<1>6. HandlesResponse(c)
  BY <1>1, <1>2, <1>3, <1>4, <1>5 DEF HandlesResponse
<1> QED BY <1>3, <1>6

\* CLOCK and DISCONNECT, for any outcome of their handlers.
LEMMA OtherCase ==
    ASSUME SessionInv, NEW c \in Address, Serve(c),
           Head(toServer[c]).type \in {"CLOCK", "DISCONNECT"}
    PROVE  StepOf(c) /\ Aside(c) /\ Taken(c) /\ HandlesOther(c)
<1> DEFINE salt == Head(toServer[c]).salt
<1>1. Inv /\ issued' = issued
  BY DEF Serve, Dispatch, SessionInv
<1>2. \A b : Count(b) \in Nat
  BY PositionsFinite, OfPlayers DEF SessionInv, Inv, GoodPlayers
<1>3. CASE Head(toServer[c]).type = "CLOCK"
  <2>1. PICK offset \in Offset : HandleClockSync(c, salt, offset)
    BY <1>3 DEF Serve, Dispatch
  <2>2. /\ Inv' /\ Elsewhere(c) /\ running'
        /\ Admitted(c)' = Admitted(c) /\ Count(c)' = Count(c)
        /\ Send(c, [type |-> "CLOCK_RESPONSE"]) \/ toClient' = toClient
    BY <1>1, <2>1, ClockEffect
  <2>3. /\ StepOf(c) /\ Aside(c) /\ Taken(c)
        /\ \A m \in ToSet(toClient'[c]) :
             m \in ToSet(toClient[c]) \/ m.type # "CHALLENGE"
    BY <1>1, <2>2, AnswersTyped, ServeTyped
  <2> QED BY <1>1, <1>2, <1>3, <2>2, <2>3 DEF HandlesOther
<1>4. CASE Head(toServer[c]).type = "DISCONNECT"
  <2>1. HandleDisconnect(c, salt)
    BY <1>4 DEF Serve, Dispatch
  <2>2. /\ Inv' /\ Elsewhere(c) /\ running' /\ toClient' = toClient
        /\ Admitted(c)' = Admitted(c) \ {salt} /\ Count(c)' <= Count(c)
    BY <1>1, <2>1, DisconnectEffect
  <2>3. /\ StepOf(c) /\ Aside(c) /\ Taken(c)
        /\ \A m \in ToSet(toClient'[c]) :
             m \in ToSet(toClient[c]) \/ m.type # "CHALLENGE"
    BY <1>1, <2>2, ServeTyped
  <2> QED BY <1>1, <1>4, <2>2, <2>3 DEF HandlesOther
<1> QED BY <1>3, <1>4

\* A packet arrives where no server runs.
LEMMA UndeliveredCase ==
    ASSUME SessionInv, NEW c \in Address, Undelivered(c)
    PROVE  StepOf(c) /\ Aside(c) /\ Taken(c) /\ NobodyTakes(c)
<1>1. /\ Inv /\ ~running /\ m_players = <<>> /\ toClient' = toClient /\ Apart
      /\ issued' = issued /\ UNCHANGED <<undisturbed, answered, issued>>
      /\ UNCHANGED <<faultVars, undisturbed, answered>>
  BY DEF Undelivered, SessionInv, serverVars, historyVars, Apart
<1>2. HistoryTypes /\ FaultTypes /\ QueueTypes
  BY TypeParts DEF SessionInv
<1>3. /\ ClientTypes' /\ toServer' \in [Address -> Seq(Upstream)]
      /\ FaultTypes' /\ Aside(c) /\ Taken(c)
  BY <1>1, TakenTyped DEF Undelivered
<1>4. HistoryTypes' /\ QueueTypes'
  BY <1>1, <1>2, <1>3 DEF HistoryTypes, QueueTypes
<1>5. /\ Inv' /\ (~running' => m_players' = <<>>)
      /\ \A b : Admitted(b)' = Admitted(b) /\ Count(b)' = Count(b)
      /\ \A b : Count(b) \in Nat
  BY <1>1, <1>2, ServerKept DEF QueueTypes
<1>6. Elsewhere(c)
  BY <1>1, <1>5 DEF Elsewhere
<1>7. FaultsAddUp
  BY <1>2, <1>3 DEF Taken, FaultTypes, FaultsAddUp
<1>8. StepOf(c)
  BY <1>3, <1>4, <1>5, <1>6, <1>7, ServerStepOf
<1>9. Admitted(c) = {} /\ Count(c) = 0
  <2>1. EntriesAt(c) = {}
    BY <1>1 DEF EntriesAt
  <2> QED BY <2>1, FS_EmptySet DEF Count, Admitted
<1> QED BY <1>1, <1>3, <1>5, <1>8, <1>9 DEF NobodyTakes

\* The server handles the packet it took with the handler of its type.
LEMMA ServeCases ==
    ASSUME SessionInv, NEW c \in Address, Serve(c)
    PROVE  /\ StepOf(c) /\ Aside(c) /\ Taken(c)
           /\ HandlesRequest(c) \/ HandlesResponse(c) \/ HandlesOther(c)
<1>1. Head(toServer[c]).type \in {"CONNECTION_REQUEST", "CHALLENGE_RESPONSE",
                                  "CLOCK", "DISCONNECT"}
  BY DEF Serve, Dispatch
<1> QED BY <1>1, RequestCase, ResponseCase, OtherCase

\* The network invents no packets.
LEMMA NothingInvented ==
    ASSUME NEW S, NEW q \in Seq(S),
           NEW r \in Lost(q) \cup Doubled(q) \cup Delayed(q)
    PROVE  r \in Seq(S) /\ \A m \in ToSet(r) : m \in ToSet(q)
<1>1. PICK i \in DOMAIN q :
        \/ r = RemoveAt(q, i)
        \/ r = Append(q, q[i])
        \/ r = Append(RemoveAt(q, i), q[i])
  BY DEF Lost, Doubled, Delayed
<1>2. q[i] \in S /\ q[i] \in ToSet(q)
  <2>1. i \in 1..Len(q)
    BY LenProperties
  <2> QED BY <2>1, ElementOfSeq, ToSetElements
<1> DEFINE rest == RemoveAt(q, i)
<1>3. rest \in Seq(S) /\ \A m \in ToSet(rest) : m \in ToSet(q)
  BY RemoveKeeps
<1>4. \/ r = rest \/ r = Append(q, q[i]) \/ r = Append(rest, q[i])
  BY <1>1
<1> HIDE DEF rest
<1>5. CASE r = rest
  BY <1>3, <1>5
<1>6. CASE r = Append(q, q[i])
  BY <1>2, <1>6, AppendKeeps
<1>7. CASE r = Append(rest, q[i])
  BY <1>2, <1>3, <1>7, AppendKeeps
<1> QED BY <1>4, <1>5, <1>6, <1>7

\* A fault of the network on the way to or from client c.
Disturbed(c) ==
    /\ faults' = faults + 1 /\ issued' = issued
    /\ Admitted(c)' = Admitted(c) /\ Count(c)' = Count(c)
    /\ \A m \in ToSet(toServer'[c]) : m \in ToSet(toServer[c])
    /\ \A m \in ToSet(toClient'[c]) : m \in ToSet(toClient[c])
    /\ \/ strays'
       \/ toServer'[c] \in Lost(toServer[c]) /\ toClient'[c] = toClient[c]
       \/ toServer'[c] = toServer[c] /\ toClient'[c] \in Lost(toClient[c])

\* Loss, duplication and reordering, on either way, are such faults.
LEMMA DisturbCase ==
    ASSUME SessionInv, NEW c \in Address, Lose(c) \/ Duplicate(c) \/ Reorder(c)
    PROVE  StepOf(c) /\ Aside(c) /\ Disturbed(c)
<1> DEFINE Change(q) == Lost(q) \cup Doubled(q) \cup Delayed(q)
<1>1. /\ ClientTypes /\ HistoryTypes /\ FaultTypes /\ QueueTypes
      /\ toServer[c] \in Seq(Upstream) /\ toClient[c] \in Seq(Downstream)
      /\ toClient \in [Address -> Seq(Downstream)]
  BY TypeParts DEF SessionInv, QueueTypes
<1>2. /\ Apart /\ UNCHANGED <<undisturbed, issued, answered>>
      /\ \E kind : Fault(kind) /\ (strays' \/ kind = "lose")
      /\ faults' = faults + 1
  <2>1. Apart /\ UNCHANGED <<undisturbed, issued, answered>>
    BY DEF Lose, Duplicate, Reorder, Disturb, Apart, historyVars
  <2>2. CASE Lose(c)
    BY <2>1, <2>2 DEF Lose, Disturb, Fault
  <2>3. CASE Duplicate(c)
    <3>1. Fault("duplicate")
      BY <2>3 DEF Duplicate, Disturb
    <3>2. strays' /\ faults' = faults + 1
      BY <3>1 DEF Fault
    <3> QED BY <2>1, <3>1, <3>2
  <2>4. CASE Reorder(c)
    <3>1. Fault("reorder")
      BY <2>4 DEF Reorder, Disturb
    <3>2. strays' /\ faults' = faults + 1
      BY <3>1 DEF Fault
    <3> QED BY <2>1, <3>1, <3>2
  <2> QED BY <2>2, <2>3, <2>4
<1>3. FaultTypes' /\ FaultsAddUp
  BY <1>1, <1>2, FaultCounted
<1> DEFINE Upward(queue) == ToServer(c, queue) /\ toClient' = toClient
           Downward(queue) ==
               UNCHANGED clientVars /\ toClient' = Set(toClient, c, queue)
<1>4. \/ \E queue \in Change(toServer[c]) :
           Upward(queue) /\ (strays' \/ queue \in Lost(toServer[c]))
      \/ \E queue \in Change(toClient[c]) :
           Downward(queue) /\ (strays' \/ queue \in Lost(toClient[c]))
  <2>1. CASE Lose(c)
    BY <2>1 DEF Lose, Disturb
  <2>2. ASSUME Fault("duplicate") \/ Fault("reorder") PROVE strays'
    BY <2>2 DEF Fault
  <2>3. CASE Duplicate(c)
    BY <2>2, <2>3 DEF Duplicate, Disturb
  <2>4. CASE Reorder(c)
    BY <2>2, <2>4 DEF Reorder, Disturb
  <2> QED BY <2>1, <2>3, <2>4
<1>5. HistoryTypes' /\ \A d \in Address \ {c} : issued'[d] = issued[d]
  BY <1>1, <1>2 DEF HistoryTypes
<1> HIDE DEF Change
<1> DEFINE Kept ==
      /\ ClientTypes' /\ QueueTypes' /\ Aside(c)
      /\ \A d \in Address \ {c} : toClient'[d] = toClient[d]
      /\ \A m \in ToSet(toServer'[c]) : m \in ToSet(toServer[c])
      /\ \A m \in ToSet(toClient'[c]) : m \in ToSet(toClient[c])
      /\ \/ strays'
         \/ toServer'[c] \in Lost(toServer[c]) /\ toClient'[c] = toClient[c]
         \/ toServer'[c] = toServer[c] /\ toClient'[c] \in Lost(toClient[c])
<1>6. ASSUME NEW queue \in Change(toServer[c]), Upward(queue),
             strays' \/ queue \in Lost(toServer[c])
      PROVE  Kept
  <2>1. queue \in Seq(Upstream) /\ \A m \in ToSet(queue) : m \in ToSet(toServer[c])
    BY <1>1, <1>6, NothingInvented DEF Change
  <2>2. /\ ClientTypes' /\ toServer' \in [Address -> Seq(Upstream)]
        /\ toServer'[c] = queue /\ Aside(c)
    BY <1>2, <1>5, <1>6, <2>1, ToServerTyped
  <2>3. QueueTypes'
    BY <1>1, <1>6, <2>2 DEF QueueTypes
  <2> QED BY <1>6, <2>1, <2>2, <2>3
<1>7. ASSUME NEW queue \in Change(toClient[c]), Downward(queue),
             strays' \/ queue \in Lost(toClient[c])
      PROVE  Kept
  <2>1. queue \in Seq(Downstream) /\ \A m \in ToSet(queue) : m \in ToSet(toClient[c])
    BY <1>1, <1>7, NothingInvented DEF Change
  <2>2. /\ toClient' \in [Address -> Seq(Downstream)] /\ toClient'[c] = queue
        /\ \A d \in Address \ {c} : toClient'[d] = toClient[d]
    BY <1>1, <1>7, <2>1 DEF Set
  <2>3. ClientTypes' /\ toServer' = toServer /\ Aside(c)
    BY <1>1, <1>2, <1>5, <1>7 DEF clientVars, attemptVars, syncVars, ClientTypes, Aside
  <2>4. QueueTypes'
    BY <1>1, <2>2, <2>3 DEF QueueTypes
  <2> QED BY <1>7, <2>1, <2>2, <2>3, <2>4
<1>8. Kept
  BY <1>4, <1>6, <1>7
<1>9. /\ Inv' /\ (~running' => m_players' = <<>>)
      /\ \A b : Admitted(b)' = Admitted(b) /\ Count(b)' = Count(b)
      /\ \A b : Count(b) \in Nat
  <2>1. DOMAIN toClient' = Address
    BY <1>8 DEF QueueTypes
  <2> QED BY <1>2, <2>1, ServerKept DEF SessionInv
<1>10. Elsewhere(c)
  <2>1. \A b : Count(b)' <= Count(b)
    BY <1>9
  <2> QED BY <1>8, <1>9, <2>1 DEF Elsewhere
<1>11. StepOf(c)
  BY <1>3, <1>5, <1>8, <1>9, <1>10, ServerStepOf
<1>12. Disturbed(c)
  BY <1>2, <1>8, <1>9 DEF Disturbed
<1> QED BY <1>8, <1>11, <1>12

\* The good-byes of the server are packets for its clients, each a DISCONNECT.
LEMMA GoodbyesTyped ==
    ASSUME QueueTypes, NEW c \in Address, Inv
    PROVE  /\ toClient[c] \o Goodbyes(c) \in Seq(Downstream)
           /\ \A m \in ToSet(toClient[c] \o Goodbyes(c)) :
                m \in ToSet(toClient[c]) \/ m.type = "DISCONNECT"
<1> DEFINE goodbye == [type |-> "DISCONNECT"]
           sent == QUIT_REPEAT * Cardinality(EntriesAt(c))
           room == SocketCapacity - Len(toClient[c])
           n == IF sent <= room THEN sent ELSE room
<1>1. goodbye \in Downstream /\ goodbye.type = "DISCONNECT"
  BY DEF Downstream
<1>2. Cardinality(EntriesAt(c)) \in Nat /\ toClient[c] \in Seq(Downstream)
  BY PositionsFinite, OfPlayers DEF Inv, GoodPlayers, QueueTypes
<1>3. sent \in Int /\ room \in Int
  BY <1>2, ProtocolAssumption, LenProperties
<1> HIDE DEF sent, room, goodbye
<1>4. n \in Int
  BY <1>3
<1> HIDE DEF n
<1> DEFINE goodbyes == [k \in 1..n |-> goodbye]
<1>5. goodbyes \in Seq(Downstream)
  <2>1. CASE n \in Nat
    BY <1>1, <2>1
  <2>2. CASE n \notin Nat
    <3>1. 1..n = 1..0
      BY <1>4, <2>2
    <3>2. goodbyes = [k \in 1..0 |-> goodbye]
      BY <3>1
    <3>3. [k \in 1..0 |-> goodbye] \in Seq(Downstream)
      <4>1. 0 \in Nat /\ \A k \in 1..0 : goodbye \in Downstream
        BY <1>1
      <4> QED BY <4>1
    <3> QED BY <3>2, <3>3
  <2> QED BY <2>1, <2>2
<1>6. \A m \in ToSet(goodbyes) : m = goodbye
  BY DEF ToSet
<1>7. Goodbyes(c) = goodbyes
  BY DEF Goodbyes, n, sent, room, goodbye
<1> HIDE DEF goodbyes
<1> QED BY <1>1, <1>2, <1>5, <1>6, <1>7, ConcatKeeps

\* The server process ends: its players are gone, its good-byes are under way.
Ended(c) ==
    /\ UNCHANGED <<phase, clientSalt, connectionSalt, m_connectionSalt, toServer>>
    /\ UNCHANGED <<issued, answered>>
    /\ undisturbed'[c] = FALSE /\ faults' = faults + 1
    /\ Admitted(c)' = {} /\ Count(c)' = 0
    /\ strays' \/ toClient' = toClient
    /\ \A m \in ToSet(toClient'[c]) :
        m \in ToSet(toClient[c]) \/ m.type = "DISCONNECT"

\* QuitGame and a crash end the server so.
LEMMA EndsCase ==
    ASSUME SessionInv, ServerEnds
    PROVE  /\ SessionInv' /\ (strays => strays')
           /\ \A c \in Address : Ended(c)
<1>1. /\ ClientTypes /\ HistoryTypes /\ FaultTypes /\ QueueTypes /\ Inv
      /\ toClient \in [Address -> Seq(Downstream)]
  BY TypeParts DEF SessionInv, QueueTypes
<1>2. /\ Inv' /\ ~running' /\ m_players' = <<>>
      /\ \A b : Admitted(b)' = {} /\ Count(b)' = 0
  BY <1>1, EndEffect DEF ServerEnds
<1>3. /\ UNCHANGED <<phase, clientSalt, connectionSalt, m_connectionSalt, toServer>>
      /\ UNCHANGED <<issued, answered>> /\ ClientTypes'
      /\ toServer' \in [Address -> Seq(Upstream)]
  BY <1>1 DEF ServerEnds, clientVars, attemptVars, syncVars, ClientTypes, QueueTypes
<1>4. HistoryTypes' /\ \A c \in Address : undisturbed'[c] = FALSE
  BY <1>1, <1>3 DEF ServerEnds, HistoryTypes
<1>5. FaultTypes' /\ faults' = faults + 1 /\ (strays => strays')
  <2>1. \E kind : Fault(kind)
    BY DEF ServerEnds
  <2> QED BY <1>1, <2>1, FaultCounted DEF Fault, FaultsAddUp
<1>6. /\ toClient' \in [Address -> Seq(Downstream)]
      /\ strays' \/ toClient' = toClient
      /\ \A c \in Address : \A m \in ToSet(toClient'[c]) :
           m \in ToSet(toClient[c]) \/ m.type = "DISCONNECT"
  <2>1. CASE Crash
    BY <1>1, <2>1 DEF Crash
  <2>2. CASE QuitGame /\ Fault("stop")
    <3>1. strays'
      BY <2>2 DEF Fault
    <3>2. toClient' = [c \in Address |-> toClient[c] \o Goodbyes(c)]
      BY <2>2 DEF QuitGame
    <3> QED BY <1>1, <3>1, <3>2, GoodbyesTyped
  <2> QED BY <2>1, <2>2 DEF ServerEnds
<1>7. SessionInv'
  BY <1>2, <1>3, <1>4, <1>5, <1>6, TypeParts DEF SessionInv, QueueTypes,
     SessionTypeOK, ClientTypes, FaultTypes, HistoryTypes
<1>8. ASSUME NEW c \in Address PROVE Ended(c)
  BY <1>2, <1>3, <1>4, <1>5, <1>6 DEF Ended
<1> QED BY <1>5, <1>7, <1>8

\* A new server process changes nothing else, and a stutter nothing at all.
Rests ==
    /\ UNCHANGED <<phase, clientSalt, connectionSalt, m_connectionSalt, toServer>>
    /\ UNCHANGED <<toClient, faults, strays>> /\ UNCHANGED historyVars
    /\ \A c : Admitted(c)' = Admitted(c) /\ Count(c)' = Count(c)

\* StartServer and a stutter.
LEMMA RestsCase ==
    ASSUME SessionInv, ServerStarts \/ UNCHANGED vars
    PROVE  SessionInv' /\ Rests
<1>1. /\ UNCHANGED <<phase, g_running, m_connectionState, clientSalt, connectionSalt>>
      /\ UNCHANGED <<m_connectionSalt, syncRound, clockOffsets, toServer, toClient>>
      /\ UNCHANGED <<faults, strays, undisturbed, issued, answered, m_players>>
      /\ running' \in BOOLEAN /\ (~running' => m_players = <<>>)
  <2>1. CASE ServerStarts
    BY <2>1 DEF ServerStarts, Start, NoFault, clientVars, attemptVars, syncVars,
       faultVars, historyVars
  <2>2. CASE UNCHANGED vars
    BY <2>2 DEF SessionInv, Inv, vars, serverVars, clientVars, attemptVars,
       syncVars, faultVars, historyVars
  <2> QED BY <2>1, <2>2
<1>2. SessionTypeOK'
  BY <1>1 DEF SessionInv, SessionTypeOK
<1>3. Inv'
  BY <1>1 DEF SessionInv, Inv, GoodPlayers
<1>4. \A c : Admitted(c)' = Admitted(c) /\ Count(c)' = Count(c)
  BY <1>1, OfPlayers
<1> QED BY <1>1, <1>2, <1>3, <1>4 DEF SessionInv, Rests, historyVars

-----------------------------------------------------------------------------
(***************************************************************************)
(* The properties of Session.                                              *)
(***************************************************************************)

(* The kinds of steps, from the point of view of the client concerned. *)

\* What a client does is the work of its networking thread or a hint to stop.
ClientKind(c) ==
    /\ Admitted(c)' = Admitted(c) /\ Count(c)' = Count(c)
    /\ \/ Begins(c) \/ Challenged(c) \/ Accepted(c) \/ GivesUp(c)
       \/ PlayStep(c) /\ UNCHANGED historyVars
       \/ Hints(c)
ServerKind(c) ==
    /\ Aside(c) /\ Taken(c)
    /\ \/ HandlesRequest(c) \/ HandlesResponse(c) \/ HandlesOther(c)
       \/ NobodyTakes(c)
NetworkKind(c) == Aside(c) /\ Disturbed(c)

\* Every step concerns one client only, ends the server, or does neither.
LEMMA StepCases ==
    ASSUME SessionInv, [SessionNext]_vars
    PROVE  /\ SessionInv'
           /\ \/ \E c \in Address :
                   /\ StepOf(c)
                   /\ ClientKind(c) \/ ServerKind(c) \/ NetworkKind(c)
              \/ (strays => strays') /\ \A c \in Address : Ended(c)
              \/ Rests
<1>1. ASSUME NEW c \in Address, ClientStep(c) \/ UserStops(c)
      PROVE  StepOf(c) /\ ClientKind(c)
  BY <1>1, ClientCases DEF ClientKind
<1>2. ASSUME NEW c \in Address, Serve(c) \/ Undelivered(c)
      PROVE  StepOf(c) /\ ServerKind(c)
  BY <1>2, ServeCases, UndeliveredCase DEF ServerKind
<1>3. ASSUME NEW c \in Address, Lose(c) \/ Duplicate(c) \/ Reorder(c)
      PROVE  StepOf(c) /\ NetworkKind(c)
  BY <1>3, DisturbCase DEF NetworkKind
<1>4. ASSUME NEW c \in Address, StepOf(c) PROVE SessionInv'
  BY <1>4 DEF StepOf
<1>5. CASE ServerEnds
  BY <1>5, EndsCase
<1>6. CASE ServerStarts \/ UNCHANGED vars
  BY <1>6, RestsCase
<1> QED BY <1>1, <1>2, <1>3, <1>4, <1>5, <1>6 DEF SessionNext

\* It holds at the start.
LEMMA InitSession == SessionInit => SessionInv
<1> SUFFICES ASSUME SessionInit PROVE SessionInv
  OBVIOUS
<1>1. Inv /\ running
  BY InitInv DEF SessionInit, ServerInit
<1>2. ClientTypes
  BY ClientAssumption DEF SessionInit, ClientInit, ClientTypes, Phases
<1>3. FaultTypes
  <2>1. faults \in 0..MaxFaults
    BY SessionAssumption DEF SessionInit
  <2>2. strays \in BOOLEAN
    BY DEF SessionInit
  <2> QED BY <2>1, <2>2 DEF FaultTypes
<1>4. HistoryTypes
  BY DEF SessionInit, HistoryTypes
<1>5. QueueTypes
  BY DEF SessionInit, ClientInit, ServerInit, QueueTypes
<1> QED BY <1>1, <1>2, <1>3, <1>4, <1>5, TypeParts DEF SessionInv

\* And ever after.
LEMMA SessionInvariance == SessionSpec => []SessionInv
<1>1. SessionInv /\ [SessionNext]_vars => SessionInv'
  BY StepCases
<1> QED BY InitSession, <1>1, PTL DEF SessionSpec

\* The variables of the clients and the network keep their types, and every
\* packet under way is one that its receiver can read.
THEOREM SessionTypeCorrect == SessionSpec => []SessionTypeOK
<1>1. SessionInv => SessionTypeOK
  BY DEF SessionInv
<1> QED BY SessionInvariance, <1>1, PTL

\* The session keeps what the server promises on its own: in a session too
\* only the oldest entry of an address is ever CONNECTED.
THEOREM SessionOldestConnected == SessionSpec => []OnlyOldestConnected
<1>1. SessionInv => OnlyOldestConnected
  BY InvGives DEF SessionInv
<1> QED BY SessionInvariance, <1>1, PTL

-----------------------------------------------------------------------------
(* Salts: where those come from that the two ends use. *)

\* A response names an answered salt, and a CONNECTED entry has one; what a
\* client will accept as its challenge, answers and plays under was issued.
SaltAt(c) ==
    /\ \A m \in ToSet(toServer[c]) :
        m.type = "CHALLENGE_RESPONSE" => m.salt \in answered[c]
    /\ Admitted(c) \subseteq answered[c]
    /\ phase[c] = "await_challenge" =>
        \A m \in ToSet(toClient[c]) :
            IsMyChallenge(c, m) => <<clientSalt[c], m.serverSalt>> \in issued[c]
    /\ phase[c] = "await_accepted" => connectionSalt[c] \in issued[c]
    /\ InGame(c) => m_connectionSalt[c] \in issued[c]

\* The salts in use and the open ones are those of the packets and entries.
LEMMA SaltsOf ==
    ASSUME SessionInv, NEW c \in Address
    PROVE  /\ \A m \in ToSet(toClient[c]) :
                m.type = "CHALLENGE" => m.clientSalt \in ClientSaltsInUse(c)
           /\ \A m \in ToSet(toServer[c]) :
                m.type = "CHALLENGE_RESPONSE" => m.salt \in OpenSalts(c)
           /\ Admitted(c) \subseteq OpenSalts(c)
BY DEF ToSet, ClientSaltsInUse, OpenSalts, Admitted

\* A fresh salt: no challenge under way is for it.
LEMMA SaltBegins ==
    ASSUME SessionInv, NEW c \in Address, SaltAt(c), ClientKind(c), Begins(c)
    PROVE  SaltAt(c)'
<1>1. ASSUME NEW m \in ToSet(toServer'[c]), m.type = "CHALLENGE_RESPONSE"
      PROVE  m.salt \in answered'[c]
  BY <1>1, SaltsOf DEF SaltAt, Begins
<1>2. Admitted(c)' \subseteq answered'[c]
  BY SaltsOf DEF SaltAt, Begins, ClientKind
<1>3. ASSUME NEW m \in ToSet(toClient'[c]), IsMyChallenge(c, m)'
      PROVE  FALSE
  BY <1>3, SaltsOf DEF Begins, IsMyChallenge
<1> QED BY <1>1, <1>2, <1>3 DEF SaltAt, Begins, InGame

\* The salt that the client answers with was issued by the challenge.
LEMMA SaltChallenged ==
    ASSUME SessionInv, NEW c \in Address, SaltAt(c), ClientKind(c), Challenged(c)
    PROVE  SaltAt(c)'
<1>1. Head(toClient[c]) \in ToSet(toClient[c])
  BY TailKeeps, TypeParts DEF SessionInv, QueueTypes, Challenged
<1>2. connectionSalt'[c] \in issued'[c]
  BY <1>1 DEF SaltAt, Challenged
<1> QED BY <1>2 DEF SaltAt, Challenged, ClientKind, InGame

\* What a client does keeps its salts.
LEMMA SaltClient ==
    ASSUME SessionInv, NEW c \in Address, SaltAt(c), ClientKind(c)
    PROVE  SaltAt(c)'
<1>1. CASE Begins(c)
  BY <1>1, SaltBegins
<1>2. CASE Challenged(c)
  BY <1>2, SaltChallenged
<1>3. CASE Accepted(c)
  BY <1>3 DEF SaltAt, ClientKind, Accepted, InGame, historyVars
<1>4. CASE GivesUp(c)
  BY <1>4 DEF SaltAt, ClientKind, GivesUp, InGame, historyVars
<1>5. CASE PlayStep(c) /\ UNCHANGED historyVars
  BY <1>5 DEF SaltAt, ClientKind, PlayStep, InGame, historyVars
<1>6. CASE Hints(c)
  BY <1>6 DEF SaltAt, ClientKind, Hints, InGame, historyVars, IsMyChallenge
<1> QED BY <1>1, <1>2, <1>3, <1>4, <1>5, <1>6 DEF ClientKind

\* So does what the server does for it: a handler issues a salt, or compares one.
LEMMA SaltServer ==
    ASSUME SessionInv, NEW c \in Address, SaltAt(c), ServerKind(c)
    PROVE  SaltAt(c)'
<1>1. CASE HandlesRequest(c)
  BY <1>1 DEF SaltAt, ServerKind, Aside, Taken, HandlesRequest, InGame, IsMyChallenge
<1>2. CASE HandlesResponse(c)
  BY <1>2 DEF SaltAt, ServerKind, Aside, Taken, HandlesResponse, InGame, IsMyChallenge
<1>3. CASE HandlesOther(c)
  BY <1>3 DEF SaltAt, ServerKind, Aside, Taken, HandlesOther, InGame, IsMyChallenge
<1>4. CASE NobodyTakes(c)
  BY <1>4 DEF SaltAt, ServerKind, Aside, Taken, NobodyTakes, InGame, IsMyChallenge
<1> QED BY <1>1, <1>2, <1>3, <1>4 DEF ServerKind

\* The network invents no salts, and a server that ends only forgets them.
LEMMA SaltElse ==
    ASSUME NEW c \in Address, SaltAt(c),
           NetworkKind(c) \/ Untouched(c) \/ Ended(c) \/ Rests
    PROVE  SaltAt(c)'
<1> USE DEF SaltAt, InGame, IsMyChallenge
<1>1. CASE NetworkKind(c)
  BY <1>1 DEF NetworkKind, Aside, Disturbed
<1>2. CASE Untouched(c)
  BY <1>2 DEF Untouched
<1>3. CASE Ended(c)
  BY <1>3 DEF Ended
<1>4. CASE Rests
  BY <1>4 DEF Rests, historyVars
<1> QED BY <1>1, <1>2, <1>3, <1>4

\* It holds at the start.
LEMMA SaltInit == SessionInit => \A c \in Address : SaltAt(c)
BY DEF SessionInit, ServerInit, ClientInit, SaltAt, Admitted, EntriesAt, InGame, ToSet

\* And ever after, at every client.
LEMMA SaltInvariance == SessionSpec => [](\A c \in Address : SaltAt(c))
<1>1. ASSUME SessionInv, [SessionNext]_vars, \A c \in Address : SaltAt(c)
      PROVE  \A c \in Address : SaltAt(c)'
  <2>1. ASSUME NEW c \in Address, StepOf(c),
               ClientKind(c) \/ ServerKind(c) \/ NetworkKind(c),
               NEW d \in Address
        PROVE  SaltAt(d)'
    <3>1. CASE d = c
      BY <1>1, <2>1, <3>1, SaltClient, SaltServer, SaltElse
    <3>2. CASE d # c
      <4>1. Untouched(d)
        BY <2>1, <3>2 DEF StepOf
      <4> QED BY <1>1, <4>1, SaltElse
    <3> QED BY <3>1, <3>2
  <2>2. ASSUME NEW d \in Address, Ended(d) \/ Rests
        PROVE  SaltAt(d)'
    BY <1>1, <2>2, SaltElse
  <2> QED BY <1>1, <2>1, <2>2, StepCases
<1>2. SessionInv /\ (\A c \in Address : SaltAt(c)) /\ [SessionNext]_vars
        => (\A c \in Address : SaltAt(c))'
  BY <1>1
<1> QED BY SessionInvariance, SaltInit, <1>2, PTL DEF SessionSpec

\* Whatever the network does, a client only plays under salts that the server
\* has issued for the salt the client drew in this attempt.
THEOREM OnlyIssuedSalts == SessionSpec => []SaltsWereIssued
<1>1. (\A c \in Address : SaltAt(c)) => SaltsWereIssued
  BY DEF SaltAt, SaltsWereIssued
<1> QED BY SaltInvariance, <1>1, PTL

\* Whatever the network does, the server only connects a client that answered
\* the challenge of that entry.
THEOREM OnlyAnsweredChallenges == SessionSpec => []ConnectedHasAnswered
<1>1. (\A c \in Address : SaltAt(c)) => ConnectedHasAnswered
  BY DEF SaltAt, ConnectedHasAnswered
<1> QED BY SaltInvariance, <1>1, PTL

-----------------------------------------------------------------------------
(* Conversations: without strays, what is under way between a client and   *)
(* the server is the one packet that its phase asks for, or nothing.       *)

\* Nothing is under way.
Idle(c) == toServer[c] = <<>> /\ toClient[c] = <<>>
\* The request, its challenge,
Asked(c) ==
    /\ toServer[c] = <<[type |-> "CONNECTION_REQUEST", clientSalt |-> clientSalt[c]]>>
    /\ toClient[c] = <<>>
IsChallenged(c) ==
    /\ toServer[c] = <<>>
    /\ \E salt \in ServerSalt :
        toClient[c] = <<[type |-> "CHALLENGE", serverSalt |-> salt,
                         clientSalt |-> clientSalt[c]]>>
\* the response, and the two answers to it.
Responded(c) ==
    /\ toServer[c] = <<[type |-> "CHALLENGE_RESPONSE", salt |-> connectionSalt[c]]>>
    /\ toClient[c] = <<>>
IsDenied(c) ==
    /\ toServer[c] = <<>>
    /\ toClient[c] = <<[type |-> "CONNECTION_DENIED"]>>
LetIn(c) ==
    /\ toServer[c] = <<>>
    /\ \E id \in 1..MAX_PLAYERS - 1 :
        toClient[c] = <<[type |-> "CONNECTION_ACCEPTED", playerID |-> id]>>
    /\ undisturbed[c] => connectionSalt[c] \in Admitted(c)

\* An entry that no attempt can use any more was paid for with a fault.
ConvAt(c) ==
    /\ Count(c) <= 1 + faults
    /\ phase[c] = "establish" => Idle(c) /\ Count(c) <= faults
    /\ phase[c] = "await_challenge" =>
        \/ (Idle(c) \/ Asked(c)) /\ Count(c) <= faults
        \/ IsChallenged(c)
    /\ phase[c] = "await_accepted" =>
        \/ (Idle(c) \/ IsDenied(c)) /\ Count(c) <= faults
        \/ Responded(c) \/ LetIn(c)
    /\ InGame(c) =>
        /\ \A m \in ToSet(toServer[c]) : m.type = "CLOCK"
        /\ undisturbed[c] => m_connectionSalt[c] \in Admitted(c)
    /\ phase[c] = "stopped" =>
        \A m \in ToSet(toServer[c]) : m.type \in {"CLOCK", "DISCONNECT"}

\* Entries and faults are counted with natural numbers.
LEMMA Counting ==
    ASSUME SessionInv, NEW c
    PROVE  Count(c) \in Nat /\ faults \in Nat
<1>1. faults \in Nat
  BY SessionAssumption, TypeParts DEF SessionInv, FaultTypes
<1>2. Count(c) \in Nat
  BY PositionsFinite, OfPlayers DEF SessionInv, Inv, GoodPlayers
<1> QED BY <1>1, <1>2

\* The next values too.
LEMMA CountingOn ==
    ASSUME SessionInv', NEW c
    PROVE  Count(c)' \in Nat /\ faults' \in Nat
<1>1. faults' \in 0..MaxFaults
  BY DEF SessionInv, SessionTypeOK
<1>2. faults' \in Nat
  BY <1>1, SessionAssumption
<1>3. m_players' \in Seq(Player)
  BY DEF SessionInv, Inv, GoodPlayers
<1>4. Count(c)' \in Nat
  BY <1>3, PositionsFinite, OfPlayers
<1> QED BY <1>2, <1>4

\* What a client does carries the conversation on, or starts a new one.
LEMMA ConvClient ==
    ASSUME SessionInv, NEW c \in Address, StepOf(c), ClientKind(c),
           ~strays', ConvAt(c)
    PROVE  ConvAt(c)'
<1>1. /\ Count(c) \in Nat /\ faults \in Nat /\ faults' \in Nat
      /\ faults <= faults' /\ Count(c)' = Count(c)
      /\ Admitted(c)' = Admitted(c)
  BY Counting, CountingOn DEF StepOf, FaultsAddUp, ClientKind
<1>2. Count(c)' <= 1 + faults'
  BY <1>1 DEF ConvAt
<1>3. CASE Begins(c)
  <2>1. Idle(c) /\ Count(c)' <= faults'
    BY <1>1, <1>3 DEF ConvAt, Begins
  <2>2. Asked(c)'
    BY <1>3, <2>1, Single DEF Begins, Idle, Asked
  <2> QED BY <1>2, <1>3, <2>1, <2>2 DEF ConvAt, Begins, InGame
<1>4. CASE Challenged(c)
  <2>1. IsChallenged(c)
    BY <1>4 DEF ConvAt, Challenged, Idle, Asked
  <2>2. Responded(c)'
    BY <1>4, <2>1, Single DEF Challenged, IsChallenged, Responded
  <2> QED BY <1>2, <1>4, <2>2 DEF ConvAt, Challenged, InGame
<1>5. CASE Accepted(c)
  <2>1. LetIn(c)
    BY <1>5, Single DEF ConvAt, Accepted, Idle, Responded, IsDenied, IsAccepted
  <2>2. ToSet(toServer'[c]) = {}
    BY <1>5, <2>1, Single DEF Accepted, LetIn
  <2>3. undisturbed'[c] => m_connectionSalt'[c] \in Admitted(c)'
    BY <1>1, <1>5, <2>1 DEF Accepted, LetIn, historyVars
  <2> QED BY <1>2, <1>5, <2>2, <2>3 DEF ConvAt, Accepted, InGame
<1>6. CASE GivesUp(c)
  <2>1. Idle(c)' /\ Count(c)' <= faults'
    <3>1. CASE phase[c] = "establish" /\ toClient' = toClient
      BY <1>1, <1>6, <3>1 DEF ConvAt, GivesUp, Idle
    <3>2. CASE /\ phase[c] \in {"await_challenge", "await_accepted"}
               /\ toClient[c] = <<>> /\ toClient' = toClient
               /\ toServer[c] = <<>> \/ strays'
      <4>1. Idle(c) /\ Count(c) <= faults
        BY <3>2 DEF ConvAt, Idle, Asked, IsChallenged, Responded, IsDenied, LetIn
      <4> QED BY <1>1, <1>6, <3>2, <4>1 DEF GivesUp, Idle
    <3>3. CASE /\ phase[c] = "await_challenge" /\ toClient[c] # <<>>
               /\ toClient'[c] = Tail(toClient[c])
               /\ IsMyChallenge(c, Head(toClient[c])) => faults' = faults + 1
      <4>1. IsChallenged(c)
        BY <3>3 DEF ConvAt, Idle, Asked
      <4>2. toClient'[c] = <<>> /\ IsMyChallenge(c, Head(toClient[c]))
        BY <3>3, <4>1, Single DEF IsChallenged, IsMyChallenge
      <4>3. Idle(c)'
        BY <1>6, <4>1, <4>2 DEF GivesUp, Idle, IsChallenged
      <4>4. faults' = faults + 1 /\ Count(c) <= 1 + faults
        BY <3>3, <4>2 DEF ConvAt
      <4> QED BY <1>1, <4>3, <4>4
    <3>4. CASE /\ phase[c] = "await_accepted" /\ toClient[c] # <<>>
               /\ toClient'[c] = Tail(toClient[c])
               /\ ~IsAccepted(Head(toClient[c]))
      <4>1. IsDenied(c) /\ Count(c) <= faults
        <5>1. ASSUME LetIn(c) PROVE FALSE
          <6>1. PICK id \in 1..MAX_PLAYERS - 1 :
                  toClient[c] = <<[type |-> "CONNECTION_ACCEPTED", playerID |-> id]>>
            BY <5>1 DEF LetIn
          <6> DEFINE accepted == [type |-> "CONNECTION_ACCEPTED", playerID |-> id]
          <6>2. accepted.type = "CONNECTION_ACCEPTED"
            OBVIOUS
          <6> HIDE DEF accepted
          <6>3. Head(toClient[c]) = accepted
            BY <6>1, Single DEF accepted
          <6> QED BY <3>4, <6>2, <6>3 DEF IsAccepted
        <5>2. ~Idle(c) /\ ~Responded(c)
          BY <3>4 DEF Idle, Responded
        <5> QED BY <3>4, <5>1, <5>2 DEF ConvAt
      <4>2. Idle(c)'
        BY <1>6, <3>4, <4>1, Single DEF GivesUp, Idle, IsDenied
      <4> QED BY <1>1, <4>1, <4>2
    <3> QED BY <1>6, <3>1, <3>2, <3>3, <3>4 DEF GivesUp
  <2>2. ToSet(toServer'[c]) = {}
    BY <2>1, Single DEF Idle
  <2> QED BY <1>2, <1>6, <2>1, <2>2 DEF ConvAt, GivesUp, InGame
<1>7. CASE PlayStep(c) /\ UNCHANGED historyVars
  <2>1. /\ \A m \in ToSet(toServer[c]) : m.type = "CLOCK"
        /\ undisturbed[c] => m_connectionSalt[c] \in Admitted(c)
    BY <1>7 DEF ConvAt, PlayStep
  <2>2. /\ InGame(c)' \/ phase'[c] = "stopped"
        /\ InGame(c)' => phase'[c] # "stopped"
    BY <1>7 DEF PlayStep, InGame
  <2>3. /\ phase'[c] # "stopped" => \A m \in ToSet(toServer'[c]) : m.type = "CLOCK"
        /\ \A m \in ToSet(toServer'[c]) : m.type \in {"CLOCK", "DISCONNECT"}
    BY <1>7, <2>1 DEF PlayStep
  <2>4. undisturbed'[c] => m_connectionSalt'[c] \in Admitted(c)'
    BY <1>1, <1>7, <2>1 DEF PlayStep, historyVars
  <2> QED BY <1>2, <2>2, <2>3, <2>4 DEF ConvAt, InGame
<1>8. CASE Hints(c)
  <2>1. Count(c) <= faults => Count(c)' <= faults'
    BY <1>1
  <2>2. CASE InGame(c)
    BY <1>1, <1>2, <1>8, <2>2 DEF ConvAt, Hints, InGame, historyVars
  <2>3. CASE ~InGame(c)
    <3>1. toClient' = toClient
      BY <1>8, <2>3 DEF Hints
    <3>2. /\ Idle(c)' <=> Idle(c)
          /\ Asked(c)' <=> Asked(c)
          /\ IsChallenged(c)' <=> IsChallenged(c)
          /\ IsDenied(c)' <=> IsDenied(c)
          /\ Responded(c)' <=> Responded(c)
          /\ LetIn(c)' <=> LetIn(c)
      BY <1>1, <1>8, <3>1 DEF Hints, historyVars, Idle, Asked, IsChallenged,
         IsDenied, Responded, LetIn
    <3> QED BY <1>2, <1>8, <2>1, <2>3, <3>2 DEF ConvAt, Hints, InGame
  <2> QED BY <2>2, <2>3
<1> QED BY <1>3, <1>4, <1>5, <1>6, <1>7, <1>8 DEF ClientKind

\* The packet that the server takes is the one its client waits with.
TakenInPhase(c, packet) ==
    /\ phase[c] # "establish"
    /\ phase[c] = "await_challenge" =>
        /\ Asked(c) /\ Count(c) <= faults /\ packet.type = "CONNECTION_REQUEST"
        /\ packet.clientSalt = clientSalt[c]
    /\ phase[c] = "await_accepted" =>
        /\ Responded(c) /\ packet.type = "CHALLENGE_RESPONSE"
        /\ packet.salt = connectionSalt[c]
    /\ InGame(c) => packet.type = "CLOCK"
    /\ phase[c] = "stopped" => packet.type \in {"CLOCK", "DISCONNECT"}

\* It has no other packet to take.
LEMMA TakenPacket ==
    ASSUME NEW c \in Address, Taken(c), ConvAt(c)
    PROVE  TakenInPhase(c, Head(toServer[c]))
<1> DEFINE packet == Head(toServer[c])
<1>1. /\ toServer[c] # <<>> /\ packet \in ToSet(toServer[c])
  BY DEF Taken
<1> HIDE DEF packet
<1>2. phase[c] # "establish"
  BY <1>1 DEF ConvAt, Idle
<1>3. phase[c] = "await_challenge" =>
        /\ Asked(c) /\ Count(c) <= faults /\ packet.type = "CONNECTION_REQUEST"
        /\ packet.clientSalt = clientSalt[c]
  BY <1>1, Single DEF ConvAt, Idle, Asked, IsChallenged, packet
<1>4. phase[c] = "await_accepted" =>
        /\ Responded(c) /\ packet.type = "CHALLENGE_RESPONSE"
        /\ packet.salt = connectionSalt[c]
  BY <1>1, Single DEF ConvAt, Idle, IsDenied, LetIn, Responded, packet
<1>5. InGame(c) => packet.type = "CLOCK"
  BY <1>1 DEF ConvAt
<1>6. phase[c] = "stopped" => packet.type \in {"CLOCK", "DISCONNECT"}
  BY <1>1 DEF ConvAt
<1> QED BY <1>2, <1>3, <1>4, <1>5, <1>6 DEF TakenInPhase, packet

\* What one taken packet leaves behind.
LEMMA ConvServer ==
    ASSUME SessionInv, NEW c \in Address, StepOf(c), ServerKind(c),
           ~strays', ConvAt(c)
    PROVE  ConvAt(c)'
<1> DEFINE packet == Head(toServer[c])
<1>1. /\ Count(c) \in Nat /\ Count(c)' \in Nat /\ faults \in Nat
      /\ faults' = faults
  BY Counting, CountingOn DEF StepOf, ServerKind, Taken
<1>2. /\ toServer[c] # <<>> /\ toServer'[c] = Tail(toServer[c])
      /\ packet \in ToSet(toServer[c])
      /\ \A m \in ToSet(toServer'[c]) : m \in ToSet(toServer[c])
  BY DEF ServerKind, Taken
<1>3. UNCHANGED <<phase, clientSalt, connectionSalt, m_connectionSalt, undisturbed>>
  BY DEF ServerKind, Aside
<1> HIDE DEF packet
<1>4. phase[c] # "establish"
  BY TakenPacket DEF ServerKind, TakenInPhase
<1>5. phase[c] = "await_challenge" =>
        /\ Asked(c) /\ Count(c) <= faults /\ packet.type = "CONNECTION_REQUEST"
        /\ packet.clientSalt = clientSalt[c]
  BY TakenPacket DEF ServerKind, TakenInPhase, packet
<1>6. phase[c] = "await_accepted" =>
        /\ Responded(c) /\ packet.type = "CHALLENGE_RESPONSE"
        /\ packet.salt = connectionSalt[c]
  BY TakenPacket DEF ServerKind, TakenInPhase, packet
<1>7. InGame(c) => packet.type = "CLOCK"
  BY TakenPacket DEF ServerKind, TakenInPhase, packet
<1>8. phase[c] = "stopped" => packet.type \in {"CLOCK", "DISCONNECT"}
  BY TakenPacket DEF ServerKind, TakenInPhase, packet
<1>9. phase[c] \in Phases
  BY DEF SessionInv, SessionTypeOK
<1>10. CASE HandlesRequest(c)
  <2>1. packet.type = "CONNECTION_REQUEST"
    BY <1>10 DEF HandlesRequest, packet
  <2>2. phase[c] = "await_challenge"
    BY <2>1, <1>4, <1>6, <1>7, <1>8, <1>9 DEF Phases, InGame
  <2>3. PICK salt \in ServerSalt :
          toClient'[c] = Enqueue(toClient[c],
                [type |-> "CHALLENGE", serverSalt |-> salt,
                 clientSalt |-> packet.clientSalt])
    BY <1>10 DEF HandlesRequest, packet
  <2>4. toServer'[c] = <<>>
    BY <1>2, <1>5, <2>2, Single DEF Asked
  <2>5. toClient'[c] = <<[type |-> "CHALLENGE", serverSalt |-> salt,
                          clientSalt |-> clientSalt'[c]]>>
    BY <1>3, <1>5, <2>2, <2>3, EnqueueFirst DEF Asked
  <2>6. IsChallenged(c)'
    BY <2>4, <2>5 DEF IsChallenged
  <2>7. Count(c)' <= 1 + faults'
    BY <1>1, <1>5, <1>10, <2>2 DEF HandlesRequest
  <2> QED BY <1>3, <2>2, <2>6, <2>7 DEF ConvAt, InGame
<1>11. CASE HandlesResponse(c)
  <2>1. packet.type = "CHALLENGE_RESPONSE"
    BY <1>11 DEF HandlesResponse, packet
  <2>2. phase[c] = "await_accepted"
    BY <2>1, <1>4, <1>5, <1>7, <1>8, <1>9 DEF Phases, InGame
  <2>3. toServer'[c] = <<>> /\ toClient[c] = <<>>
    BY <1>2, <1>6, <2>2, Single DEF Responded
  <2>4. Count(c) <= 1 + faults
    BY DEF ConvAt
  <2>5. ASSUME Admitted(c)' = {packet.salt}, Count(c)' = Count(c),
               NEW id \in 1..MAX_PLAYERS - 1,
               toClient'[c] = Enqueue(toClient[c],
                    [type |-> "CONNECTION_ACCEPTED", playerID |-> id])
        PROVE  ConvAt(c)'
    <3>1. toClient'[c] = <<[type |-> "CONNECTION_ACCEPTED", playerID |-> id]>>
      BY <2>3, <2>5, EnqueueFirst
    <3>2. connectionSalt'[c] \in Admitted(c)'
      BY <1>3, <1>6, <2>2, <2>5
    <3>3. LetIn(c)'
      BY <2>3, <3>1, <3>2 DEF LetIn
    <3>4. Count(c)' <= 1 + faults'
      BY <1>1, <2>4, <2>5
    <3> QED BY <1>3, <2>2, <3>3, <3>4 DEF ConvAt, InGame
  <2>6. CASE /\ Admitted(c)' = {} /\ Count(c)' <= Count(c) - 1
             /\ toClient'[c] = Enqueue(toClient[c], [type |-> "CONNECTION_DENIED"])
    <3>1. IsDenied(c)'
      BY <2>3, <2>6, EnqueueFirst DEF IsDenied
    <3>2. Count(c)' <= faults' /\ Count(c)' <= 1 + faults'
      BY <1>1, <2>4, <2>6
    <3> QED BY <1>3, <2>2, <3>1, <3>2 DEF ConvAt, InGame
  <2>7. CASE /\ Count(c) = 0 /\ Count(c)' = 0
             /\ toClient'[c] = toClient[c]
    <3>1. Idle(c)'
      BY <2>3, <2>7 DEF Idle
    <3>2. Count(c)' <= faults' /\ Count(c)' <= 1 + faults'
      BY <1>1, <2>7
    <3> QED BY <1>3, <2>2, <3>1, <3>2 DEF ConvAt, InGame
  <2> QED BY <1>11, <2>5, <2>6, <2>7 DEF HandlesResponse, packet
<1>12. CASE HandlesOther(c)
  <2>1. Count(c)' <= Count(c)
    BY <1>12 DEF HandlesOther
  <2>2. Count(c)' <= 1 + faults'
    BY <1>1, <2>1 DEF ConvAt
  <2>3. packet.type \in {"CLOCK", "DISCONNECT"}
    BY <1>12 DEF HandlesOther, packet
  <2>4. InGame(c) \/ phase[c] = "stopped"
    BY <2>3, <1>4, <1>5, <1>6, <1>9 DEF Phases, InGame
  <2>5. InGame(c) => Admitted(c)' = Admitted(c)
    BY <1>7, <1>12 DEF HandlesOther, packet
  <2> QED BY <1>2, <1>3, <2>2, <2>4, <2>5 DEF ConvAt, InGame
<1>13. CASE NobodyTakes(c)
  <2>1. /\ Count(c)' <= faults' /\ Count(c)' <= 1 + faults'
        /\ Admitted(c)' = Admitted(c) /\ toClient' = toClient
    BY <1>1, <1>13 DEF NobodyTakes
  <2>2. phase[c] \in {"await_challenge", "await_accepted"} => Idle(c)'
    BY <1>2, <1>5, <1>6, <2>1, Single DEF Asked, Responded, Idle
  <2> QED BY <1>2, <1>3, <1>4, <2>1, <2>2 DEF ConvAt, InGame
<1> QED BY <1>10, <1>11, <1>12, <1>13 DEF ServerKind

\* A fault that leaves no stray packets takes the one there is, and is counted.
LEMMA ConvNetwork ==
    ASSUME SessionInv, NEW c \in Address, StepOf(c), NetworkKind(c),
           ~strays', ConvAt(c)
    PROVE  ConvAt(c)'
<1>1. /\ Count(c) \in Nat /\ faults \in Nat /\ faults' = faults + 1
      /\ Count(c)' = Count(c) /\ Admitted(c)' = Admitted(c)
  BY Counting DEF NetworkKind, Disturbed
<1>2. Count(c)' <= faults' /\ Count(c)' <= 1 + faults'
  BY <1>1 DEF ConvAt
<1>3. UNCHANGED <<phase, clientSalt, connectionSalt, m_connectionSalt, undisturbed>>
  BY DEF NetworkKind, Aside
<1>4. /\ \A m \in ToSet(toServer'[c]) : m \in ToSet(toServer[c])
      /\ \/ toServer'[c] \in Lost(toServer[c]) /\ toClient'[c] = toClient[c]
         \/ toServer'[c] = toServer[c] /\ toClient'[c] \in Lost(toClient[c])
  BY DEF NetworkKind, Disturbed
<1>5. ~Idle(c)
  BY <1>4, Single DEF Idle
<1>6. ASSUME Asked(c) \/ IsChallenged(c) \/ Responded(c) \/ IsDenied(c) \/ LetIn(c)
      PROVE  Idle(c)'
  <2>1. CASE Asked(c)
    BY <1>4, <2>1, Single DEF Asked, Idle
  <2>2. CASE Responded(c)
    BY <1>4, <2>2, Single DEF Responded, Idle
  <2>3. CASE IsDenied(c)
    BY <1>4, <2>3, Single DEF IsDenied, Idle
  <2>4. CASE IsChallenged(c)
    BY <1>4, <2>4, Single DEF IsChallenged, Idle
  <2>5. CASE LetIn(c)
    BY <1>4, <2>5, Single DEF LetIn, Idle
  <2> QED BY <1>6, <2>1, <2>2, <2>3, <2>4, <2>5
<1> QED BY <1>1, <1>2, <1>3, <1>4, <1>5, <1>6 DEF ConvAt, InGame

\* Other clients, a server that starts, and one that ends without a packet under way.
LEMMA ConvElse ==
    ASSUME SessionInv, SessionInv', NEW c \in Address, ~strays', ConvAt(c),
           Ended(c) \/ Rests \/ (Untouched(c) /\ faults <= faults')
    PROVE  ConvAt(c)'
<1>1. /\ Count(c) \in Nat /\ Count(c)' \in Nat
      /\ faults \in Nat /\ faults' \in Nat
  BY Counting, CountingOn
<1>2. /\ UNCHANGED <<phase[c], clientSalt[c], connectionSalt[c],
                     m_connectionSalt[c], toServer[c], toClient[c]>>
      /\ Count(c)' <= Count(c) /\ faults <= faults'
      /\ undisturbed'[c] => undisturbed[c] /\ Admitted(c)' = Admitted(c)
  <2>1. CASE Untouched(c) /\ faults <= faults'
    BY <2>1 DEF Untouched
  <2>2. CASE Rests
    BY <1>1, <2>2 DEF Rests, historyVars
  <2>3. CASE Ended(c)
    BY <1>1, <2>3 DEF Ended
  <2> QED BY <2>1, <2>2, <2>3
<1>3. /\ Count(c)' <= 1 + faults'
      /\ Count(c) <= faults => Count(c)' <= faults'
  BY <1>1, <1>2 DEF ConvAt
<1>4. /\ Idle(c) => Idle(c)'
      /\ Asked(c) => Asked(c)'
      /\ IsChallenged(c) => IsChallenged(c)'
      /\ IsDenied(c) => IsDenied(c)'
      /\ Responded(c) => Responded(c)'
      /\ LetIn(c) => LetIn(c)'
  BY <1>2 DEF Idle, Asked, IsChallenged, IsDenied, Responded, LetIn
<1> QED BY <1>2, <1>3, <1>4 DEF ConvAt, InGame

\* It holds at the start.
LEMMA ConvInit == SessionInit => \A c \in Address : ConvAt(c)
<1> SUFFICES ASSUME SessionInit, NEW c \in Address PROVE ConvAt(c)
  OBVIOUS
<1>1. phase[c] = "establish" /\ Idle(c)
  BY DEF SessionInit, ClientInit, ServerInit, Idle
<1>2. faults = 0 /\ Count(c) = 0
  <2>1. EntriesAt(c) = {}
    BY DEF SessionInit, ServerInit, EntriesAt
  <2> QED BY <2>1, FS_EmptySet DEF SessionInit, Count
<1>3. Count(c) <= faults /\ Count(c) <= 1 + faults
  BY <1>2
<1> QED BY <1>1, <1>3 DEF ConvAt, InGame

\* It is promised until a packet goes astray.
Conversations == ~strays => \A c \in Address : ConvAt(c)

\* And ever after.
LEMMA ConvInvariance == SessionSpec => []Conversations
<1>1. ASSUME SessionInv, [SessionNext]_vars, Conversations, ~strays',
             NEW d \in Address
      PROVE  ConvAt(d)'
  <2>1. ASSUME NEW c \in Address, StepOf(c),
               ClientKind(c) \/ ServerKind(c) \/ NetworkKind(c)
        PROVE  ConvAt(d)'
    <3>1. ConvAt(d) /\ SessionInv' /\ faults <= faults'
      BY <1>1, <2>1 DEF StepOf, FaultsAddUp, Conversations
    <3>2. CASE d = c
      BY <1>1, <2>1, <3>1, <3>2, ConvClient, ConvServer, ConvNetwork
    <3>3. CASE d # c
      <4>1. Untouched(d)
        BY <2>1, <3>3 DEF StepOf
      <4> QED BY <1>1, <3>1, <4>1, ConvElse
    <3> QED BY <3>2, <3>3
  <2>2. CASE (strays => strays') /\ Ended(d)
    BY <1>1, <2>2, StepCases, ConvElse DEF Conversations
  <2>3. CASE Rests
    BY <1>1, <2>3, StepCases, ConvElse DEF Conversations, Rests
  <2> QED BY <1>1, <2>1, <2>2, <2>3, StepCases
<1>2. SessionInv /\ Conversations /\ [SessionNext]_vars => Conversations'
  BY <1>1 DEF Conversations
<1>3. SessionInit => Conversations
  BY ConvInit DEF Conversations
<1> QED BY SessionInvariance, <1>2, <1>3, PTL DEF SessionSpec

\* Lost packets, failing sends and crashes leave at most as many entries of a
\* client behind as there were of them, however often it tries again.
THEOREM FewStaleEntries == SessionSpec => []StaleEntriesBounded
<1>1. Conversations => StaleEntriesBounded
  BY DEF Conversations, ConvAt, StaleEntriesBounded, Count
<1> QED BY ConvInvariance, <1>1, PTL

\* As long as the server it talked to is up, a client that plays has its
\* CONNECTED entry there.
THEOREM Agreement == SessionSpec => []AgreementWhileServerLives
<1>1. Conversations => AgreementWhileServerLives
  BY DEF Conversations, ConvAt, AgreementWhileServerLives
<1> QED BY ConvInvariance, <1>1, PTL

-----------------------------------------------------------------------------
(* Without faults.  As long as there was none, no packet went astray, the  *)
(* server never ended, and a client that waits for a challenge, or whose   *)
(* response is under way, is not CONNECTED yet.                            *)

\* What the absence of faults comes to at a client.
FreshAt(c) ==
    faults = 0 =>
        /\ ~strays /\ undisturbed[c]
        /\ \/ phase[c] = "await_challenge"
           \/ phase[c] = "await_accepted" /\ toServer[c] # <<>>
           => Admitted(c) = {}

\* A step of the client, or for it.
LEMMA FreshOwn ==
    ASSUME SessionInv, NEW c \in Address, StepOf(c), Conversations, FreshAt(c),
           ClientKind(c) \/ ServerKind(c) \/ NetworkKind(c)
    PROVE  FreshAt(c)'
<1> SUFFICES ASSUME faults' = 0 PROVE FreshAt(c)'
  BY DEF FreshAt
<1>1. faults = 0 /\ ~strays' /\ ~strays /\ undisturbed[c]
  <2>1. faults \in Nat /\ faults' \in Nat
    BY Counting, CountingOn DEF StepOf
  <2>2. faults = 0
    BY <2>1 DEF StepOf, FaultsAddUp
  <2> QED BY <2>2 DEF FreshAt, StepOf, FaultsAddUp
<1>2. \/ phase[c] = "await_challenge"
      \/ phase[c] = "await_accepted" /\ toServer[c] # <<>>
      => Admitted(c) = {}
  BY <1>1 DEF FreshAt
<1>3. ConvAt(c)
  BY <1>1 DEF Conversations
<1> DEFINE Fresh ==
      /\ undisturbed'[c]
      /\ \/ phase'[c] = "await_challenge"
         \/ phase'[c] = "await_accepted" /\ toServer'[c] # <<>>
         => Admitted(c)' = {}
<1>4. SUFFICES Fresh
  BY <1>1 DEF FreshAt
<1>5. CASE ClientKind(c)
  <2>1. Admitted(c)' = Admitted(c)
    BY <1>5 DEF ClientKind
  <2>2. CASE Begins(c)
    <3>1. Count(c) <= 0
      BY <1>1, <1>3, <2>2 DEF ConvAt, Begins
    <3>2. Admitted(c) = {}
      BY <3>1, AdmittedNeedsEntry DEF SessionInv
    <3> QED BY <2>1, <2>2, <3>2 DEF Begins
  <2>3. CASE Challenged(c)
    BY <1>1, <1>2, <2>1, <2>3 DEF Challenged
  <2>4. CASE Accepted(c)
    BY <1>1, <2>4 DEF Accepted, historyVars
  <2>5. CASE GivesUp(c)
    BY <1>1, <2>5 DEF GivesUp, historyVars
  <2>6. CASE PlayStep(c) /\ UNCHANGED historyVars
    BY <1>1, <2>6 DEF PlayStep, InGame, historyVars
  <2>7. CASE Hints(c)
    BY <1>1, <1>2, <2>1, <2>7 DEF Hints, historyVars
  <2> QED
    BY <1>5, <2>2, <2>3, <2>4, <2>5, <2>6, <2>7 DEF ClientKind
<1>6. CASE ServerKind(c)
  <2>1. /\ phase' = phase /\ undisturbed' = undisturbed
        /\ toServer[c] # <<>> /\ toServer'[c] = Tail(toServer[c])
    BY <1>6 DEF ServerKind, Aside, Taken
  <2>2. CASE HandlesResponse(c)
    <3>1. Responded(c) /\ phase[c] = "await_accepted"
      <4>1. phase[c] \in Phases
        BY DEF SessionInv, SessionTypeOK
      <4>2. TakenInPhase(c, Head(toServer[c]))
        BY <1>3, <1>6, TakenPacket DEF ServerKind
      <4> QED BY <2>2, <4>1, <4>2 DEF TakenInPhase, HandlesResponse, Phases, InGame
    <3>2. toServer'[c] = <<>>
      BY <2>1, <3>1, Single DEF Responded
    <3> QED BY <1>1, <2>1, <3>1, <3>2
  <2>3. CASE HandlesRequest(c) \/ HandlesOther(c) \/ NobodyTakes(c)
    <3>1. Admitted(c)' \subseteq Admitted(c)
      BY <2>3 DEF HandlesRequest, HandlesOther, NobodyTakes
    <3> QED BY <1>1, <1>2, <2>1, <3>1
  <2> QED BY <1>6, <2>2, <2>3 DEF ServerKind
<1>7. CASE NetworkKind(c)
  <2>1. faults' = faults + 1
    BY <1>7 DEF NetworkKind, Disturbed
  <2> QED BY <1>1, <2>1
<1> QED BY <1>5, <1>6, <1>7

\* Any other step.
LEMMA FreshElse ==
    ASSUME SessionInv, SessionInv', NEW c \in Address, FreshAt(c),
           Ended(c) \/ Rests \/ (Untouched(c) /\ FaultsAddUp)
    PROVE  FreshAt(c)'
<1>1. faults \in Nat /\ faults' \in Nat
  BY Counting, CountingOn
<1>2. CASE Ended(c)
  <2>1. faults' # 0
    BY <1>1, <1>2 DEF Ended
  <2> QED BY <2>1 DEF FreshAt
<1>3. CASE Rests
  BY <1>3 DEF FreshAt, Rests, historyVars
<1>4. CASE Untouched(c) /\ FaultsAddUp
  <2>1. faults' = 0 => faults = 0 /\ (strays' => strays)
    BY <1>1, <1>4 DEF FaultsAddUp
  <2> QED BY <1>4, <2>1 DEF FreshAt, Untouched
<1> QED BY <1>2, <1>3, <1>4

\* It holds at the start.
LEMMA FreshInit == SessionInit => \A c \in Address : FreshAt(c)
BY DEF SessionInit, ClientInit, FreshAt

\* And ever after, at every client.
LEMMA FreshInvariance == SessionSpec => [](\A c \in Address : FreshAt(c))
<1>1. ASSUME SessionInv, [SessionNext]_vars, Conversations,
             \A c \in Address : FreshAt(c), NEW d \in Address
      PROVE  FreshAt(d)'
  <2>1. ASSUME NEW c \in Address, StepOf(c),
               ClientKind(c) \/ ServerKind(c) \/ NetworkKind(c)
        PROVE  FreshAt(d)'
    <3>1. CASE d = c
      BY <1>1, <2>1, <3>1, FreshOwn
    <3>2. CASE d # c
      <4>1. Untouched(d) /\ FaultsAddUp /\ SessionInv'
        BY <2>1, <3>2 DEF StepOf
      <4> QED BY <1>1, <4>1, FreshElse
    <3> QED BY <3>1, <3>2
  <2>2. CASE Ended(d) \/ Rests
    BY <1>1, <2>2, StepCases, FreshElse
  <2> QED BY <1>1, <2>1, <2>2, StepCases
<1>2. SessionInv /\ Conversations /\ (\A c \in Address : FreshAt(c))
        /\ [SessionNext]_vars => (\A c \in Address : FreshAt(c))'
  BY <1>1
<1> QED BY SessionInvariance, ConvInvariance, FreshInit, <1>2, PTL DEF SessionSpec

\* As long as there was no fault, no client is twice in m_players, however
\* many clients there are and whatever they do.
THEOREM OneEntryUntilFault == SessionSpec => [](faults = 0 => OneEntryPerAddress)
<1>1. ASSUME SessionInv, Conversations, \A c \in Address : FreshAt(c), faults = 0
      PROVE  OneEntryPerAddress
  <2>1. SUFFICES ASSUME NEW i \in DOMAIN m_players, NEW j \in DOMAIN m_players,
                        m_players[i].Address = m_players[j].Address, i # j
                 PROVE  FALSE
    BY DEF OneEntryPerAddress
  <2> DEFINE c == m_players[i].Address
  <2>2. c \in Address
    <3>1. m_players[i] \in Player
      BY <1>1, ElementOfSeq, LenProperties DEF SessionInv, Inv, GoodPlayers
    <3> QED BY <3>1 DEF Player
  <2>3. {i, j} \subseteq EntriesAt(c)
    BY <2>1 DEF EntriesAt
  <2> HIDE DEF c
  <2>4. Count(c) <= 1
    <3>1. ~strays
      BY <1>1, <2>2 DEF FreshAt
    <3>2. Count(c) <= 1 + faults
      BY <1>1, <2>2, <3>1 DEF Conversations, ConvAt
    <3> QED BY <1>1, <3>2
  <2>5. IsFiniteSet(EntriesAt(c)) /\ Count(c) \in Nat
    BY <1>1, PositionsFinite, OfPlayers DEF SessionInv, Inv, GoodPlayers
  <2>6. Cardinality({i, j}) = 2
    <3>1. IsFiniteSet({i}) /\ Cardinality({i}) = 1 /\ j \notin {i}
      BY <2>1, FS_Singleton
    <3>2. Cardinality({i} \cup {j}) = 2
      BY <3>1, FS_AddElement
    <3>3. {i} \cup {j} = {i, j}
      OBVIOUS
    <3> QED BY <3>2, <3>3
  <2>7. Cardinality({i, j}) <= Count(c)
    BY <2>3, <2>5, FS_Subset DEF Count
  <2> QED BY <2>4, <2>5, <2>6, <2>7
<1>2. SessionInv /\ Conversations /\ (\A c \in Address : FreshAt(c))
        => (faults = 0 => OneEntryPerAddress)
  BY <1>1
<1> QED BY SessionInvariance, ConvInvariance, FreshInvariance, <1>2, PTL

\* Where no fault can happen, it holds throughout.
THEOREM OneEntryWithoutFaults ==
    ASSUME MaxFaults = 0
    PROVE  SessionSpec => []OneEntryPerAddress
<1>1. SessionTypeOK => faults = 0
  BY DEF SessionTypeOK
<1> QED BY SessionTypeCorrect, OneEntryUntilFault, <1>1, PTL

-----------------------------------------------------------------------------
(* Without faults the session implements Admission. *)

\* The refinement mapping at a client: the salt under which it is admitted,
\* and the one under which it plays.
PickFrom(salts) == IF salts = {} THEN NoSalt ELSE CHOOSE salt \in salts : TRUE
AdmittedSalt(c) == PickFrom(Admitted(c))
JoinedSalt(c) ==
    IF phase[c] = "stopped" THEN Gone
    ELSE IF InGame(c) THEN m_connectionSalt[c] ELSE NoSalt

\* It is that one.
LEMMA PickSingle ==
    ASSUME NEW salt
    PROVE  PickFrom({salt}) = salt /\ PickFrom({}) = NoSalt
BY DEF PickFrom

\* A CONNECTED entry has a salt of a client and one of the server.
LEMMA AdmittedSalts ==
    ASSUME Inv, NEW c PROVE Admitted(c) \subseteq Salts
<1>1. ASSUME NEW s \in AdmittedIn(m_players, c) PROVE s \in Salts
  <2>1. PICK i \in DOMAIN m_players : ConnectionSalt(m_players[i]) = s
    BY AdmittedElement
  <2>2. m_players[i] \in Player
    BY ElementOfSeq, LenProperties DEF Inv, GoodPlayers
  <2> QED BY <2>1, <2>2 DEF Player, ConnectionSalt, Salts
<1> QED BY <1>1, OfPlayers

\* A step changes nothing that Admission sees,
Maps(c) == AdmittedSalt(c)' = AdmittedSalt(c) /\ JoinedSalt(c)' = JoinedSalt(c)

\* or is one of its actions.
Admits(c) ==
    /\ AdmittedSalt(c) = NoSalt /\ JoinedSalt(c) = NoSalt
    /\ AdmittedSalt(c)' \in Salts /\ JoinedSalt(c)' = JoinedSalt(c)
Joins(c) ==
    /\ JoinedSalt(c) = NoSalt /\ AdmittedSalt(c) # NoSalt
    /\ JoinedSalt(c)' = AdmittedSalt(c) /\ AdmittedSalt(c)' = AdmittedSalt(c)
Leaves(c) ==
    /\ JoinedSalt(c) # Gone
    /\ JoinedSalt(c)' = Gone /\ AdmittedSalt(c)' = AdmittedSalt(c)
Forgets(c) ==
    /\ JoinedSalt(c) \notin Salts /\ AdmittedSalt(c) # NoSalt
    /\ AdmittedSalt(c)' = NoSalt /\ JoinedSalt(c)' = JoinedSalt(c)

\* Same entries, same admitted salt.
LEMMA SameAdmitted ==
    ASSUME NEW c, Admitted(c)' = Admitted(c)
    PROVE  AdmittedSalt(c)' = AdmittedSalt(c)
BY DEF AdmittedSalt, PickFrom

\* What a client does is to join, to leave, or nothing to Admission.
LEMMA AdmissionClient ==
    ASSUME SessionInv, NEW c \in Address, ClientKind(c),
           ConvAt(c), undisturbed[c]
    PROVE  Maps(c) \/ Joins(c) \/ Leaves(c)
<1>1. AdmittedSalt(c)' = AdmittedSalt(c)
  BY SameAdmitted DEF ClientKind
<1>2. /\ m_connectionSalt[c] \in Salts \cup {NoSalt}
      /\ Gone \notin Salts \cup {NoSalt} /\ NoSalt \notin Salts
  BY SessionAssumption, ClientAssumption DEF SessionInv, SessionTypeOK
<1>3. CASE Begins(c) \/ Challenged(c)
  BY <1>1, <1>3 DEF Begins, Challenged, JoinedSalt, InGame, Maps
<1>4. CASE Accepted(c)
  <2>1. LetIn(c)
    BY <1>4, Single DEF ConvAt, Accepted, Idle, Responded, IsDenied, IsAccepted
  <2>2. connectionSalt[c] \in Admitted(c)
    BY <2>1 DEF LetIn
  <2>3. Admitted(c) = {connectionSalt[c]}
    BY <2>2, AdmittedUnique DEF SessionInv
  <2>4. AdmittedSalt(c) = connectionSalt[c]
    BY <2>3, PickSingle DEF AdmittedSalt
  <2>5. connectionSalt[c] # NoSalt
    BY <1>2, <2>2, AdmittedSalts DEF SessionInv
  <2>6. JoinedSalt(c) = NoSalt /\ JoinedSalt(c)' = connectionSalt[c]
    BY <1>4 DEF Accepted, JoinedSalt, InGame
  <2> QED BY <1>1, <2>4, <2>5, <2>6 DEF Joins
<1>5. CASE GivesUp(c)
  <2>1. JoinedSalt(c) = NoSalt
    BY <1>5 DEF GivesUp, JoinedSalt, InGame
  <2>2. JoinedSalt(c)' \in {NoSalt, Gone}
    BY <1>5 DEF GivesUp, JoinedSalt, InGame
  <2> QED BY <1>1, <1>2, <2>1, <2>2 DEF Maps, Leaves
<1>6. CASE PlayStep(c) /\ UNCHANGED historyVars
  <2>1. JoinedSalt(c) = m_connectionSalt[c]
    BY <1>6 DEF PlayStep, JoinedSalt, InGame
  <2>2. JoinedSalt(c)' \in {m_connectionSalt[c], Gone}
    BY <1>6 DEF PlayStep, JoinedSalt, InGame
  <2> QED BY <1>1, <1>2, <2>1, <2>2 DEF Maps, Leaves
<1>7. CASE Hints(c)
  BY <1>1, <1>7 DEF Hints, JoinedSalt, InGame, Maps
<1> QED BY <1>3, <1>4, <1>5, <1>6, <1>7 DEF ClientKind

\* What the server does for it is to admit, to forget, or nothing.
LEMMA AdmissionServer ==
    ASSUME SessionInv, NEW c \in Address, ServerKind(c),
           ConvAt(c), FreshAt(c), faults = 0
    PROVE  Maps(c) \/ Admits(c) \/ Forgets(c)
<1>1. JoinedSalt(c)' = JoinedSalt(c)
  BY DEF ServerKind, Aside, JoinedSalt, InGame
<1>2. TakenInPhase(c, Head(toServer[c])) /\ phase[c] \in Phases
  BY TakenPacket DEF ServerKind, SessionInv, SessionTypeOK
<1>3. CASE Admitted(c)' = Admitted(c)
  BY <1>1, <1>3, SameAdmitted DEF Maps
<1>4. CASE HandlesResponse(c)
  <2>1. phase[c] = "await_accepted"
    BY <1>2, <1>4 DEF TakenInPhase, HandlesResponse, Phases, InGame
  <2>2. Admitted(c) = {}
    BY <2>1 DEF FreshAt, ServerKind, Taken
  <2>3. AdmittedSalt(c) = NoSalt /\ JoinedSalt(c) = NoSalt
    BY <2>1, <2>2, PickSingle DEF AdmittedSalt, JoinedSalt, InGame
  <2>4. CASE Admitted(c)' = {Head(toServer[c]).salt}
    <3>1. Head(toServer[c]).salt \in Salts
      BY <1>4, PacketFields DEF HandlesResponse, ServerKind, Taken
    <3>2. AdmittedSalt(c)' = Head(toServer[c]).salt
      BY <2>4, PickSingle DEF AdmittedSalt
    <3> QED BY <1>1, <2>3, <3>1, <3>2 DEF Admits
  <2> QED BY <1>3, <1>4, <2>2, <2>4 DEF HandlesResponse
<1>5. CASE /\ Head(toServer[c]).type = "DISCONNECT"
           /\ Admitted(c)' = Admitted(c) \ {Head(toServer[c]).salt}
           /\ Admitted(c)' # Admitted(c)
  <2>1. phase[c] = "stopped"
    BY <1>2, <1>5 DEF TakenInPhase, Phases, InGame
  <2>2. PICK salt \in Admitted(c) : salt = Head(toServer[c]).salt
    BY <1>5
  <2>3. Admitted(c) = {salt}
    BY AdmittedUnique DEF SessionInv
  <2>4. Admitted(c)' = {}
    BY <1>5, <2>2, <2>3
  <2>5. AdmittedSalt(c) = salt /\ AdmittedSalt(c)' = NoSalt
    BY <2>3, <2>4, PickSingle DEF AdmittedSalt
  <2>6. salt # NoSalt
    BY AdmittedSalts, ClientAssumption DEF SessionInv
  <2>7. JoinedSalt(c) \notin Salts
    BY <2>1, SessionAssumption DEF JoinedSalt
  <2> QED BY <1>1, <2>5, <2>6, <2>7 DEF Forgets
<1> QED BY <1>3, <1>4, <1>5 DEF ServerKind, HandlesRequest, HandlesOther, NobodyTakes

\* What one client does is a step of Admission, where the others rest.
LEMMA AdmissionMoves ==
    ASSUME NEW c \in Address, \A d \in Address \ {c} : Maps(d),
           Maps(c) \/ Admits(c) \/ Joins(c) \/ Leaves(c) \/ Forgets(c)
    PROVE  [Promise!Next]_(Promise!vars)
<1> DEFINE adm == [d \in Address |-> AdmittedSalt(d)]
           joi == [d \in Address |-> JoinedSalt(d)]
           admBar == [d \in Address |->
                        IF Admitted(d) = {} THEN NoSalt
                        ELSE CHOOSE salt \in Admitted(d) : TRUE]
           joiBar == [d \in Address |->
                        IF phase[d] = "stopped" THEN Gone
                        ELSE IF InGame(d) THEN m_connectionSalt[d] ELSE NoSalt]
<1>1. /\ admBar = adm /\ admBar' = adm'
      /\ joiBar = joi /\ joiBar' = joi'
  BY DEF AdmittedSalt, PickFrom, JoinedSalt
<1>2. /\ adm[c] = AdmittedSalt(c) /\ joi[c] = JoinedSalt(c)
      /\ adm' = [adm EXCEPT ![c] = AdmittedSalt(c)']
      /\ joi' = [joi EXCEPT ![c] = JoinedSalt(c)']
  BY DEF Maps
<1>3. /\ AdmittedSalt(c)' = AdmittedSalt(c) => adm' = adm
      /\ JoinedSalt(c)' = JoinedSalt(c) => joi' = joi
  BY DEF Maps
<1> HIDE DEF adm, joi
<1> DEFINE next == AdmittedSalt(c)'
<1>4. CASE Maps(c)
  <2>1. admBar' = admBar /\ joiBar' = joiBar
    BY <1>1, <1>3, <1>4 DEF Maps
  <2> QED BY <2>1 DEF Promise!vars
<1>5. CASE Admits(c)
  <2>1. /\ admBar[c] = NoSalt /\ joiBar[c] = NoSalt /\ next \in Salts
        /\ admBar' = [admBar EXCEPT ![c] = next] /\ joiBar' = joiBar
    BY <1>1, <1>2, <1>3, <1>5 DEF Admits
  <2>2. Promise!Admit(c, next)
    BY <2>1 DEF Promise!Admit
  <2> QED BY <2>1, <2>2 DEF Promise!Next
<1>6. CASE Joins(c)
  <2>1. /\ joiBar[c] = NoSalt /\ admBar[c] # NoSalt
        /\ joiBar' = [joiBar EXCEPT ![c] = admBar[c]] /\ admBar' = admBar
    BY <1>1, <1>2, <1>3, <1>6 DEF Joins
  <2>2. Promise!Join(c)
    BY <2>1 DEF Promise!Join
  <2> QED BY <2>2 DEF Promise!Next
<1>7. CASE Leaves(c)
  <2>1. /\ joiBar[c] # Gone
        /\ joiBar' = [joiBar EXCEPT ![c] = Gone] /\ admBar' = admBar
    BY <1>1, <1>2, <1>3, <1>7 DEF Leaves
  <2>2. Promise!Leave(c)
    BY <2>1 DEF Promise!Leave
  <2> QED BY <2>2 DEF Promise!Next
<1>8. CASE Forgets(c)
  <2>1. /\ joiBar[c] \notin Salts /\ admBar[c] # NoSalt
        /\ admBar' = [admBar EXCEPT ![c] = NoSalt] /\ joiBar' = joiBar
    BY <1>1, <1>2, <1>3, <1>8 DEF Forgets
  <2>2. Promise!Forget(c)
    BY <2>1 DEF Promise!Forget
  <2> QED BY <2>2 DEF Promise!Next
<1> QED BY <1>4, <1>5, <1>6, <1>7, <1>8

\* So every step without a fault is a step of Admission, or none.
LEMMA AdmissionStep ==
    ASSUME SessionInv, Conversations, \A c \in Address : FreshAt(c),
           faults = 0, faults' = 0, [SessionNext]_vars
    PROVE  [Promise!Next]_(Promise!vars)
<1>1. \A c \in Address : ConvAt(c) /\ undisturbed[c]
  BY DEF Conversations, FreshAt
<1>2. ASSUME NEW c \in Address, StepOf(c),
             ClientKind(c) \/ ServerKind(c) \/ NetworkKind(c)
      PROVE  [Promise!Next]_(Promise!vars)
  <2>1. ASSUME NEW d \in Address \ {c} PROVE Maps(d)
    <3>1. Untouched(d)
      BY <1>2 DEF StepOf
    <3> QED BY <3>1, SameAdmitted DEF Untouched, Maps, JoinedSalt, InGame
  <2>2. ~NetworkKind(c)
    BY DEF NetworkKind, Disturbed
  <2>3. Maps(c) \/ Admits(c) \/ Joins(c) \/ Leaves(c) \/ Forgets(c)
    BY <1>1, <1>2, <2>2, AdmissionClient, AdmissionServer
  <2> QED BY <2>1, <2>3, AdmissionMoves
<1>3. ASSUME \A c \in Address : Ended(c) PROVE \A c \in Address : FALSE
  BY <1>3 DEF Ended
<1>4. ASSUME \A c \in Address : Maps(c) PROVE [Promise!Next]_(Promise!vars)
  <2>1. \A c \in Address : AdmittedSalt(c)' = AdmittedSalt(c)
                           /\ JoinedSalt(c)' = JoinedSalt(c)
    BY <1>4 DEF Maps
  <2> QED BY <2>1 DEF Promise!vars, AdmittedSalt, PickFrom, JoinedSalt
<1>5. CASE Rests
  <2>1. \A c \in Address : Maps(c)
    BY <1>5, SameAdmitted DEF Rests, Maps, JoinedSalt, InGame
  <2> QED BY <1>4, <2>1
<1>6. CASE \A c \in Address : Ended(c)
  BY <1>3, <1>4, <1>6
<1> QED BY <1>2, <1>5, <1>6, StepCases

\* Where no fault can happen, handshake and good-byes implement Admission: a
\* client plays only under the salt of its CONNECTED entry, that entry stays
\* until the client has left, and who left does not come back.
THEOREM SessionImplementsAdmission ==
    ASSUME MaxFaults = 0
    PROVE  SessionSpec => ImplementsAdmission
<1>1. SessionInit => Promise!Init
  <2> SUFFICES ASSUME SessionInit PROVE Promise!Init
    OBVIOUS
  <2>1. \A c \in Address : Admitted(c) = {} /\ phase[c] = "establish"
    BY DEF SessionInit, ServerInit, ClientInit, Admitted, EntriesAt
  <2> QED BY <2>1 DEF Promise!Init, InGame
<1>2. /\ SessionTypeOK => faults = 0
      /\ SessionTypeOK' => faults' = 0
  BY DEF SessionTypeOK
<1>3. SessionInv /\ Conversations /\ (\A c \in Address : FreshAt(c))
        /\ SessionTypeOK /\ SessionTypeOK' /\ [SessionNext]_vars
        => [Promise!Next]_(Promise!vars)
  BY <1>2, AdmissionStep
<1> QED
  BY <1>1, <1>3, SessionInvariance, ConvInvariance, FreshInvariance,
     SessionTypeCorrect, PTL DEF SessionSpec, ImplementsAdmission, Promise!Spec

=============================================================================
