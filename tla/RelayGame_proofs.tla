-------------------------- MODULE RelayGame_proofs ---------------------------
(***************************************************************************)
(* The relay's table, the shots on their way out of a game, and those that *)
(* the others are shown, for any number of players, packets and shots.     *)
(***************************************************************************)
EXTENDS RelayGame, SequenceTheorems, Induction_proofs

\* The numbers given so far, if nobody left: 1, 2, ... modulo BYTE.
NumberedInOrder(table) ==
    Cardinality(DOMAIN table) <= BYTE =>
        /\ \A a \in DOMAIN table :
            \E k \in 1..Cardinality(DOMAIN table) : table[a].PlayerID = k % BYTE
        /\ \A a, b \in DOMAIN table : a # b => table[a].PlayerID # table[b].PlayerID

\* The last sweep left nobody older than SILENCE, and nobody has been heard
\* later than SWEEP after it.
HeardInTime(table, swept) ==
    \A a \in DOMAIN table :
        /\ table[a].LastUpdated \in Nat
        /\ swept - SILENCE <= table[a].LastUpdated
        /\ table[a].LastUpdated < swept + SWEEP

ClockInv == now \in Nat /\ sweptAt \in Nat /\ 1 <= sweptAt /\ sweptAt <= now

RelayInv ==
    /\ ClockInv
    /\ departed \in BOOLEAN
    /\ \A packet \in toRelay : packet.from \in Player
    /\ DOMAIN players \subseteq Player
    /\ HeardInTime(players, sweptAt)
    /\ ~departed => NumberedInOrder(players)

-----------------------------------------------------------------------------
(* The relay. *)

\* The table of a relay that knows nobody.
LEMMA NoTable == DOMAIN <<>> = {}
  <1>1. <<>> \in Seq({}) /\ Len(<<>>) = 0
    BY EmptySeq
  <1>2. DOMAIN <<>> = 1..0
    BY <1>1, LenProperties
  <1>3. QED
    BY <1>2

\* Entering the sender keeps the numbers in order.
LEMMA UpdatedNumbers ==
    ASSUME RelayInv, NEW sender \in Player, NumberedInOrder(players)
    PROVE  NumberedInOrder(Updated(sender))
  <1> DEFINE n == Cardinality(DOMAIN players)
             table == Updated(sender)
  <1>1. IsFiniteSet(DOMAIN players) /\ n \in Nat
    BY RelayLinkAssumption, FS_Subset, FS_CardinalityType DEF RelayInv
  <1>2. DOMAIN table = DOMAIN players \cup {sender}
    BY DEF Updated
  <1>3. \A a \in DOMAIN players : table[a].PlayerID = players[a].PlayerID
    BY DEF Updated
  <1>4. CASE sender \in DOMAIN players
    <2>1. DOMAIN table = DOMAIN players
      BY <1>2, <1>4
    <2>2. QED
      BY <2>1, <1>3 DEF NumberedInOrder
  <1>5. CASE sender \notin DOMAIN players
    <2>1. Cardinality(DOMAIN table) = n + 1
      BY <1>1, <1>2, <1>5, FS_AddElement
    <2>2. table[sender].PlayerID = (n + 1) % BYTE
      BY <1>5 DEF Updated, NewID
    <2>3. SUFFICES ASSUME n + 1 <= BYTE
                   PROVE  /\ \A a \in DOMAIN table :
                                \E k \in 1..n + 1 : table[a].PlayerID = k % BYTE
                          /\ \A a, b \in DOMAIN table :
                                a # b => table[a].PlayerID # table[b].PlayerID
      BY <2>1 DEF NumberedInOrder
    <2>4. /\ \A a \in DOMAIN players :
                \E k \in 1..n : players[a].PlayerID = k % BYTE
          /\ \A a, b \in DOMAIN players :
                a # b => players[a].PlayerID # players[b].PlayerID
      BY <2>3, <1>1, RelayAssumption DEF NumberedInOrder
    <2>5. \A k \in 1..n : k \in 1..n + 1 /\ k % BYTE # (n + 1) % BYTE
      <3>1. SUFFICES ASSUME NEW k \in 1..n
                     PROVE  k \in 1..n + 1 /\ k % BYTE # (n + 1) % BYTE
        OBVIOUS
      <3>2. k % BYTE = k
        BY <1>1, <2>3, RelayAssumption
      <3>3. (n + 1) % BYTE = IF n + 1 = BYTE THEN 0 ELSE n + 1
        BY <1>1, <2>3, RelayAssumption
      <3>4. QED
        BY <1>1, <3>2, <3>3
    <2>6. n + 1 \in 1..n + 1
      BY <1>1
    <2>7. ASSUME NEW a \in DOMAIN table
          PROVE  \E k \in 1..n + 1 : table[a].PlayerID = k % BYTE
      BY <1>2, <1>3, <2>2, <2>4, <2>5, <2>6
    <2>8. ASSUME NEW a \in DOMAIN players
          PROVE  table[a].PlayerID # table[sender].PlayerID
      BY <1>3, <2>2, <2>4, <2>5
    <2>9. ASSUME NEW a \in DOMAIN table, NEW b \in DOMAIN table, a # b
          PROVE  table[a].PlayerID # table[b].PlayerID
      BY <1>2, <1>3, <2>4, <2>8, <2>9
    <2>10. QED
      BY <2>7, <2>9
  <1>6. QED
    BY <1>4, <1>5

\* A packet that is relayed keeps the relay's invariant.
LEMMA RelayedKeeps ==
    ASSUME RelayInv, NEW packet \in toRelay, Relayed(packet),
           UNCHANGED <<now, toRelay>>
    PROVE  RelayInv'
  <1> DEFINE table == Updated(packet.from)
  <1>1. packet.from \in Player /\ ClockInv
    BY DEF RelayInv
  <1>2. /\ DOMAIN table = DOMAIN players \cup {packet.from}
        /\ table = [a \in DOMAIN table |-> table[a]]
        /\ table[packet.from].LastUpdated = now
        /\ \A a \in DOMAIN table \ {packet.from} : table[a] = players[a]
    BY DEF Updated
  <1>3. \A a \in DOMAIN table :
            /\ \/ table[a].LastUpdated <= now
               \/ table[a].LastUpdated < sweptAt + SWEEP
            /\ sweptAt - SILENCE <= table[a].LastUpdated
    BY <1>1, <1>2, RelayAssumption DEF RelayInv, HeardInTime, ClockInv
  <1>4. \A a \in DOMAIN table :
            table[a].LastUpdated \in Nat
    BY <1>1, <1>2, RelayAssumption DEF RelayInv, HeardInTime, ClockInv
  <1>5. ~departed => NumberedInOrder(table)
    BY <1>1, UpdatedNumbers DEF RelayInv
  <1>6. CASE now - sweptAt >= SWEEP
    <2>1. /\ players' = [a \in DOMAIN table \ Silent(table) |-> table[a]]
          /\ sweptAt' = now
          /\ departed' = (departed \/ Silent(table) # {})
      BY <1>6 DEF Relayed, Sweep
    <2>2. \A a \in DOMAIN table \ Silent(table) :
              /\ now - SILENCE <= table[a].LastUpdated
              /\ table[a].LastUpdated < now + SWEEP
      BY <1>1, <1>3, <1>4, <1>6, RelayAssumption DEF Silent, ClockInv
    <2>3. HeardInTime(players', sweptAt')
      BY <1>4, <2>1, <2>2 DEF HeardInTime
    <2>4. ~departed' => NumberedInOrder(players')
      <3>1. SUFFICES ASSUME ~departed' PROVE NumberedInOrder(players')
        OBVIOUS
      <3>2. ~departed /\ Silent(table) = {}
        BY <2>1, <3>1 DEF RelayInv
      <3>3. players' = table
        BY <1>2, <2>1, <3>2
      <3>4. QED
        BY <1>5, <3>2, <3>3
    <2>5. QED
      BY <1>1, <1>2, <2>1, <2>3, <2>4 DEF RelayInv, ClockInv
  <1>7. CASE ~(now - sweptAt >= SWEEP)
    <2>1. players' = table /\ UNCHANGED <<sweptAt, departed>>
      BY <1>7 DEF Relayed, Sweep
    <2>2. now < sweptAt + SWEEP
      BY <1>1, <1>7, RelayAssumption DEF ClockInv
    <2>3. HeardInTime(table, sweptAt)
      BY <1>1, <1>3, <1>4, <2>2, RelayAssumption DEF HeardInTime, ClockInv
    <2>4. QED
      BY <1>1, <1>2, <1>5, <2>1, <2>3 DEF RelayInv, ClockInv
  <1>8. QED
    BY <1>6, <1>7

\* A packet that is sent, and a moment that passes, do not touch the table.
LEMMA SendingKeeps ==
    ASSUME RelayInv, UNCHANGED <<players, sweptAt, departed>>, now' \in {now, now + 1},
           \A packet \in toRelay' : packet \in toRelay \/ packet.from \in Player
    PROVE  RelayInv'
  BY DEF RelayInv, ClockInv, HeardInTime, NumberedInOrder

\* Every step keeps the relay's invariant.
LEMMA RelayStep == RelayInv /\ [Next]_vars => RelayInv'
  <1>1. SUFFICES ASSUME RelayInv, [Next]_vars PROVE RelayInv'
    OBVIOUS
  <1>2. CASE RelayNext
    <2>1. CASE RelayPacket
      <3>1. PICK packet \in toRelay : Relayed(packet)
        BY <2>1 DEF RelayPacket
      <3>2. QED
        BY <1>1, <2>1, <3>1, RelayedKeeps DEF RelayPacket
    <2>2. CASE RelayEnds
      <3>1. /\ players' = <<>> /\ sweptAt' = 1 /\ departed' = FALSE
            /\ now' = now /\ toRelay' = toRelay
        BY <2>2 DEF RelayEnds
      <3>2. DOMAIN players' = {}
        BY <3>1, NoTable
      <3>3. HeardInTime(players', sweptAt') /\ NumberedInOrder(players')
        BY <3>2 DEF HeardInTime, NumberedInOrder
      <3>4. ClockInv'
        BY <1>1, <3>1 DEF RelayInv, ClockInv
      <3>5. DOMAIN players' \subseteq Player
        BY <3>2
      <3>6. departed' \in BOOLEAN /\ \A packet \in toRelay' : packet.from \in Player
        BY <1>1, <3>1 DEF RelayInv
      <3>7. QED
        BY <3>3, <3>4, <3>5, <3>6 DEF RelayInv
    <2>3. QED
      BY <1>2, <2>1, <2>2 DEF RelayNext
  <1>3. CASE \E c \in Gamer : ClientNext(c)
    <2>1. PICK c \in Gamer : ClientNext(c)
      BY <1>3
    <2>2. CASE Send(c)
      <3>1. /\ now' = now + 1
            /\ toRelay' = toRelay \cup {GetBytes(c, Head(Outgoing[c]))}
        BY <2>2 DEF Send
      <3>2. QED
        BY <1>1, <2>1, <3>1, SendingKeeps DEF ClientNext, relayVars, GetBytes, Gamer
    <2>3. CASE ~Send(c)
      <3>1. UNCHANGED linkVars
        BY <2>1, <2>3
           DEF ClientNext, UI, Networking, StartNetworking, SendFails, Receive, ReceiveFails,
               NetworkingEnds
      <3>2. QED
        BY <1>1, <2>1, <3>1, SendingKeeps DEF ClientNext, relayVars, linkVars
    <2>4. QED
      BY <2>2, <2>3
  <1>4. CASE \E c \in Guest : GuestSends(c)
    <2>1. PICK c \in Guest : GuestSends(c)
      BY <1>4
    <2>2. PICK firing \in BOOLEAN :
            toRelay' = toRelay \cup {GetBytes(c, [IsFiring |-> firing])}
      BY <2>1 DEF GuestSends
    <2>3. QED
      BY <1>1, <2>1, <2>2, SendingKeeps, RelayLinkAssumption
         DEF GuestSends, relayVars, GetBytes
  <1>5. CASE TimePasses
    BY <1>1, <1>5, SendingKeeps DEF TimePasses, Tick, relayVars
  <1>6. CASE UNCHANGED vars
    BY <1>1, <1>6, SendingKeeps DEF vars, relayVars, linkVars
  <1>7. QED
    BY <1>1, <1>2, <1>3, <1>4, <1>5, <1>6 DEF Next

\* The relay's invariant holds.
THEOREM RelayInvariant == Spec => []RelayInv
  <1>1. ASSUME Init PROVE RelayInv
    <2>1. now = 1 /\ toRelay = {} /\ sweptAt = 1 /\ departed = FALSE
      BY <1>1 DEF Init, LinkInit, RelayInit
    <2>2. DOMAIN players = {}
      BY <1>1, NoTable DEF Init, RelayInit
    <2>3. HeardInTime(players, sweptAt) /\ NumberedInOrder(players)
      BY <2>2 DEF HeardInTime, NumberedInOrder
    <2>4. ClockInv
      BY <2>1 DEF ClockInv
    <2>5. DOMAIN players \subseteq Player
      BY <2>2
    <2>6. departed \in BOOLEAN /\ \A packet \in toRelay : packet.from \in Player
      BY <2>1
    <2>7. QED
      BY <2>3, <2>4, <2>5, <2>6 DEF RelayInv
  <1>2. QED
    BY <1>1, RelayStep, PTL DEF Spec

\* As long as nobody has been removed, no two players have the same number,
\* however many of the numbers of a byte are in use.
THEOREM NumbersDistinct == Spec => []NumbersAreDistinct
  <1>1. RelayInv => NumbersAreDistinct
    BY DEF RelayInv, NumberedInOrder, NumbersAreDistinct
  <1>2. QED
    BY <1>1, RelayInvariant, PTL

\* No player stays in the table that has been silent for five seconds and a
\* sweep longer than another one, whenever packets arrive.
THEOREM SilentGo == Spec => []SilentPlayersGo
  <1>1. RelayInv => SilentPlayersGo
    BY RelayAssumption DEF RelayInv, HeardInTime, ClockInv, SilentPlayersGo
  <1>2. QED
    BY <1>1, RelayInvariant, PTL

-----------------------------------------------------------------------------
(* The shots of one game. *)

Told == [IsFiring : BOOLEAN, upTo : Nat]

One(firing) == IF firing THEN 1 ELSE 0

\* The firing packets of a queue, which has two places at most.
Firing(queue) ==
    (IF Len(queue) >= 1 THEN One(queue[1].IsFiring) ELSE 0)
        + (IF Len(queue) >= 2 THEN One(queue[2].IsFiring) ELSE 0)

Ordered(queue, shots, toldShot) ==
    /\ \A i \in 1..Len(queue) : toldShot <= queue[i].upTo /\ queue[i].upTo <= shots
    /\ \A i, j \in 1..Len(queue) : i < j => queue[i].upTo <= queue[j].upTo

Carried(queue, flag, shots) ==
    flag \/ \E i \in 1..Len(queue) : queue[i].IsFiring /\ queue[i].upTo = shots

\* What relates a game's queue and flag to its shots, to the last one told and
\* to the number of firing packets sent.
Sound(queue, flag, shots, toldShot, sentCount) ==
    /\ queue \in Seq(Told) /\ flag \in BOOLEAN
    /\ shots \in Nat /\ toldShot \in Nat /\ sentCount \in Nat
    /\ Len(queue) <= 2
    /\ toldShot <= shots /\ Ordered(queue, shots, toldShot)
    /\ sentCount + Firing(queue) + One(flag) <= shots

\* Elements of a queue.
LEMMA QueueElements ==
    ASSUME NEW q \in Seq(Told)
    PROVE  /\ Len(q) \in Nat /\ DOMAIN q = 1..Len(q)
           /\ \A i \in 1..Len(q) : q[i].IsFiring \in BOOLEAN /\ q[i].upTo \in Nat
  <1>1. Len(q) \in Nat /\ DOMAIN q = 1..Len(q)
    BY LenProperties
  <1>2. \A i \in 1..Len(q) : q[i] \in Told
    BY ElementOfSeq
  <1>3. QED
    BY <1>1, <1>2 DEF Told

\* A firing counts for one at most.
LEMMA OneIsNat ==
    \A firing \in BOOLEAN : One(firing) \in 0..1 /\ (firing => One(firing) = 1)
                            /\ (~firing => One(firing) = 0)
  BY DEF One

\* The number of firing packets in a queue.
LEMMA FiringIsNat ==
    ASSUME NEW q \in Seq(Told)
    PROVE  /\ Firing(q) \in Nat
           /\ Len(q) = 0 => Firing(q) = 0
           /\ Len(q) = 1 => Firing(q) = One(q[1].IsFiring)
           /\ Len(q) = 2 => Firing(q) = One(q[1].IsFiring) + One(q[2].IsFiring)
  <1>1. \A i \in 1..Len(q) : One(q[i].IsFiring) \in 0..1
    BY QueueElements, OneIsNat
  <1>2. QED
    BY <1>1, QueueElements DEF Firing

\* Nothing has been fired, and nothing is queued.
LEMMA EmptySound ==
    ASSUME NEW q \in Seq(Told), Len(q) = 0
    PROVE  Sound(q, FALSE, 0, 0, 0)
  <1>1. Firing(q) = 0 /\ One(FALSE) = 0
    BY FiringIsNat, OneIsNat
  <1>2. Ordered(q, 0, 0)
    BY DEF Ordered
  <1>3. 0 + 0 + 0 <= 0 /\ 0 \in Nat
    OBVIOUS
  <1>4. 0 + Firing(q) + One(FALSE) <= 0
    BY <1>1, <1>3, Zenon
  <1>5. Len(q) <= 2
    OBVIOUS
  <1>6. 0 <= 0 /\ FALSE \in BOOLEAN
    OBVIOUS
  <1>7. QED
    BY <1>2, <1>3, <1>4, <1>5, <1>6, Zenon DEF Sound

\* A shot sets the flag.
LEMMA ShotSound ==
    ASSUME NEW q, NEW flag, NEW f, NEW t, NEW s, NEW shot \in 0..1,
           Sound(q, flag, f, t, s)
    PROVE  /\ Sound(q, flag \/ shot = 1, f + shot, t, s)
           /\ (f > t => Carried(q, flag, f)) =>
                (f + shot > t => Carried(q, flag \/ shot = 1, f + shot))
  <1>1. CASE shot = 0
    BY <1>1 DEF Sound, Carried
  <1>2. CASE shot = 1
    <2>1. Carried(q, flag \/ shot = 1, f + shot)
      BY <1>2 DEF Carried
    <2>2. Ordered(q, f + shot, t)
      BY <1>2, QueueElements DEF Sound, Ordered
    <2>3. One(flag \/ shot = 1) <= One(flag) + 1 /\ One(flag) \in Nat
      BY <1>2, OneIsNat DEF Sound, One
    <2>4. s + Firing(q) + One(flag \/ shot = 1) <= f + shot
      <3>1. Firing(q) \in Nat
        BY FiringIsNat DEF Sound
      <3>2. One(flag \/ shot = 1) \in 0..1
        BY <1>2, OneIsNat
      <3>3. s \in Nat /\ f \in Nat /\ s + Firing(q) + One(flag) <= f
        BY DEF Sound
      <3>4. QED
        BY <1>2, <2>3, <3>1, <3>2, <3>3
    <2>5. QED
      BY <1>2, <2>1, <2>2, <2>4 DEF Sound
  <1>3. QED
    BY <1>1, <1>2

\* A packet that is queued takes the flag with it.
LEMMA QueueSound ==
    ASSUME NEW q, NEW flag, NEW f, NEW t, NEW s, Sound(q, flag, f, t, s),
           Len(q) <= 1
    PROVE  /\ Sound(Append(q, [IsFiring |-> flag, upTo |-> f]), FALSE, f, t, s)
           /\ Len(Append(q, [IsFiring |-> flag, upTo |-> f])) = Len(q) + 1
           /\ (f > t => Carried(q, flag, f)) =>
                (f > t => Carried(Append(q, [IsFiring |-> flag, upTo |-> f]), FALSE, f))
  <1> DEFINE e == [IsFiring |-> flag, upTo |-> f]
             r == Append(q, e)
  <1>1. e \in Told /\ q \in Seq(Told)
    BY DEF Sound, Told
  <1>2. /\ r \in Seq(Told) /\ Len(r) = Len(q) + 1 /\ r[Len(q) + 1] = e
        /\ \A i \in 1..Len(q) : r[i] = q[i]
    BY <1>1, AppendProperties
  <1>3. Len(q) \in 0..1 /\ f \in Nat /\ t \in Nat /\ s \in Nat /\ t <= f
    <2>1. Len(q) \in Nat
      BY <1>1, QueueElements
    <2>2. \A n \in Nat : n <= 1 => n \in 0..1
      OBVIOUS
    <2>3. Len(q) \in 0..1
      BY <2>1, <2>2, Zenon
    <2>4. QED
      BY <2>3 DEF Sound
  <1>4. \A i \in 1..Len(q) : q[i].IsFiring \in BOOLEAN /\ q[i].upTo \in Nat
    BY <1>1, QueueElements
  <1>5. e.IsFiring = flag /\ e.upTo = f
    OBVIOUS
  <1> HIDE DEF e, r
  <1>6. Ordered(r, f, t)
    BY <1>2, <1>3, <1>4, <1>5 DEF Sound, Ordered
  <1>7. s + Firing(r) + One(FALSE) <= f
    <2>1. One(flag) \in 0..1 /\ One(FALSE) = 0
      BY OneIsNat DEF Sound, One
    <2>2. Firing(r) = Firing(q) + One(flag)
      <3>1. /\ Len(q) = 0 => Firing(q) = 0
            /\ Len(q) = 1 => Firing(q) = One(q[1].IsFiring)
            /\ Len(r) = 1 => Firing(r) = One(r[1].IsFiring)
            /\ Len(r) = 2 => Firing(r) = One(r[1].IsFiring) + One(r[2].IsFiring)
        BY <1>1, <1>2, FiringIsNat
      <3>2. CASE Len(q) = 0
        BY <1>2, <1>5, <2>1, <3>1, <3>2
      <3>3. CASE Len(q) = 1
        BY <1>2, <1>5, <2>1, <3>1, <3>3
      <3>4. QED
        BY <1>3, <3>2, <3>3
    <2>3. Firing(q) \in Nat
      BY <1>1, FiringIsNat
    <2>4. s + Firing(q) + One(flag) <= f
      BY DEF Sound
    <2>5. s + Firing(r) + 0 <= f
      BY <1>3, <2>1, <2>2, <2>3, <2>4
    <2>6. QED
      BY <2>1, <2>5, Zenon
  <1>8. ASSUME f > t => Carried(q, flag, f), f > t PROVE Carried(r, FALSE, f)
    <2>1. CASE flag
      <3>1. r[Len(q) + 1].IsFiring /\ r[Len(q) + 1].upTo = f
        BY <1>2, <1>5, <2>1
      <3>2. Len(q) + 1 \in 1..Len(r)
        BY <1>2, <1>3
      <3>3. QED
        BY <3>1, <3>2 DEF Carried
    <2>2. CASE ~flag
      BY <1>2, <1>3, <1>8, <2>2 DEF Carried
    <2>3. QED
      BY <2>1, <2>2
  <1>9. Sound(r, FALSE, f, t, s)
    <2>1. Len(r) <= 2
      BY <1>2, <1>3
    <2>2. QED
      BY <1>2, <1>3, <1>6, <1>7, <2>1 DEF Sound
  <1>10. QED
    BY <1>2, <1>8, <1>9 DEF r, e

\* The queue without its oldest packet.
LEMMA TailFacts ==
    ASSUME NEW q \in Seq(Told), q # <<>>, Len(q) <= 2
    PROVE  /\ Len(q) \in 1..2 /\ Head(q) = q[1]
           /\ Tail(q) \in Seq(Told) /\ Len(Tail(q)) = Len(q) - 1
           /\ Len(Tail(q)) <= 1
           /\ \A i \in 1..Len(Tail(q)) : Tail(q)[i] = q[i + 1]
           /\ Firing(q) = One(Head(q).IsFiring) + Firing(Tail(q))
  <1>1. /\ Len(q) \in Nat \ {0} /\ Head(q) = q[1]
        /\ Tail(q) \in Seq(Told) /\ Len(Tail(q)) = Len(q) - 1
        /\ \A i \in 1..Len(Tail(q)) : Tail(q)[i] = q[i + 1]
    BY EmptySeq, HeadTailProperties
  <1>2. q[1].IsFiring \in BOOLEAN
    BY <1>1, QueueElements
  <1>3. One(q[1].IsFiring) \in 0..1
    BY <1>2, OneIsNat
  <1>4. Firing(q) = One(Head(q).IsFiring) + Firing(Tail(q))
    <2>1. /\ Len(q) = 1 => Firing(q) = One(q[1].IsFiring)
          /\ Len(q) = 2 => Firing(q) = One(q[1].IsFiring) + One(q[2].IsFiring)
          /\ Len(Tail(q)) = 0 => Firing(Tail(q)) = 0
          /\ Len(Tail(q)) = 1 => Firing(Tail(q)) = One(Tail(q)[1].IsFiring)
      BY <1>1, FiringIsNat
    <2>2. CASE Len(q) = 1
      BY <1>1, <1>3, <2>1, <2>2
    <2>3. CASE Len(q) = 2
      <3>1. Len(Tail(q)) = 1 /\ 1 \in 1..Len(Tail(q))
        <4>1. 2 - 1 = 1 /\ 1 \in 1..1
          OBVIOUS
        <4>2. Len(Tail(q)) = Len(q) - 1
          BY <1>1
        <4>3. QED
          BY <2>3, <4>1, <4>2, Zenon
      <3>2. Tail(q)[1] = q[2]
        BY <1>1, <3>1
      <3>3. QED
        BY <1>1, <2>1, <2>3, <3>1, <3>2, Zenon
    <2>4. Len(q) \in 1..2
      BY <1>1
    <2>5. QED
      BY <2>2, <2>3, <2>4
  <1>5. QED
    BY <1>1, <1>4

\* A packet that is taken back leaves its shot in the flag.
LEMMA ReplaceSound ==
    ASSUME NEW q, NEW flag, NEW f, NEW t, NEW s, Sound(q, flag, f, t, s), q # <<>>
    PROVE  /\ Sound(Tail(q), flag \/ Head(q).IsFiring, f, t, s)
           /\ Carried(q, flag, f) => Carried(Tail(q), flag \/ Head(q).IsFiring, f)
  <1>1. q \in Seq(Told) /\ flag \in BOOLEAN /\ f \in Nat /\ t \in Nat /\ s \in Nat
    BY DEF Sound
  <1>2. /\ Len(q) \in 1..2 /\ Head(q) = q[1]
        /\ Tail(q) \in Seq(Told) /\ Len(Tail(q)) = Len(q) - 1
        /\ \A i \in 1..Len(Tail(q)) : Tail(q)[i] = q[i + 1]
        /\ Firing(q) = One(Head(q).IsFiring) + Firing(Tail(q))
    BY <1>1, TailFacts DEF Sound
  <1>3. \A i \in 1..Len(q) : q[i].IsFiring \in BOOLEAN /\ q[i].upTo \in Nat
    BY <1>1, QueueElements
  <1>4. Head(q).IsFiring \in BOOLEAN
    BY <1>2, <1>3
  <1>5. Ordered(Tail(q), f, t)
    BY <1>2, <1>3 DEF Sound, Ordered
  <1>6. s + Firing(Tail(q)) + One(flag \/ Head(q).IsFiring) <= f
    <2>1. /\ One(flag) \in 0..1 /\ One(Head(q).IsFiring) \in 0..1
          /\ One(flag \/ Head(q).IsFiring) <= One(flag) + One(Head(q).IsFiring)
          /\ One(flag \/ Head(q).IsFiring) \in 0..1
      BY <1>1, <1>4, OneIsNat DEF One
    <2>2. Firing(Tail(q)) \in Nat /\ s + Firing(q) + One(flag) <= f
      BY <1>2, FiringIsNat DEF Sound
    <2>3. QED
      BY <1>1, <1>2, <2>1, <2>2
  <1>7. Carried(q, flag, f) => Carried(Tail(q), flag \/ Head(q).IsFiring, f)
    <2>1. SUFFICES ASSUME NEW i \in 1..Len(q), q[i].IsFiring, q[i].upTo = f, i # 1
                   PROVE  \E j \in 1..Len(Tail(q)) :
                            Tail(q)[j].IsFiring /\ Tail(q)[j].upTo = f
      BY <1>2 DEF Carried
    <2>2. i - 1 \in 1..Len(Tail(q)) /\ Tail(q)[i - 1] = q[i]
      BY <1>2, <2>1
    <2>3. QED
      BY <2>1, <2>2
  <1>8. QED
    BY <1>1, <1>2, <1>4, <1>5, <1>6, <1>7 DEF Sound

\* A packet that is sent tells its shot; one that is lost leaves the rest sound.
LEMMA SendSound ==
    ASSUME NEW q, NEW flag, NEW f, NEW t, NEW s, Sound(q, flag, f, t, s), q # <<>>
    PROVE  LET toldShot == IF Head(q).IsFiring THEN Head(q).upTo ELSE t
               count == IF Head(q).IsFiring THEN s + 1 ELSE s
           IN  /\ Sound(Tail(q), flag, f, toldShot, count)
               /\ Sound(Tail(q), flag, f, t, s)
               /\ (f > t => Carried(q, flag, f)) =>
                    (f > toldShot => Carried(Tail(q), flag, f))
  <1> DEFINE toldShot == IF Head(q).IsFiring THEN Head(q).upTo ELSE t
             count == IF Head(q).IsFiring THEN s + 1 ELSE s
  <1>1. q \in Seq(Told) /\ flag \in BOOLEAN /\ f \in Nat /\ t \in Nat /\ s \in Nat
    BY DEF Sound
  <1>2. /\ Len(q) \in 1..2 /\ Head(q) = q[1]
        /\ Tail(q) \in Seq(Told) /\ Len(Tail(q)) = Len(q) - 1
        /\ \A i \in 1..Len(Tail(q)) : Tail(q)[i] = q[i + 1]
        /\ Firing(q) = One(Head(q).IsFiring) + Firing(Tail(q))
    BY <1>1, TailFacts DEF Sound
  <1>3. \A i \in 1..Len(q) : q[i].IsFiring \in BOOLEAN /\ q[i].upTo \in Nat
    BY <1>1, QueueElements
  <1>4. /\ toldShot \in Nat /\ t <= toldShot /\ toldShot <= f
        /\ Ordered(Tail(q), f, toldShot) /\ Ordered(Tail(q), f, t)
    BY <1>1, <1>2, <1>3 DEF Sound, Ordered
  <1>5. count + Firing(Tail(q)) + One(flag) <= f /\ s + Firing(Tail(q)) + One(flag) <= f
    <2>1. One(flag) \in 0..1 /\ One(Head(q).IsFiring) \in 0..1
      BY <1>1, <1>2, <1>3, OneIsNat
    <2>2. count = s + One(Head(q).IsFiring)
      BY <1>1, <1>2, <1>3 DEF One
    <2>3. Firing(Tail(q)) \in Nat /\ s + Firing(q) + One(flag) <= f
      BY <1>2, FiringIsNat DEF Sound
    <2>4. QED
      BY <1>1, <1>2, <2>1, <2>2, <2>3
  <1>6. ASSUME f > t => Carried(q, flag, f), f > toldShot
        PROVE  Carried(Tail(q), flag, f)
    <2>1. SUFFICES ASSUME ~flag
                   PROVE  \E j \in 1..Len(Tail(q)) :
                            Tail(q)[j].IsFiring /\ Tail(q)[j].upTo = f
      BY DEF Carried
    <2>2. f > t
      BY <1>1, <1>4, <1>6
    <2>3. PICK i \in 1..Len(q) : q[i].IsFiring /\ q[i].upTo = f
      BY <1>6, <2>1, <2>2 DEF Carried
    <2>4. i # 1
      BY <1>1, <1>2, <1>6, <2>3
    <2>5. i - 1 \in 1..Len(Tail(q)) /\ Tail(q)[i - 1] = q[i]
      BY <1>2, <2>4
    <2>6. QED
      BY <2>3, <2>5
  <1>7. count \in Nat
    BY <1>1
  <1>8. Sound(Tail(q), flag, f, toldShot, count) /\ Sound(Tail(q), flag, f, t, s)
    BY <1>1, <1>2, <1>4, <1>5, <1>7 DEF Sound
  <1>9. QED
    BY <1>6, <1>8

ClientSound(c) ==
    /\ Sound(Outgoing[c], _isFiringNotSent[c], fired[c], told[c], firingSent[c])
    /\ uiPc[c] # "replace" => Len(Outgoing[c]) <= 1
    /\ netPc[c] # "ended" =>
        (fired[c] > told[c] => Carried(Outgoing[c], _isFiringNotSent[c], fired[c]))

ClientInv ==
    /\ DOMAIN Outgoing = Gamer /\ DOMAIN _isFiringNotSent = Gamer
    /\ DOMAIN fired = Gamer /\ DOMAIN told = Gamer
    /\ DOMAIN firingSent = Player
    /\ DOMAIN uiPc = Gamer /\ DOMAIN netPc = Gamer
    /\ \A c \in Gamer : ClientSound(c)

\* A step of one game leaves the others as they are.
Elsewhere(c) ==
    /\ DOMAIN Outgoing' = DOMAIN Outgoing
    /\ DOMAIN _isFiringNotSent' = DOMAIN _isFiringNotSent
    /\ DOMAIN fired' = DOMAIN fired /\ DOMAIN told' = DOMAIN told
    /\ DOMAIN firingSent' = DOMAIN firingSent
    /\ DOMAIN uiPc' = DOMAIN uiPc /\ DOMAIN netPc' = DOMAIN netPc
    /\ \A d \in Gamer \ {c} :
        /\ Outgoing'[d] = Outgoing[d] /\ _isFiringNotSent'[d] = _isFiringNotSent[d]
        /\ fired'[d] = fired[d] /\ told'[d] = told[d]
        /\ firingSent'[d] = firingSent[d]
        /\ uiPc'[d] = uiPc[d] /\ netPc'[d] = netPc[d]

\* So it is enough to look at that game.
LEMMA OneGame ==
    ASSUME ClientInv, NEW c, Elsewhere(c), c \in Gamer => ClientSound(c)'
    PROVE  ClientInv'
  <1>1. \A d \in Gamer \ {c} : ClientSound(d)'
    BY DEF ClientInv, Elsewhere, ClientSound
  <1>2. QED
    BY <1>1 DEF ClientInv, Elsewhere

\* The steps of the UI thread.
LEMMA UIKeeps ==
    ASSUME ClientInv, NEW c \in Gamer, UI(c), UNCHANGED relayVars
    PROVE  ClientInv'
  <1> DEFINE q == Outgoing[c]
             flag == _isFiringNotSent[c]
  <1>1. /\ ClientSound(c) /\ c \in Player
        /\ DOMAIN Outgoing = Gamer /\ DOMAIN _isFiringNotSent = Gamer
        /\ DOMAIN fired = Gamer /\ DOMAIN uiPc = Gamer
    BY DEF ClientInv, Gamer
  <1>2. CASE Activate(c) \/ ReplaceNothing(c) \/ UnloadContent(c)
    <2>1. /\ UNCHANGED <<Outgoing, _isFiringNotSent, fired, told, firingSent, netPc>>
          /\ DOMAIN uiPc' = DOMAIN uiPc
          /\ \A d \in Gamer \ {c} : uiPc'[d] = uiPc[d]
          /\ uiPc'[c] # "replace"
      BY <1>1, <1>2 DEF Activate, ReplaceNothing, UnloadContent, netVars
    <2>2. uiPc[c] = "replace" => Len(Outgoing[c]) <= 1
      <3>1. uiPc[c] = "replace" => Outgoing[c] = <<>>
        BY <1>2 DEF Activate, ReplaceNothing, UnloadContent
      <3>2. Len(<<>>) = 0
        BY EmptySeq
      <3>3. QED
        BY <3>1, <3>2
    <2>3. ClientSound(c)'
      BY <1>1, <2>1, <2>2 DEF ClientSound
    <2>4. Elsewhere(c)
      BY <2>1 DEF Elsewhere
    <2>5. QED
      BY <2>3, <2>4, OneGame
  <1>3. CASE Frame(c)
    <2>1. PICK shot \in 0..1 :
            /\ fired' = [fired EXCEPT ![c] = @ + shot]
            /\ _isFiringNotSent' = [_isFiringNotSent EXCEPT ![c] = @ \/ shot = 1]
      BY <1>3 DEF Frame
    <2>2. UNCHANGED <<Outgoing, told, firingSent, uiPc, netPc>>
      BY <1>3 DEF Frame, netVars
    <2>3. fired'[c] = fired[c] + shot /\ _isFiringNotSent'[c] = (flag \/ shot = 1)
      BY <1>1, <2>1
    <2>4. ClientSound(c)'
      BY <1>1, <2>2, <2>3, ShotSound DEF ClientSound
    <2>5. Elsewhere(c)
      BY <1>1, <2>1, <2>2 DEF Elsewhere
    <2>6. QED
      BY <2>4, <2>5, OneGame
  <1>4. CASE FrameSends(c)
    <2>1. PICK shot \in 0..1 :
            /\ fired' = [fired EXCEPT ![c] = @ + shot]
            /\ Outgoing' = [Outgoing EXCEPT ![c] = Append(@,
                    [IsFiring |-> flag \/ shot = 1, upTo |-> fired[c] + shot])]
      BY <1>4 DEF FrameSends
    <2>2. /\ UNCHANGED <<told, firingSent, netPc>>
          /\ uiPc[c] = "frame"
          /\ _isFiringNotSent' = [_isFiringNotSent EXCEPT ![c] = FALSE]
          /\ q # <<>> => uiPc' = [uiPc EXCEPT ![c] = "replace"]
          /\ q = <<>> => uiPc' = uiPc
      BY <1>4 DEF FrameSends, AreTwo, netVars
    <2>3. Len(q) <= 1
      BY <1>1, <2>2 DEF ClientSound
    <2>4. /\ fired'[c] = fired[c] + shot /\ _isFiringNotSent'[c] = FALSE
          /\ Outgoing'[c] = Append(q, [IsFiring |-> flag \/ shot = 1,
                                       upTo |-> fired[c] + shot])
      BY <1>1, <2>1, <2>2
    <2>5. /\ Sound(q, flag \/ shot = 1, fired[c] + shot, told[c], firingSent[c])
          /\ (fired[c] > told[c] => Carried(q, flag, fired[c])) =>
               (fired[c] + shot > told[c] =>
                    Carried(q, flag \/ shot = 1, fired[c] + shot))
      BY <1>1, ShotSound DEF ClientSound
    <2>6. LET r == Append(q, [IsFiring |-> flag \/ shot = 1, upTo |-> fired[c] + shot])
          IN  /\ Sound(r, FALSE, fired[c] + shot, told[c], firingSent[c])
              /\ Len(r) = Len(q) + 1
              /\ (fired[c] + shot > told[c] =>
                        Carried(q, flag \/ shot = 1, fired[c] + shot)) =>
                   (fired[c] + shot > told[c] => Carried(r, FALSE, fired[c] + shot))
      BY <2>3, <2>5, QueueSound
    <2>7. /\ Sound(Outgoing'[c], FALSE, fired'[c], told[c], firingSent[c])
          /\ Len(Outgoing'[c]) = Len(q) + 1
          /\ (fired'[c] > told[c] => Carried(q, flag \/ shot = 1, fired'[c])) =>
               (fired'[c] > told[c] => Carried(Outgoing'[c], FALSE, fired'[c]))
      BY <2>4, <2>6, Zenon
    <2>8. uiPc'[c] # "replace" => Len(Outgoing'[c]) <= 1
      <3>1. CASE q # <<>>
        BY <1>1, <2>2, <3>1
      <3>2. CASE q = <<>>
        <4>1. Len(q) = 0
          BY <3>2, EmptySeq
        <4>2. QED
          BY <2>7, <4>1
      <3>3. QED
        BY <3>1, <3>2
    <2>9. ClientSound(c)'
      BY <1>1, <2>2, <2>4, <2>5, <2>7, <2>8 DEF ClientSound
    <2>10. Elsewhere(c)
      BY <1>1, <2>1, <2>2 DEF Elsewhere
    <2>11. QED
      BY <2>9, <2>10, OneGame
  <1>5. CASE Replace(c)
    <2>1. /\ q # <<>>
          /\ UNCHANGED <<fired, told, firingSent, netPc>>
          /\ Outgoing' = [Outgoing EXCEPT ![c] = Tail(@)]
          /\ _isFiringNotSent' =
                [_isFiringNotSent EXCEPT ![c] = flag \/ Head(q).IsFiring]
          /\ uiPc' = [uiPc EXCEPT ![c] = "frame"]
      BY <1>5 DEF Replace, CarryShot, netVars
    <2>2. Outgoing'[c] = Tail(q) /\ _isFiringNotSent'[c] = (flag \/ Head(q).IsFiring)
      BY <1>1, <2>1
    <2>3. q \in Seq(Told) /\ Len(q) <= 2
      BY <1>1 DEF ClientSound, Sound
    <2>4. Len(Tail(q)) <= 1
      BY <2>1, <2>3, TailFacts
    <2>5. /\ Sound(Tail(q), flag \/ Head(q).IsFiring, fired[c], told[c], firingSent[c])
          /\ Carried(q, flag, fired[c]) =>
                Carried(Tail(q), flag \/ Head(q).IsFiring, fired[c])
      BY <1>1, <2>1, ReplaceSound DEF ClientSound
    <2>6. ClientSound(c)'
      BY <1>1, <2>1, <2>2, <2>4, <2>5 DEF ClientSound
    <2>7. Elsewhere(c)
      BY <1>1, <2>1 DEF Elsewhere
    <2>8. QED
      BY <2>6, <2>7, OneGame
  <1>6. QED
    BY <1>2, <1>3, <1>4, <1>5 DEF UI

\* The steps of the networking task.
LEMMA NetworkingKeeps ==
    ASSUME ClientInv, NEW c \in Gamer, Networking(c)
    PROVE  ClientInv'
  <1> DEFINE q == Outgoing[c]
  <1>1. /\ ClientSound(c) /\ c \in Player
        /\ DOMAIN Outgoing = Gamer /\ DOMAIN told = Gamer /\ DOMAIN netPc = Gamer
        /\ DOMAIN firingSent = Player
        /\ q \in Seq(Told) /\ Len(q) <= 2
    BY DEF ClientInv, ClientSound, Sound, Gamer
  <1>2. CASE StartNetworking(c) \/ Receive(c) \/ ReceiveFails(c) \/ NetworkingEnds(c)
    <2>1. /\ UNCHANGED <<Outgoing, _isFiringNotSent, fired, told, firingSent, uiPc>>
          /\ DOMAIN netPc' = DOMAIN netPc
          /\ \A d \in Gamer \ {c} : netPc'[d] = netPc[d]
          /\ netPc[c] = "ended" => netPc'[c] = "ended"
      BY <1>1, <1>2
         DEF StartNetworking, Receive, ReceiveFails, NetworkingEnds, uiVars, netVars
    <2>2. ClientSound(c)'
      BY <1>1, <2>1 DEF ClientSound
    <2>3. Elsewhere(c)
      BY <2>1 DEF Elsewhere
    <2>4. QED
      BY <2>2, <2>3, OneGame
  <1>3. CASE Send(c) \/ SendFails(c)
    <2>1. /\ q # <<>>
          /\ UNCHANGED <<_isFiringNotSent, fired, uiPc>>
          /\ Outgoing' = [Outgoing EXCEPT ![c] = Tail(@)]
      BY <1>3 DEF Send, SendFails, uiVars
    <2>2. Outgoing'[c] = Tail(q)
      BY <1>1, <2>1
    <2>3. Len(Tail(q)) <= 1
      BY <1>1, <2>1, TailFacts
    <2>4. CASE Send(c)
      <3>1. /\ told' = [told EXCEPT ![c] = IF Head(q).IsFiring THEN Head(q).upTo ELSE @]
            /\ firingSent' = [firingSent EXCEPT ![c] =
                    IF Head(q).IsFiring THEN @ + 1 ELSE @]
            /\ netPc[c] = "loop" /\ UNCHANGED netPc
        BY <2>4 DEF Send
      <3>2. /\ told'[c] = IF Head(q).IsFiring THEN Head(q).upTo ELSE told[c]
            /\ firingSent'[c] =
                    IF Head(q).IsFiring THEN firingSent[c] + 1 ELSE firingSent[c]
        BY <1>1, <3>1
      <3>3. /\ Sound(Tail(q), _isFiringNotSent[c], fired[c], told'[c], firingSent'[c])
            /\ (fired[c] > told[c] => Carried(q, _isFiringNotSent[c], fired[c])) =>
                 (fired[c] > told'[c] =>
                    Carried(Tail(q), _isFiringNotSent[c], fired[c]))
        BY <1>1, <2>1, <3>2, SendSound DEF ClientSound
      <3>4. ClientSound(c)'
        BY <1>1, <2>1, <2>2, <2>3, <3>1, <3>3 DEF ClientSound
      <3>5. Elsewhere(c)
        BY <1>1, <2>1, <3>1 DEF Elsewhere
      <3>6. QED
        BY <3>4, <3>5, OneGame
    <2>5. CASE SendFails(c)
      <3>1. UNCHANGED <<told, firingSent>> /\ netPc' = [netPc EXCEPT ![c] = "ended"]
        BY <2>5 DEF SendFails
      <3>2. Sound(Tail(q), _isFiringNotSent[c], fired[c], told[c], firingSent[c])
        BY <1>1, <2>1, SendSound DEF ClientSound
      <3>3. netPc'[c] = "ended"
        BY <1>1, <3>1
      <3>4. ClientSound(c)'
        BY <2>1, <2>2, <2>3, <3>1, <3>2, <3>3 DEF ClientSound
      <3>5. Elsewhere(c)
        BY <1>1, <2>1, <3>1 DEF Elsewhere
      <3>6. QED
        BY <3>4, <3>5, OneGame
    <2>6. QED
      BY <1>3, <2>4, <2>5
  <1>4. QED
    BY <1>2, <1>3 DEF Networking

\* Every step keeps the invariant of the games.
LEMMA ClientStep == ClientInv /\ [Next]_vars => ClientInv'
  <1>1. SUFFICES ASSUME ClientInv, [Next]_vars PROVE ClientInv'
    OBVIOUS
  <1>2. CASE \E c \in Gamer : ClientNext(c)
    BY <1>1, <1>2, UIKeeps, NetworkingKeeps DEF ClientNext
  <1>3. CASE \E c \in Guest : GuestSends(c)
    <2>1. PICK c \in Guest : GuestSends(c)
      BY <1>3
    <2>2. PICK firing \in BOOLEAN :
            firingSent' = [firingSent EXCEPT ![c] = IF firing THEN @ + 1 ELSE @]
      BY <2>1 DEF GuestSends
    <2>3. c \notin Gamer
      BY DEF Gamer
    <2>4. UNCHANGED <<Outgoing, _isFiringNotSent, fired, told, uiPc, netPc>>
      BY <2>1 DEF GuestSends, uiVars
    <2>5. Elsewhere(c)
      BY <1>1, <2>2, <2>4 DEF Elsewhere, ClientInv, Gamer
    <2>6. QED
      BY <1>1, <2>3, <2>5, OneGame
  <1>4. CASE RelayNext \/ TimePasses \/ UNCHANGED vars
    <2>1. UNCHANGED <<Outgoing, _isFiringNotSent, fired, told, firingSent, uiPc, netPc>>
      BY <1>4 DEF RelayNext, TimePasses, vars, clientVars, uiVars, netVars
    <2>2. QED
      BY <1>1, <2>1 DEF ClientInv, ClientSound
  <1>5. QED
    BY <1>1, <1>2, <1>3, <1>4 DEF Next

\* The invariant of the games holds.
THEOREM ClientInvariant == Spec => []ClientInv
  <1>1. ASSUME Init PROVE ClientInv
    <2>1. /\ Outgoing = [c \in Gamer |-> <<>>]
          /\ _isFiringNotSent = [c \in Gamer |-> FALSE]
          /\ fired = [c \in Gamer |-> 0] /\ told = [c \in Gamer |-> 0]
          /\ firingSent = [c \in Player |-> 0]
          /\ uiPc = [c \in Gamer |-> "inactive"] /\ netPc = [c \in Gamer |-> "start"]
      BY <1>1 DEF Init, ClientInit
    <2>2. <<>> \in Seq(Told) /\ Len(<<>>) = 0
      BY EmptySeq
    <2>3. Sound(<<>>, FALSE, 0, 0, 0)
      BY <2>2, EmptySound
    <2>4. ASSUME NEW c \in Gamer PROVE ClientSound(c)
      <3>1. c \in Player
        BY DEF Gamer
      <3>2. /\ Outgoing[c] = <<>> /\ _isFiringNotSent[c] = FALSE
            /\ fired[c] = 0 /\ told[c] = 0 /\ firingSent[c] = 0
        BY <2>1, <3>1
      <3>3. Sound(Outgoing[c], _isFiringNotSent[c], fired[c], told[c], firingSent[c])
        BY <2>3, <3>2, Zenon
      <3>4. Len(Outgoing[c]) <= 1 /\ ~(fired[c] > told[c])
        BY <2>2, <3>2
      <3>5. QED
        BY <3>3, <3>4 DEF ClientSound
    <2>5. QED
      BY <2>1, <2>4 DEF ClientInv
  <1>2. QED
    BY <1>1, ClientStep, PTL DEF Spec

\* A shot that no packet sent has told yet is in the flag or in the queue,
\* however the UI thread and the networking task interleave.
THEOREM ShotsCarried == Spec => []ShotsAreCarried
  <1>1. ASSUME ClientInv PROVE ShotsAreCarried
    <2>1. SUFFICES ASSUME NEW c \in Gamer, fired[c] > told[c], netPc[c] # "ended"
                   PROVE  \/ _isFiringNotSent[c]
                          \/ \E i \in DOMAIN Outgoing[c] :
                                /\ Outgoing[c][i].IsFiring
                                /\ Outgoing[c][i].upTo = fired[c]
      BY DEF ShotsAreCarried
    <2>2. /\ Carried(Outgoing[c], _isFiringNotSent[c], fired[c])
          /\ Outgoing[c] \in Seq(Told)
      BY <1>1, <2>1 DEF ClientInv, ClientSound, Sound
    <2>3. DOMAIN Outgoing[c] = 1..Len(Outgoing[c])
      BY <2>2, QueueElements
    <2>4. QED
      BY <2>2, <2>3 DEF Carried
  <1>2. QED
    BY <1>1, ClientInvariant, PTL

\* No game sends more firing packets than shots were fired, although a shot is
\* put back into the flag when its packet is replaced.
THEOREM ToldOnce == Spec => []NoShotToldTwice
  <1>1. ASSUME ClientInv PROVE NoShotToldTwice
    <2>1. SUFFICES ASSUME NEW c \in Gamer PROVE firingSent[c] <= fired[c]
      BY DEF NoShotToldTwice
    <2>2. Sound(Outgoing[c], _isFiringNotSent[c], fired[c], told[c], firingSent[c])
      BY <1>1 DEF ClientInv, ClientSound
    <2>3. /\ Firing(Outgoing[c]) \in Nat /\ One(_isFiringNotSent[c]) \in 0..1
      BY <2>2, FiringIsNat, OneIsNat DEF Sound
    <2>4. /\ firingSent[c] \in Nat /\ fired[c] \in Nat
          /\ firingSent[c] + Firing(Outgoing[c]) + One(_isFiringNotSent[c]) <= fired[c]
      BY <2>2 DEF Sound
    <2>5. QED
      BY <2>3, <2>4
  <1>2. QED
    BY <1>1, ClientInvariant, PTL

-----------------------------------------------------------------------------
(* Sums. *)

\* The sum of the library.
Total(f, D) == FoldFunctionOnSet(+, 0, f, D)

\* g sums f up, whichever element of a set comes last.
Adds(f, D, g) ==
    /\ g \in [SUBSET D -> Nat] /\ g[{}] = 0
    /\ \A s \in SUBSET D : \A x \in s : g[s] = f[x] + g[s \ {x}]

\* So the library's sum, which takes them in an order of its own, is g's.
LEMMA TotalIs ==
    ASSUME NEW D, IsFiniteSet(D), NEW f, NEW g, Adds(f, D, g)
    PROVE  Total(f, D) = g[D]
  <1> USE DEF Adds
  <1> DEFINE Is(h) == h = [s \in SUBSET D |->
                        IF s = {} THEN 0
                        ELSE LET x == CHOOSE x \in s : TRUE IN f[x] + h[s \ {x}]]
  <1>1. Is(g)
    <2>1. \A s \in SUBSET D : g[s] = IF s = {} THEN 0
                        ELSE LET x == CHOOSE x \in s : TRUE IN f[x] + g[s \ {x}]
      <3> SUFFICES ASSUME NEW s \in SUBSET D, s # {} PROVE
             g[s] = f[CHOOSE x \in s : TRUE] + g[s \ {CHOOSE x \in s : TRUE}]
        OBVIOUS
      <3>1. (CHOOSE x \in s : TRUE) \in s
        OBVIOUS
      <3>2. QED
        BY <3>1
    <2>2. QED
      BY <2>1
  <1>2. Total(f, D) = (CHOOSE h : Is(h))[D]
    BY DEF Total, FoldFunctionOnSet, MapThenFoldSet
  <1> DEFINE iter == CHOOSE h : Is(h)
  <1>3. Is(iter)
    <2> HIDE DEF Is
    <2>1. QED
      BY <1>1
  <1> HIDE DEF iter
  <1>4. \A s \in SUBSET D : IsFiniteSet(s) /\ Cardinality(s) \in Nat
    BY FS_Subset, FS_CardinalityType
  <1> DEFINE n == Cardinality(D)
             T == {k \in 0..n : \A s \in SUBSET D : Cardinality(s) <= k => iter[s] = g[s]}
  <1>5. \A s \in SUBSET D : Cardinality(s) <= n
    BY FS_Subset
  <1>6. n \in Nat
    BY <1>4
  <1>7. 0 \in T
    <2>1. ASSUME NEW s \in SUBSET D, Cardinality(s) <= 0 PROVE s = {}
      BY <1>4, <2>1, FS_EmptySet
    <2>2. iter[{}] = 0
      BY <1>3
    <2>3. \A s \in SUBSET D : Cardinality(s) <= 0 => iter[s] = g[s]
      BY <2>1, <2>2
    <2>4. 0 \in 0..n
      BY <1>6
    <2>5. QED
      BY <2>3, <2>4
  <1> HIDE DEF n
  <1>8. ASSUME NEW k \in 0..n - 1, k \in T PROVE k + 1 \in T
    <2>1. ASSUME NEW s \in SUBSET D, Cardinality(s) <= k + 1, s # {} PROVE iter[s] = g[s]
      <3> DEFINE x == CHOOSE x \in s : TRUE
      <3>1. x \in s
        BY <2>1
      <3>2. Cardinality(s \ {x}) <= k
        <4> HIDE DEF x
        <4>1. Cardinality(s \ {x}) = Cardinality(s) - 1
          BY <1>4, <3>1, FS_RemoveElement
        <4>2. QED
          BY <1>4, <2>1, <4>1, <1>6
      <3>3. iter[s \ {x}] = g[s \ {x}]
        BY <1>8, <3>2
      <3>4. iter[s] = f[x] + iter[s \ {x}]
        BY <1>3, <2>1
      <3>5. g[s] = f[x] + g[s \ {x}]
        BY <3>1
      <3> HIDE DEF x
      <3>6. QED
        BY <3>3, <3>4, <3>5
    <2>2. iter[{}] = g[{}]
      BY <1>3
    <2>3. k + 1 \in 0..n
      BY <1>6
    <2>4. QED
      BY <2>1, <2>2, <2>3
  <1>9. n \in T
    <2> HIDE DEF T
    <2>1. \A k \in 0..n - 1 : k \in T => k + 1 \in T
      BY <1>8
    <2>2. n \in 0..n
      BY <1>6
    <2>3. QED
      BY <1>6, <1>7, <2>1, <2>2, Induction
  <1>10. iter[D] = g[D]
    BY <1>5, <1>9
  <1>11. QED
    BY <1>2, <1>10 DEF iter

-----------------------------------------------------------------------------
(* The packets of a frame. *)

TakenState == [Ticks : Nat, isFiring : BOOLEAN]

\* A packet is taken if it is newer; a shot is that of the packet just taken.
LEMMA TookFacts ==
    ASSUME NEW next \in TakenState, NEW packet \in Packet
    PROVE  /\ Took(next, packet) \in TakenState
           /\ next.Ticks <= Took(next, packet).Ticks
           /\ Took(next, packet).isFiring =>
                \/ next.isFiring
                \/ packet.IsFiring /\ next.Ticks < packet.Ticks
                    /\ packet.Ticks = Took(next, packet).Ticks
  <1>1. /\ next.Ticks \in Nat /\ packet.Ticks \in Nat
        /\ next.isFiring \in BOOLEAN /\ packet.IsFiring \in BOOLEAN
    BY DEF TakenState, Packet
  <1>2. CASE Newer(next, packet)
    <2>1. Took(next, packet) = [Ticks |-> packet.Ticks,
                                isFiring |-> ~next.isFiring /\ packet.IsFiring]
      BY <1>2 DEF Took
    <2> DEFINE firing == ~next.isFiring /\ packet.IsFiring
    <2>2. firing \in BOOLEAN /\ (firing => packet.IsFiring)
      BY <1>1
    <2>3. Took(next, packet) = [Ticks |-> packet.Ticks, isFiring |-> firing]
      BY <2>1
    <2> HIDE DEF firing
    <2>4. /\ Took(next, packet) \in TakenState /\ Took(next, packet).Ticks = packet.Ticks
          /\ Took(next, packet).isFiring = firing
      BY <1>1, <2>2, <2>3 DEF TakenState
    <2>5. next.Ticks < packet.Ticks
      BY <1>1, <1>2 DEF Newer
    <2>6. next.Ticks <= packet.Ticks
      BY <1>1, <2>5
    <2>7. QED
      BY <2>2, <2>4, <2>5, <2>6, Zenon
  <1>3. CASE ~Newer(next, packet)
    <2>1. Took(next, packet) = next
      BY <1>3 DEF Took
    <2>2. next.Ticks <= next.Ticks
      BY <1>1
    <2>3. QED
      BY <2>1, <2>2, Zenon
  <1>4. QED
    BY <1>2, <1>3

\* What is taken is what the rounds of the loop make of it.
LEMMA TakenRoundsIs ==
    ASSUME NEW S \in SUBSET Packet, NEW queue \in Seq(S), NEW first \in TakenState
    PROVE  /\ TakenRounds(first, queue)[0] = first
           /\ \A k \in 1..Len(queue) :
                TakenRounds(first, queue)[k] = Took(TakenRounds(first, queue)[k - 1], queue[k])
  <1> DEFINE n == Len(queue)
             X == TakenState
             step == [k \in 1..n |-> [next \in X |-> Took(next, queue[k])]]
  <1>1. n \in Nat /\ \A k \in 1..n : queue[k] \in Packet
    <2>1. n \in Nat /\ \A k \in 1..n : queue[k] \in S
      BY LenProperties, ElementOfSeq
    <2>2. QED
      BY <2>1
  <1>2. step \in [1..n -> [X -> X]]
    <2>1. \A k \in 1..n : \A next \in X : Took(next, queue[k]) \in X
      BY <1>1, TookFacts
    <2>2. QED
      BY <2>1
  <1>3. PICK f : Rounds(n, X, first, step, f)
    <2> HIDE DEF n, X, step
    <2>1. first \in X
      BY DEF X
    <2>2. QED
      BY <1>1, <1>2, <2>1, Recursion
  <1>4. f \in [0..n -> TakenState] /\ f[0] = first /\ \A k \in 1..n : f[k] = Took(f[k - 1], queue[k])
    <2>1. \A k \in 1..n : k - 1 \in 0..n
      BY <1>1
    <2>2. f \in [0..n -> X]
      BY <1>3 DEF Rounds
    <2>3. \A k \in 1..n : f[k - 1] \in X
      <3> HIDE DEF n, X
      <3>1. QED
        BY <2>1, <2>2
    <2>4. QED
      BY <1>3, <2>2, <2>3 DEF Rounds
  <1> HIDE DEF step
  <1> DEFINE Is(g) == g = [k \in 0..n |-> IF k = 0 THEN first ELSE Took(g[k - 1], queue[k])]
  <1>5. Is(f)
    <2>1. \A k \in 0..n : f[k] = IF k = 0 THEN first ELSE Took(f[k - 1], queue[k])
      BY <1>1, <1>4
    <2>2. QED
      BY <1>4, <2>1
  <1>6. TakenRounds(first, queue) = CHOOSE g : Is(g)
    BY DEF TakenRounds
  <1> DEFINE rounds == TakenRounds(first, queue)
  <1>7. Is(rounds)
    <2> HIDE DEF Is
    <2>1. QED
      BY <1>5, <1>6
  <1> HIDE DEF rounds
  <1>8. \A k \in 1..n : k \in 0..n /\ k # 0
    BY <1>1
  <1>9. rounds[0] = first /\ \A k \in 1..n : rounds[k] = Took(rounds[k - 1], queue[k])
    BY <1>1, <1>7, <1>8
  <1>10. QED
    BY <1>9 DEF rounds

\* After the loop, a shot to be shown is that of a packet newer than all that were
\* taken in earlier frames, and no newer than the last one taken now.
LEMMA TakenFacts ==
    ASSUME NEW S \in SUBSET Packet, NEW c, Incoming[c] \in Seq(S), _nextTicks[c] \in Nat
    PROVE  /\ Taken(c) \in TakenState
           /\ _nextTicks[c] <= Taken(c).Ticks
           /\ Taken(c).isFiring =>
                \E packet \in S :
                    /\ packet.IsFiring
                    /\ _nextTicks[c] < packet.Ticks /\ packet.Ticks <= Taken(c).Ticks
  <1> DEFINE queue == Incoming[c]
             last == _nextTicks[c]
             n == Len(queue)
             first == [Ticks |-> last, isFiring |-> FALSE]
             after == TakenRounds(first, queue)
             Shot(next) == \E packet \in S : packet.IsFiring /\ last < packet.Ticks
                                                /\ packet.Ticks <= next.Ticks
             X == {next \in TakenState : last <= next.Ticks /\ (next.isFiring => Shot(next))}
  <1>1. first \in TakenState /\ first.Ticks = last /\ first.isFiring = FALSE
    BY DEF TakenState
  <1>2. queue \in Seq(S) /\ last \in Nat
    OBVIOUS
  <1>3. n \in Nat /\ \A k \in 1..n : queue[k] \in S /\ queue[k] \in Packet
    BY LenProperties, ElementOfSeq
  <1> HIDE DEF first, queue, last
  <1>4. after[0] = first /\ \A k \in 1..n : after[k] = Took(after[k - 1], queue[k])
    BY <1>1, <1>2, TakenRoundsIs
  <1>5. Taken(c) = after[n]
    BY DEF Taken, first, queue, last
  <1> HIDE DEF n, after
  <1>6. after[0] \in X
    BY <1>1, <1>2, <1>4
  <1>7. ASSUME NEW k \in 1..n, after[k - 1] \in X PROVE after[k] \in X
    <2> DEFINE next == after[k - 1]
               packet == queue[k]
               taken == Took(next, packet)
    <2>1. next \in TakenState /\ last <= next.Ticks /\ (next.isFiring => Shot(next))
      BY <1>7
    <2>2. packet \in S /\ packet \in Packet
      BY <1>3
    <2>3. after[k] = taken
      BY <1>4
    <2> HIDE DEF next, packet
    <2>4. /\ taken \in TakenState /\ next.Ticks <= taken.Ticks
          /\ taken.isFiring =>
               \/ next.isFiring
               \/ packet.IsFiring /\ next.Ticks < packet.Ticks
                    /\ packet.Ticks = taken.Ticks
      BY <2>1, <2>2, TookFacts
    <2> HIDE DEF taken
    <2>5. last \in Nat /\ next.Ticks \in Nat /\ taken.Ticks \in Nat /\ packet.Ticks \in Nat
      BY <1>2, <2>1, <2>2, <2>4 DEF TakenState, Packet
    <2>6. last <= taken.Ticks
      BY <2>1, <2>4, <2>5
    <2>7. ASSUME next.isFiring PROVE Shot(taken)
      <3>1. PICK p \in S : p.IsFiring /\ last < p.Ticks /\ p.Ticks <= next.Ticks
        BY <2>1, <2>7
      <3>2. p.Ticks \in Nat
        BY DEF Packet
      <3>3. p.Ticks <= taken.Ticks
        BY <2>4, <2>5, <3>1, <3>2
      <3>4. QED
        BY <3>1, <3>3
    <2>8. ASSUME packet.IsFiring, next.Ticks < packet.Ticks, packet.Ticks = taken.Ticks
          PROVE  Shot(taken)
      <3>1. last < packet.Ticks /\ packet.Ticks <= taken.Ticks
        BY <2>1, <2>5, <2>8
      <3>2. QED
        BY <2>2, <2>8, <3>1
    <2> HIDE DEF Shot
    <2>9. taken.isFiring => Shot(taken)
      BY <2>4, <2>7, <2>8
    <2>10. QED
      BY <2>3, <2>4, <2>6, <2>9
  <1>8. after[n] \in X
    <2> HIDE DEF X
    <2>1. \A k \in 0..n : after[k] \in X
      BY <1>3, <1>6, <1>7, RoundsTyped
    <2>2. n \in 0..n
      BY <1>3
    <2>3. QED
      BY <2>1, <2>2
  <1>9. QED
    BY <1>5, <1>8 DEF last

-----------------------------------------------------------------------------
(* The types, and what the others are shown. *)

\* What the others have sent.
FromOthers(c) == {packet \in toRelay : packet.from # c}

\* The variables of the relay and the link have their types, and every packet
\* was sent before now.
LinkInv ==
    /\ LinkTypeOK
    /\ relayUp \in BOOLEAN /\ departed \in BOOLEAN
    /\ DOMAIN players \subseteq Player
    /\ \A address \in DOMAIN players : players[address] \in RocketPlayer
    /\ sweptAt \in 1..now
    /\ IsFiniteSet(toRelay)
    /\ \A packet \in toRelay : packet.Ticks < now
    /\ \A c \in Gamer : inbox[c] \subseteq FromOthers(c)

\* The variables of the games have their types (but for the bound of the queue
\* Outgoing, which ClientInv has), and what is queued for the UI has been sent by
\* another game.
GamesInv ==
    /\ Status \in [Gamer -> {"Connecting", "Connected", "Disconnected"}]
    /\ uiPc \in [Gamer -> {"inactive", "frame", "replace", "gone"}]
    /\ netPc \in [Gamer -> {"start", "loop", "ended"}]
    /\ Outgoing \in [Gamer -> Seq(Queued)]
    /\ DOMAIN Incoming = Gamer
    /\ \A c \in Gamer : Incoming[c] \in Seq(FromOthers(c))
    /\ _isFiringNotSent \in [Gamer -> BOOLEAN]
    /\ _nextTicks \in [Gamer -> Nat]
    /\ fired \in [Gamer -> 0..MaxShots] /\ told \in [Gamer -> 0..MaxShots]
    /\ firingSent \in [Player -> Nat] /\ shown \in [Gamer -> Nat]

\* A sequence over a set is one over a larger set.
LEMMA SeqOfMore ==
    ASSUME NEW S, NEW T, S \subseteq T, NEW q \in Seq(S)
    PROVE  q \in Seq(T)
  <1>1. Len(q) \in Nat /\ q \in [1..Len(q) -> S]
    BY LenProperties
  <1>2. q \in [1..Len(q) -> T]
    BY <1>1
  <1>3. QED
    BY <1>1, <1>2, IsASeq

\* The relay passes a packet only to players with another number than its sender's.
LEMMA SendToKeeps ==
    ASSUME LinkInv, NEW packet \in toRelay, NEW others, packet.from \notin others,
           SendTo(packet, others), toRelay' = toRelay
    PROVE  /\ inbox' \in [Gamer -> SUBSET Packet]
           /\ \A c \in Gamer : inbox'[c] \subseteq FromOthers(c)'
  <1>1. /\ inbox \in [Gamer -> SUBSET Packet] /\ toRelay \subseteq Packet
        /\ \A c \in Gamer : inbox[c] \subseteq FromOthers(c)
    BY DEF LinkInv, LinkTypeOK
  <1>2. \A c \in Gamer : inbox'[c] = IF c \in others THEN inbox[c] \cup {packet} ELSE inbox[c]
    BY DEF SendTo
  <1>3. ASSUME NEW c \in Gamer
        PROVE  inbox'[c] \subseteq FromOthers(c)' /\ inbox'[c] \subseteq Packet
    BY <1>1, <1>2 DEF FromOthers
  <1>4. inbox' \in [Gamer -> SUBSET Packet]
    BY <1>3 DEF SendTo
  <1>5. QED
    BY <1>3, <1>4

\* The relay's steps keep the types.
LEMMA RelayTyped ==
    ASSUME LinkInv, RelayPacket \/ RelayEnds
    PROVE  LinkInv'
  <1>1. /\ now \in Nat /\ now >= 1 /\ toRelay \subseteq Packet
        /\ DOMAIN players \subseteq Player
        /\ \A a \in DOMAIN players : players[a] \in RocketPlayer
        /\ now' = now /\ toRelay' = toRelay
        /\ sweptAt \in 1..now
    BY RelayLinkAssumption DEF LinkInv, LinkTypeOK, RelayPacket, RelayEnds
  <1>2. ASSUME NEW packet \in toRelay
        PROVE  packet.from \notin Others(Updated(packet.from), packet.from)
    BY DEF Others
  <1>3. CASE RelayPacket
    <2>1. PICK packet \in toRelay : Relayed(packet)
      BY <1>3 DEF RelayPacket
    <2> DEFINE sender == packet.from
               table == Updated(sender)
    <2>2. SendTo(packet, Others(table, sender)) /\ Sweep(table)
      BY <2>1 DEF Relayed
    <2>3. sender \in Player
      BY <1>1 DEF Packet
    <2>4. NewID \in 0..BYTE - 1
      <3>1. IsFiniteSet(DOMAIN players)
        BY <1>1, RelayLinkAssumption, FS_Subset
      <3>2. Cardinality(DOMAIN players) \in Nat
        BY <3>1, FS_CardinalityType
      <3>3. QED
        BY <3>2, RelayAssumption DEF NewID
    <2>5. DOMAIN table \subseteq Player /\ \A a \in DOMAIN table : table[a] \in RocketPlayer
      <3>1. DOMAIN table = DOMAIN players \cup {sender}
        BY DEF Updated
      <3>2. ASSUME NEW a \in DOMAIN players, a # sender PROVE table[a] \in RocketPlayer
        BY <1>1, <3>1, <3>2 DEF Updated
      <3>3. table[sender] \in RocketPlayer
        BY <1>1, <2>4, <3>1 DEF Updated, RocketPlayer
      <3>4. QED
        BY <1>1, <2>3, <3>1, <3>2, <3>3
    <2> HIDE DEF table, sender
    <2>6. /\ DOMAIN players' \subseteq Player
          /\ \A a \in DOMAIN players' : players'[a] \in RocketPlayer
          /\ sweptAt' \in 1..now' /\ (departed \in BOOLEAN => departed' \in BOOLEAN)
      <3>1. CASE now - sweptAt >= SWEEP
        <4>1. /\ players' = [a \in DOMAIN table \ Silent(table) |-> table[a]]
              /\ sweptAt' = now /\ departed' = (departed \/ Silent(table) # {})
          BY <2>2, <3>1 DEF Sweep
        <4>2. departed' \in BOOLEAN
          BY <4>1
        <4>3. DOMAIN players' \subseteq DOMAIN table
              /\ \A a \in DOMAIN players' : players'[a] = table[a]
          BY <4>1
        <4>4. sweptAt' \in 1..now'
          BY <1>1, <4>1
        <4>5. QED
          BY <2>5, <4>2, <4>3, <4>4
      <3>2. CASE ~(now - sweptAt >= SWEEP)
        <4>1. players' = table /\ sweptAt' = sweptAt /\ departed' = departed
          BY <2>2, <3>2 DEF Sweep
        <4>2. QED
          BY <1>1, <2>5, <4>1
      <3>3. QED
        BY <3>1, <3>2
    <2>7. /\ inbox' \in [Gamer -> SUBSET Packet]
          /\ \A c \in Gamer : inbox'[c] \subseteq FromOthers(c)'
      BY <1>1, <1>2, <2>2, SendToKeeps DEF table, sender
    <2>8. relayUp' = relayUp
      BY <1>3 DEF RelayPacket
    <2>9. QED
      BY <1>1, <2>6, <2>7, <2>8 DEF LinkInv, LinkTypeOK
  <1>4. CASE RelayEnds
    <2>1. relayUp' = FALSE /\ players' = <<>> /\ sweptAt' = 1 /\ departed' = FALSE
      BY <1>4 DEF RelayEnds
    <2>2. DOMAIN players' = {}
      BY <2>1, NoTable
    <2>3. /\ inbox' \in [Gamer -> SUBSET Packet]
          /\ \A c \in Gamer : inbox'[c] \subseteq FromOthers(c)'
      <3>1. CASE UNCHANGED inbox
        BY <1>1, <3>1 DEF LinkInv, LinkTypeOK, FromOthers
      <3>2. CASE ~UNCHANGED inbox
        <4>1. PICK packet \in toRelay :
                \E reached \in SUBSET (Gamer \cap Others(Updated(packet.from), packet.from)) :
                    SendTo(packet, reached)
          BY <1>4, <3>2 DEF RelayEnds
        <4>2. PICK reached \in SUBSET (Gamer \cap Others(Updated(packet.from), packet.from)) :
                    SendTo(packet, reached)
          BY <4>1
        <4>3. packet.from \notin reached
          BY <1>2, <4>2
        <4>4. QED
          BY <1>1, <4>2, <4>3, SendToKeeps
      <3>3. QED
        BY <3>1, <3>2
    <2>4. /\ DOMAIN players' \subseteq Player
          /\ \A a \in DOMAIN players' : players'[a] \in RocketPlayer
      BY <2>2
    <2>5. sweptAt' \in 1..now'
      BY <1>1, <2>1
    <2>6. relayUp' \in BOOLEAN /\ departed' \in BOOLEAN
      BY <2>1
    <2>7. QED
      BY <1>1, <2>3, <2>4, <2>5, <2>6 DEF LinkInv, LinkTypeOK
  <1>5. QED
    BY <1>3, <1>4

\* A packet that is sent, at an instant of its own, keeps them.
LEMMA SentTyped ==
    ASSUME LinkInv, NEW player \in Player, NEW firing \in BOOLEAN, now < MaxTime,
           toRelay' = toRelay \cup {[from |-> player, Ticks |-> now, IsFiring |-> firing]},
           now' = now + 1, UNCHANGED <<inbox, relayVars>>
    PROVE  /\ LinkInv'
           /\ \A c \in Gamer : FromOthers(c) \subseteq FromOthers(c)'
  <1> DEFINE packet == [from |-> player, Ticks |-> now, IsFiring |-> firing]
  <1>1. /\ now \in 1..MaxTime /\ toRelay \subseteq Packet /\ sweptAt \in 1..now
        /\ IsFiniteSet(toRelay) /\ MaxTime \in Nat
        /\ \A p \in toRelay : p.Ticks < now /\ p.Ticks \in Nat
    BY RelayLinkAssumption DEF LinkInv, LinkTypeOK, Packet
  <1>2. packet \in Packet /\ packet.Ticks = now
    BY <1>1 DEF Packet
  <1>3. toRelay' = toRelay \cup {packet}
    OBVIOUS
  <1> HIDE DEF packet
  <1>4. IsFiniteSet(toRelay') /\ toRelay' \subseteq Packet
    BY <1>1, <1>2, <1>3, FS_AddElement
  <1>5. \A p \in toRelay' : p.Ticks < now'
    <2> SUFFICES ASSUME NEW p \in toRelay' PROVE p.Ticks < now + 1
      OBVIOUS
    <2>1. CASE p \in toRelay
      BY <1>1, <2>1
    <2>2. CASE p = packet
      BY <1>1, <1>2, <2>2
    <2>3. QED
      BY <1>3, <2>1, <2>2
  <1>6. \A c \in Gamer : FromOthers(c) \subseteq FromOthers(c)'
    BY <1>3 DEF FromOthers
  <1>7. now' \in 1..MaxTime /\ sweptAt' \in 1..now'
    BY <1>1 DEF relayVars
  <1>8. \A c \in Gamer : inbox'[c] \subseteq FromOthers(c)'
    BY <1>6 DEF LinkInv
  <1>9. QED
    BY <1>4, <1>5, <1>6, <1>7, <1>8 DEF LinkInv, LinkTypeOK, relayVars

\* The firing packets of a player, and those of the others up to the last packet
\* taken.
FiringFrom(c) == {packet \in toRelay : packet.IsFiring /\ packet.from = c}
SeenBy(c) == {packet \in FromOthers(c) : packet.IsFiring /\ packet.Ticks <= _nextTicks[c]}

\* A firing packet counts for its sender, and once for the shots that the others
\* are shown.
CountInv ==
    /\ \A c \in Player : firingSent[c] = Cardinality(FiringFrom(c))
    /\ \A c \in Gamer : shown[c] <= Cardinality(SeenBy(c))

ShotsInv == LinkInv /\ GamesInv /\ CountInv

\* The end of a frame keeps the types, and shows at most the shot of a packet that
\* has not been counted.
LEMMA UpdateOtherKeeps ==
    ASSUME ShotsInv, NEW c \in Gamer, UpdateOther(c), toRelay' = toRelay
    PROVE  /\ DOMAIN Incoming' = Gamer
           /\ \A d \in Gamer : Incoming'[d] \in Seq(FromOthers(d)')
           /\ _nextTicks' \in [Gamer -> Nat] /\ shown' \in [Gamer -> Nat]
           /\ \A d \in Gamer : shown'[d] <= Cardinality(SeenBy(d)')
  <1>1. /\ toRelay \subseteq Packet /\ IsFiniteSet(toRelay)
        /\ DOMAIN Incoming = Gamer
        /\ \A d \in Gamer : Incoming[d] \in Seq(FromOthers(d))
        /\ _nextTicks \in [Gamer -> Nat] /\ shown \in [Gamer -> Nat]
        /\ \A d \in Gamer : shown[d] <= Cardinality(SeenBy(d))
    BY DEF ShotsInv, LinkInv, LinkTypeOK, GamesInv, CountInv
  <1> DEFINE ticks == Taken(c).Ticks
             firing == Taken(c).isFiring
             last == _nextTicks[c]
  <1>2. /\ Incoming' = [Incoming EXCEPT ![c] = <<>>]
        /\ _nextTicks' = [_nextTicks EXCEPT ![c] = ticks]
        /\ \/ shown' = shown
           \/ firing /\ shown' = [shown EXCEPT ![c] = shown[c] + 1]
    <2>1. /\ Incoming' = [Incoming EXCEPT ![c] = <<>>]
          /\ _nextTicks' = [_nextTicks EXCEPT ![c] = ticks]
          /\ \/ shown' = shown
             \/ shown' = [shown EXCEPT ![c] = IF firing THEN shown[c] + 1 ELSE shown[c]]
      BY DEF UpdateOther
    <2> HIDE DEF ticks, firing
    <2>2. CASE firing
      BY <2>1, <2>2
    <2>3. CASE ~firing
      <3>1. [shown EXCEPT ![c] = shown[c]] = shown
        BY <1>1
      <3>2. QED
        BY <2>1, <2>3, <3>1
    <2>4. QED
      BY <2>2, <2>3
  <1>3. /\ ticks \in Nat /\ last \in Nat /\ last <= ticks
        /\ firing => \E packet \in FromOthers(c) :
                        /\ packet.IsFiring
                        /\ last < packet.Ticks /\ packet.Ticks <= ticks
    <2>1. FromOthers(c) \in SUBSET Packet
      BY <1>1 DEF FromOthers
    <2>2. _nextTicks[c] \in Nat /\ Incoming[c] \in Seq(FromOthers(c))
      BY <1>1
    <2>3. Taken(c) \in TakenState => Taken(c).Ticks \in Nat
      BY DEF TakenState
    <2>4. QED
      BY <2>1, <2>2, <2>3, TakenFacts
  <1> HIDE DEF ticks, firing
  <1>4. /\ DOMAIN Incoming' = Gamer
        /\ \A d \in Gamer : Incoming'[d] \in Seq(FromOthers(d)')
    <2>1. \A d \in Gamer : FromOthers(d)' = FromOthers(d)
      BY DEF FromOthers
    <2>2. <<>> \in Seq(FromOthers(c))
      BY EmptySeq
    <2>3. Incoming'[c] = <<>> /\ \A d \in Gamer \ {c} : Incoming'[d] = Incoming[d]
      BY <1>1, <1>2
    <2>4. DOMAIN Incoming' = Gamer
      BY <1>1, <1>2
    <2>5. QED
      BY <1>1, <2>1, <2>2, <2>3, <2>4
  <1>5. _nextTicks' \in [Gamer -> Nat] /\ shown' \in [Gamer -> Nat]
    <2>1. _nextTicks' \in [Gamer -> Nat]
      BY <1>1, <1>2, <1>3
    <2>2. shown[c] \in Nat /\ shown[c] + 1 \in Nat
      BY <1>1
    <2>3. shown' \in [Gamer -> Nat]
      BY <1>1, <1>2, <2>2
    <2>4. QED
      BY <2>1, <2>3
  <1>6. ASSUME NEW d \in Gamer, d # c PROVE shown'[d] <= Cardinality(SeenBy(d)')
    <2>1. shown'[d] = shown[d] /\ _nextTicks'[d] = _nextTicks[d]
      BY <1>1, <1>2, <1>6
    <2>2. SeenBy(d)' = SeenBy(d)
      BY <2>1 DEF SeenBy, FromOthers
    <2>3. QED
      BY <1>1, <2>1, <2>2
  <1>7. shown'[c] <= Cardinality(SeenBy(c)')
    <2> DEFINE seen == SeenBy(c)
               more == SeenBy(c)'
    <2>1. _nextTicks'[c] = ticks
      BY <1>1, <1>2
    <2>2. \A packet : packet \in seen <=>
                /\ packet \in FromOthers(c) /\ packet.IsFiring /\ packet.Ticks <= last
      BY DEF SeenBy
    <2>3. \A packet : packet \in more <=>
                /\ packet \in FromOthers(c) /\ packet.IsFiring /\ packet.Ticks <= ticks
      BY <2>1 DEF SeenBy, FromOthers
    <2>4. \A packet \in FromOthers(c) : packet \in toRelay /\ packet.Ticks \in Nat
      BY <1>1 DEF FromOthers, Packet
    <2>5. shown[c] <= Cardinality(seen) /\ shown[c] \in Nat
      BY <1>1
    <2>6. more \subseteq toRelay
      BY <2>3, <2>4
    <2>7. \/ shown'[c] = shown[c]
          \/ firing /\ shown'[c] = shown[c] + 1
      BY <1>1, <1>2
    <2> HIDE DEF seen, more
    <2>8. seen \subseteq more
      BY <1>3, <2>2, <2>3, <2>4
    <2>9. /\ IsFiniteSet(more) /\ IsFiniteSet(seen)
          /\ Cardinality(seen) \in Nat /\ Cardinality(more) \in Nat
          /\ Cardinality(seen) <= Cardinality(more)
      BY <1>1, <2>6, <2>8, FS_Subset, FS_CardinalityType
    <2>10. CASE shown'[c] = shown[c]
      BY <2>5, <2>9, <2>10 DEF more
    <2>11. CASE firing /\ shown'[c] = shown[c] + 1
      <3>1. PICK packet \in FromOthers(c) :
                packet.IsFiring /\ last < packet.Ticks /\ packet.Ticks <= ticks
        BY <1>3, <2>11
      <3>2. packet \in more /\ packet \notin seen
        BY <1>3, <2>2, <2>3, <2>4, <3>1
      <3>3. seen \cup {packet} \subseteq more /\ Cardinality(seen \cup {packet}) = Cardinality(seen) + 1
        BY <2>8, <2>9, <3>2, FS_AddElement
      <3>4. Cardinality(seen) + 1 <= Cardinality(more)
        BY <2>9, <3>3, FS_Subset
      <3>5. shown[c] + 1 <= Cardinality(more)
        BY <2>5, <2>9, <3>4
      <3>6. QED
        BY <2>11, <3>5 DEF more
    <2>12. QED
      BY <2>7, <2>10, <2>11
  <1>8. QED
    BY <1>4, <1>5, <1>6, <1>7

\* What keeps the packets and the counts keeps what is seen.
LEMMA CountFrame ==
    ASSUME CountInv, UNCHANGED <<toRelay, firingSent, shown, _nextTicks>>
    PROVE  CountInv'
  BY DEF CountInv, FiringFrom, SeenBy, FromOthers

\* A packet that is sent is counted for its sender.
LEMMA SentCounted ==
    ASSUME ShotsInv, NEW player \in Player, NEW firing \in BOOLEAN, now < MaxTime,
           toRelay' = toRelay \cup {[from |-> player, Ticks |-> now, IsFiring |-> firing]},
           firingSent' = [firingSent EXCEPT ![player] = IF firing THEN @ + 1 ELSE @],
           UNCHANGED <<shown, _nextTicks>>
    PROVE  CountInv' /\ firingSent' \in [Player -> Nat]
  <1> DEFINE packet == [from |-> player, Ticks |-> now, IsFiring |-> firing]
  <1>1. /\ toRelay \subseteq Packet /\ IsFiniteSet(toRelay) /\ now \in Nat
        /\ \A p \in toRelay : p.Ticks < now /\ p.Ticks \in Nat
        /\ firingSent \in [Player -> Nat] /\ shown \in [Gamer -> Nat]
        /\ \A c \in Player : firingSent[c] = Cardinality(FiringFrom(c))
        /\ \A c \in Gamer : shown[c] <= Cardinality(SeenBy(c))
    BY RelayLinkAssumption
       DEF ShotsInv, LinkInv, LinkTypeOK, GamesInv, CountInv, Packet
  <1>2. /\ packet.Ticks = now /\ packet.from = player /\ packet.IsFiring = firing
        /\ toRelay' = toRelay \cup {packet}
    OBVIOUS
  <1> HIDE DEF packet
  <1>3. packet \notin toRelay /\ IsFiniteSet(toRelay')
    BY <1>1, <1>2, FS_AddElement
  <1>4. firingSent' \in [Player -> Nat]
    BY <1>1
  <1>5. ASSUME NEW c \in Player PROVE firingSent'[c] = Cardinality(FiringFrom(c)')
    <2> DEFINE before == FiringFrom(c)
               after == FiringFrom(c)'
    <2>1. \A p : p \in before <=> p \in toRelay /\ p.IsFiring /\ p.from = c
      BY DEF FiringFrom
    <2>2. \A p : p \in after <=> p \in toRelay' /\ p.IsFiring /\ p.from = c
      BY DEF FiringFrom
    <2>3. firingSent[c] = Cardinality(before) /\ firingSent[c] \in Nat
      BY <1>1
    <2> HIDE DEF before, after
    <2>4. IsFiniteSet(before) /\ packet \notin before
      BY <1>1, <1>3, <2>1, FS_Subset
    <2>5. CASE firing /\ c = player
      <3>1. after = before \cup {packet}
        BY <1>2, <2>1, <2>2, <2>5
      <3>2. Cardinality(after) = Cardinality(before) + 1
        BY <2>4, <3>1, FS_AddElement
      <3>3. firingSent'[c] = firingSent[c] + 1
        BY <1>1, <2>5
      <3>4. QED
        BY <2>3, <3>2, <3>3 DEF after
    <2>6. CASE ~(firing /\ c = player)
      <3>1. after = before
        BY <1>2, <2>1, <2>2, <2>6
      <3>2. firingSent'[c] = firingSent[c]
        BY <1>1, <2>6
      <3>3. QED
        BY <2>3, <3>1, <3>2 DEF after
    <2>7. QED
      BY <2>5, <2>6
  <1>6. ASSUME NEW c \in Gamer PROVE shown'[c] <= Cardinality(SeenBy(c)')
    <2>1. SeenBy(c) \subseteq SeenBy(c)' /\ SeenBy(c)' \subseteq toRelay'
      BY <1>2 DEF SeenBy, FromOthers
    <2> DEFINE before == SeenBy(c)
               after == SeenBy(c)'
    <2>2. shown'[c] <= Cardinality(before) /\ shown'[c] \in Nat
      BY <1>1
    <2> HIDE DEF before, after
    <2>3. before \subseteq after /\ after \subseteq toRelay'
      BY <2>1 DEF before, after
    <2>4. IsFiniteSet(after) /\ IsFiniteSet(before)
      BY <1>3, <2>3, FS_Subset
    <2>5. Cardinality(before) <= Cardinality(after)
      BY <2>3, <2>4, FS_Subset
    <2>6. shown'[c] <= Cardinality(after)
      BY <2>2, <2>4, <2>5, FS_CardinalityType
    <2>7. QED
      BY <2>6 DEF after
  <1>7. QED
    BY <1>4, <1>5, <1>6 DEF CountInv

\* A step inside a game touches neither the link nor the relay.
LEMMA LinkFrame ==
    ASSUME LinkInv, UNCHANGED <<linkVars, relayVars>>
    PROVE  LinkInv' /\ toRelay' = toRelay /\ \A c : FromOthers(c)' = FromOthers(c)
  BY DEF LinkInv, LinkTypeOK, linkVars, relayVars, FromOthers

\* The steps of the UI thread keep the invariant.
LEMMA UIKeepsShots ==
    ASSUME ShotsInv, NEW c \in Gamer, UI(c), UNCHANGED relayVars
    PROVE  ShotsInv'
  <1>1. LinkInv' /\ toRelay' = toRelay /\ \A d : FromOthers(d)' = FromOthers(d)
    BY LinkFrame DEF ShotsInv, UI
  <1>2. GamesInv /\ CountInv
    BY DEF ShotsInv
  <1> USE DEF netVars
  <1>3. CASE Activate(c) \/ ReplaceNothing(c) \/ UnloadContent(c)
    <2>1. /\ UNCHANGED <<Outgoing, Incoming, _isFiringNotSent, _nextTicks, fired,
                         shown, netPc, told, firingSent>>
          /\ \/ uiPc' = [uiPc EXCEPT ![c] = "frame"]
             \/ uiPc' = [uiPc EXCEPT ![c] = "gone"]
          /\ Status' = Status \/ Status' = [Status EXCEPT ![c] = "Disconnected"]
      BY <1>3 DEF Activate, ReplaceNothing, UnloadContent
    <2>2. GamesInv'
      BY <1>1, <1>2, <2>1 DEF GamesInv
    <2>3. CountInv'
      BY <1>1, <1>2, <2>1, CountFrame
    <2>4. QED
      BY <1>1, <2>2, <2>3 DEF ShotsInv
  <1>4. CASE Frame(c)
    <2>1. PICK shot \in 0..1 :
            /\ fired[c] + shot <= MaxShots
            /\ fired' = [fired EXCEPT ![c] = @ + shot]
            /\ _isFiringNotSent' = [_isFiringNotSent EXCEPT ![c] = @ \/ shot = 1]
      BY <1>4 DEF Frame
    <2>2. UpdateOther(c) /\ UNCHANGED <<Status, uiPc, Outgoing, netPc, told, firingSent>>
      BY <1>4 DEF Frame
    <2>3. fired' \in [Gamer -> 0..MaxShots]
      BY <1>2, <2>1, RelayClientAssumption DEF GamesInv
    <2>4. _isFiringNotSent' \in [Gamer -> BOOLEAN]
      BY <1>2, <2>1 DEF GamesInv
    <2>5. GamesInv'
      BY <1>1, <1>2, <2>2, <2>3, <2>4, UpdateOtherKeeps DEF GamesInv
    <2>6. CountInv'
      BY <1>1, <1>2, <2>2, UpdateOtherKeeps DEF CountInv, FiringFrom
    <2>7. QED
      BY <1>1, <2>5, <2>6 DEF ShotsInv
  <1>5. CASE FrameSends(c)
    <2>1. PICK shot \in 0..1 :
            /\ fired[c] + shot <= MaxShots
            /\ fired' = [fired EXCEPT ![c] = @ + shot]
            /\ Outgoing' = [Outgoing EXCEPT ![c] = Append(@,
                    [IsFiring |-> _isFiringNotSent[c] \/ shot = 1,
                     upTo |-> fired[c] + shot])]
      BY <1>5 DEF FrameSends
    <2>2. /\ UNCHANGED <<Status, netPc, told, firingSent>>
          /\ _isFiringNotSent' = [_isFiringNotSent EXCEPT ![c] = FALSE]
          /\ uiPc' = uiPc \/ uiPc' = [uiPc EXCEPT ![c] = "replace"]
          /\ UpdateOther(c) \/ UNCHANGED <<Incoming, _nextTicks, shown>>
      BY <1>5 DEF FrameSends
    <2>3. fired' \in [Gamer -> 0..MaxShots]
      BY <1>2, <2>1, RelayClientAssumption DEF GamesInv
    <2>4. _isFiringNotSent' \in [Gamer -> BOOLEAN] /\ uiPc' \in [Gamer -> {"inactive", "frame", "replace", "gone"}]
      BY <1>2, <2>2 DEF GamesInv
    <2>5. Outgoing' \in [Gamer -> Seq(Queued)]
      <3> DEFINE packet == [IsFiring |-> _isFiringNotSent[c] \/ shot = 1,
                            upTo |-> fired[c] + shot]
      <3>1. (_isFiringNotSent[c] \/ shot = 1) \in BOOLEAN /\ fired[c] + shot \in 0..MaxShots
        BY <1>2, <2>1, RelayClientAssumption DEF GamesInv
      <3>2. packet \in Queued
        BY <3>1 DEF Queued
      <3>3. Outgoing' = [Outgoing EXCEPT ![c] = Append(Outgoing[c], packet)]
        BY <2>1
      <3> HIDE DEF packet
      <3>4. Append(Outgoing[c], packet) \in Seq(Queued)
        BY <1>2, <3>2, AppendProperties DEF GamesInv
      <3>5. QED
        BY <1>2, <3>3, <3>4 DEF GamesInv
    <2>6. /\ DOMAIN Incoming' = Gamer
          /\ \A d \in Gamer : Incoming'[d] \in Seq(FromOthers(d)')
          /\ _nextTicks' \in [Gamer -> Nat] /\ shown' \in [Gamer -> Nat]
          /\ \A d \in Gamer : shown'[d] <= Cardinality(SeenBy(d)')
      <3>1. CASE UpdateOther(c)
        BY <1>1, <3>1, UpdateOtherKeeps
      <3>2. CASE UNCHANGED <<Incoming, _nextTicks, shown>>
        BY <1>1, <1>2, <3>2 DEF GamesInv, CountInv, SeenBy
      <3>3. QED
        BY <2>2, <3>1, <3>2
    <2>7. GamesInv'
      BY <1>2, <2>2, <2>3, <2>4, <2>5, <2>6 DEF GamesInv
    <2>8. CountInv'
      BY <1>1, <1>2, <2>2, <2>6 DEF CountInv, FiringFrom
    <2>9. QED
      BY <1>1, <2>7, <2>8 DEF ShotsInv
  <1>6. CASE Replace(c)
    <2>1. /\ Outgoing[c] # <<>>
          /\ UNCHANGED <<Status, fired, netPc, told, firingSent>>
          /\ Outgoing' = [Outgoing EXCEPT ![c] = Tail(@)]
          /\ _isFiringNotSent' = [_isFiringNotSent EXCEPT
                        ![c] = _isFiringNotSent[c] \/ Head(Outgoing[c]).IsFiring]
          /\ uiPc' = [uiPc EXCEPT ![c] = "frame"]
          /\ UpdateOther(c)
      BY <1>6 DEF Replace, CarryShot
    <2>2. Head(Outgoing[c]) \in Queued /\ Tail(Outgoing[c]) \in Seq(Queued)
      BY <1>2, <2>1, HeadTailProperties DEF GamesInv
    <2>3. Outgoing' \in [Gamer -> Seq(Queued)]
      BY <1>2, <2>1, <2>2 DEF GamesInv
    <2>4. _isFiringNotSent' \in [Gamer -> BOOLEAN]
      BY <1>2, <2>1, <2>2 DEF GamesInv, Queued
    <2>5. GamesInv'
      BY <1>1, <1>2, <2>1, <2>3, <2>4, UpdateOtherKeeps DEF GamesInv
    <2>6. CountInv'
      BY <1>1, <1>2, <2>1, UpdateOtherKeeps DEF CountInv, FiringFrom
    <2>7. QED
      BY <1>1, <2>5, <2>6 DEF ShotsInv
  <1>7. QED
    BY <1>3, <1>4, <1>5, <1>6 DEF UI

\* The steps of the networking task keep it.
LEMMA NetworkingKeepsShots ==
    ASSUME ShotsInv, NEW c \in Gamer, Networking(c), UNCHANGED relayVars
    PROVE  ShotsInv'
  <1>1. GamesInv /\ CountInv /\ LinkInv
    BY DEF ShotsInv
  <1>2. CASE StartNetworking(c) \/ ReceiveFails(c) \/ NetworkingEnds(c)
    <2>1. /\ UNCHANGED <<Outgoing, Incoming, _isFiringNotSent, _nextTicks, fired,
                         shown, told, firingSent, uiPc, linkVars>>
          /\ \/ netPc' = netPc
             \/ netPc' = [netPc EXCEPT ![c] = "loop"]
             \/ netPc' = [netPc EXCEPT ![c] = "ended"]
          /\ \/ Status' = Status
             \/ Status' = [Status EXCEPT ![c] = "Connected"]
             \/ Status' = [Status EXCEPT ![c] = "Disconnected"]
      BY <1>2 DEF StartNetworking, ReceiveFails, NetworkingEnds, uiVars, netVars
    <2>2. LinkInv' /\ toRelay' = toRelay /\ \A d : FromOthers(d)' = FromOthers(d)
      BY <1>1, <2>1, LinkFrame
    <2>3. GamesInv'
      BY <1>1, <2>1, <2>2 DEF GamesInv
    <2>4. CountInv'
      BY <1>1, <2>1, <2>2, CountFrame
    <2>5. QED
      BY <2>2, <2>3, <2>4 DEF ShotsInv
  <1>3. CASE Receive(c)
    <2>1. PICK packet \in inbox[c] : Incoming' = [Incoming EXCEPT ![c] = Append(@, packet)]
      BY <1>3 DEF Receive
    <2>2. UNCHANGED <<Status, Outgoing, uiPc, _isFiringNotSent, _nextTicks, fired,
                      shown, netPc, told, firingSent, linkVars>>
      BY <1>3 DEF Receive, uiVars, netVars
    <2>3. LinkInv' /\ toRelay' = toRelay /\ \A d : FromOthers(d)' = FromOthers(d)
      BY <1>1, <2>2, LinkFrame
    <2>4. packet \in FromOthers(c)
      BY <1>1 DEF LinkInv
    <2>5. DOMAIN Incoming' = Gamer /\ \A d \in Gamer : Incoming'[d] \in Seq(FromOthers(d))
      <3> DEFINE longer == Append(Incoming[c], packet)
      <3>1. longer \in Seq(FromOthers(c))
        BY <1>1, <2>4, AppendProperties DEF GamesInv
      <3>2. Incoming' = [Incoming EXCEPT ![c] = longer]
        BY <2>1
      <3> HIDE DEF longer
      <3>3. QED
        BY <1>1, <3>1, <3>2 DEF GamesInv
    <2>6. GamesInv'
      BY <1>1, <2>2, <2>3, <2>5 DEF GamesInv
    <2>7. CountInv'
      BY <1>1, <2>2, <2>3, CountFrame
    <2>8. QED
      BY <2>3, <2>6, <2>7 DEF ShotsInv
  <1>4. CASE Send(c) \/ SendFails(c)
    <2> DEFINE packet == Head(Outgoing[c])
    <2>1. Outgoing[c] # <<>> /\ Outgoing' = [Outgoing EXCEPT ![c] = Tail(@)]
      BY <1>4 DEF Send, SendFails
    <2>2. packet \in Queued /\ Tail(Outgoing[c]) \in Seq(Queued)
      BY <1>1, <2>1, HeadTailProperties DEF GamesInv
    <2>3. Outgoing' \in [Gamer -> Seq(Queued)]
      BY <1>1, <2>1, <2>2 DEF GamesInv
    <2>4. CASE Send(c)
      <3>1. /\ now < MaxTime /\ now' = now + 1
            /\ toRelay' = toRelay \cup
                    {[from |-> c, Ticks |-> now, IsFiring |-> packet.IsFiring]}
            /\ told' = [told EXCEPT ![c] = IF packet.IsFiring THEN packet.upTo ELSE @]
            /\ firingSent' = [firingSent EXCEPT ![c] =
                                IF packet.IsFiring THEN @ + 1 ELSE @]
            /\ UNCHANGED <<Status, Incoming, uiPc, _isFiringNotSent, _nextTicks,
                           fired, shown, netPc, inbox>>
        BY <2>4 DEF Send, GetBytes, uiVars
      <3>2. c \in Player
        BY DEF Gamer
      <3>3. packet.IsFiring \in BOOLEAN /\ packet.upTo \in 0..MaxShots
        BY <2>2 DEF Queued
      <3> HIDE DEF packet
      <3>4. LinkInv' /\ \A d \in Gamer : FromOthers(d) \subseteq FromOthers(d)'
        BY <1>1, <3>1, <3>2, <3>3, SentTyped
      <3>5. CountInv' /\ firingSent' \in [Player -> Nat]
        BY <3>1, <3>2, <3>3, SentCounted
      <3>6. told' \in [Gamer -> 0..MaxShots]
        BY <1>1, <3>1, <3>3 DEF GamesInv
      <3>7. \A d \in Gamer : Incoming'[d] \in Seq(FromOthers(d)')
        BY <1>1, <3>1, <3>4, SeqOfMore DEF GamesInv
      <3>8. GamesInv'
        BY <1>1, <2>3, <3>1, <3>5, <3>6, <3>7 DEF GamesInv
      <3>9. QED
        BY <3>4, <3>5, <3>8 DEF ShotsInv
    <2>5. CASE SendFails(c)
      <3>1. /\ netPc' = [netPc EXCEPT ![c] = "ended"]
            /\ UNCHANGED <<Status, Incoming, uiPc, _isFiringNotSent, _nextTicks,
                           fired, shown, told, firingSent, linkVars>>
        BY <2>5 DEF SendFails, uiVars
      <3>2. LinkInv' /\ toRelay' = toRelay /\ \A d : FromOthers(d)' = FromOthers(d)
        BY <1>1, <3>1, LinkFrame
      <3>3. GamesInv'
        BY <1>1, <2>3, <3>1, <3>2 DEF GamesInv
      <3>4. CountInv'
        BY <1>1, <3>1, <3>2, CountFrame
      <3>5. QED
        BY <3>2, <3>3, <3>4 DEF ShotsInv
    <2>6. QED
      BY <1>4, <2>4, <2>5
  <1>5. QED
    BY <1>2, <1>3, <1>4 DEF Networking

\* Every step keeps the invariant.
LEMMA ShotsStep == ShotsInv /\ [Next]_vars => ShotsInv'
  <1>1. SUFFICES ASSUME ShotsInv, [Next]_vars PROVE ShotsInv'
    OBVIOUS
  <1>2. GamesInv /\ CountInv /\ LinkInv
    BY <1>1 DEF ShotsInv
  <1>3. CASE \E c \in Gamer : ClientNext(c)
    BY <1>1, <1>3, UIKeepsShots, NetworkingKeepsShots DEF ClientNext
  <1>4. CASE \E c \in Guest : GuestSends(c)
    <2>1. PICK c \in Guest : GuestSends(c)
      BY <1>4
    <2>2. PICK firing \in BOOLEAN :
            /\ toRelay' = toRelay \cup {GetBytes(c, [IsFiring |-> firing])}
            /\ firingSent' = [firingSent EXCEPT ![c] = IF firing THEN @ + 1 ELSE @]
      BY <2>1 DEF GuestSends
    <2>3. /\ now < MaxTime /\ now' = now + 1
          /\ UNCHANGED <<inbox, relayVars, Status, Outgoing, Incoming, uiPc,
                         _isFiringNotSent, _nextTicks, fired, shown, netPc, told>>
      BY <2>1 DEF GuestSends, uiVars
    <2>4. toRelay' = toRelay \cup {[from |-> c, Ticks |-> now, IsFiring |-> firing]}
      BY <2>2 DEF GetBytes
    <2>5. c \in Player
      BY RelayLinkAssumption
    <2>6. LinkInv' /\ \A d \in Gamer : FromOthers(d) \subseteq FromOthers(d)'
      BY <1>2, <2>3, <2>4, <2>5, SentTyped
    <2>7. CountInv' /\ firingSent' \in [Player -> Nat]
      BY <1>1, <2>2, <2>3, <2>4, <2>5, SentCounted
    <2>8. \A d \in Gamer : Incoming'[d] \in Seq(FromOthers(d)')
      BY <1>2, <2>3, <2>6, SeqOfMore DEF GamesInv
    <2>9. GamesInv'
      BY <1>2, <2>3, <2>7, <2>8 DEF GamesInv
    <2>10. QED
      BY <2>6, <2>7, <2>9 DEF ShotsInv
  <1>5. CASE RelayNext
    <2>1. LinkInv'
      BY <1>2, <1>5, RelayTyped DEF RelayNext
    <2>2. /\ toRelay' = toRelay
          /\ UNCHANGED <<Status, Outgoing, Incoming, uiPc, _isFiringNotSent,
                         _nextTicks, fired, shown, netPc, told, firingSent>>
      BY <1>5 DEF RelayNext, RelayPacket, RelayEnds, clientVars, uiVars, netVars
    <2>3. GamesInv'
      BY <1>2, <2>2 DEF GamesInv, FromOthers
    <2>4. QED
      BY <1>2, <2>1, <2>2, <2>3, CountFrame DEF ShotsInv
  <1>6. CASE TimePasses
    <2>1. /\ now < MaxTime /\ now' = now + 1
          /\ UNCHANGED <<toRelay, inbox, relayUp, players, sweptAt, departed>>
          /\ UNCHANGED <<Status, Outgoing, Incoming, uiPc, _isFiringNotSent,
                         _nextTicks, fired, shown, netPc, told, firingSent>>
      BY <1>6 DEF TimePasses, Tick, relayVars, clientVars, uiVars, netVars
    <2>2. /\ now \in 1..MaxTime /\ MaxTime \in Nat /\ sweptAt \in 1..now
          /\ toRelay \subseteq Packet /\ \A packet \in toRelay : packet.Ticks < now
      BY <1>2, RelayLinkAssumption DEF LinkInv, LinkTypeOK
    <2>3. /\ now' \in 1..MaxTime /\ sweptAt' \in 1..now'
          /\ \A packet \in toRelay : packet.Ticks < now'
      BY <2>1, <2>2 DEF Packet
    <2>4. LinkInv'
      BY <1>2, <2>1, <2>3 DEF LinkInv, LinkTypeOK, FromOthers
    <2>5. GamesInv'
      BY <1>2, <2>1 DEF GamesInv, FromOthers
    <2>6. QED
      BY <1>2, <2>1, <2>4, <2>5, CountFrame DEF ShotsInv
  <1>7. CASE UNCHANGED vars
    <2>1. LinkInv' /\ toRelay' = toRelay /\ \A d : FromOthers(d)' = FromOthers(d)
      BY <1>2, <1>7, LinkFrame DEF vars
    <2>2. UNCHANGED <<Status, Outgoing, Incoming, uiPc, _isFiringNotSent,
                      _nextTicks, fired, shown, netPc, told, firingSent>>
      BY <1>7 DEF vars, clientVars, uiVars, netVars
    <2>3. GamesInv'
      BY <1>2, <2>1, <2>2 DEF GamesInv
    <2>4. QED
      BY <1>2, <2>1, <2>2, <2>3, CountFrame DEF ShotsInv
  <1>8. QED
    BY <1>1, <1>3, <1>4, <1>5, <1>6, <1>7 DEF Next

\* The invariant of what is shown holds.
THEOREM ShotsInvariant == Spec => []ShotsInv
  <1>1. ASSUME Init PROVE ShotsInv
    <2>1. now = 1 /\ toRelay = {} /\ inbox = [player \in Gamer |-> {}]
      BY <1>1 DEF Init, LinkInit
    <2>2. relayUp = TRUE /\ sweptAt = 1 /\ departed = FALSE /\ DOMAIN players = {}
      BY <1>1, <2>1, NoTable DEF Init, RelayInit
    <2>3. 1 \in 1..MaxTime /\ 1 \in 1..1
      BY RelayLinkAssumption
    <2>4. LinkInv
      <3>1. IsFiniteSet({})
        BY FS_EmptySet
      <3>2. relayUp \in BOOLEAN /\ departed \in BOOLEAN
        BY <2>2
      <3>3. LinkTypeOK
        BY <2>1, <2>3 DEF LinkTypeOK
      <3>4. QED
        BY <2>1, <2>2, <2>3, <3>1, <3>2, <3>3 DEF LinkInv, FromOthers
    <2>5. GamesInv
      <3>1. <<>> \in Seq(Queued) /\ \A d \in Gamer : <<>> \in Seq(FromOthers(d))
        BY EmptySeq
      <3>2. 0 \in 0..MaxShots
        BY RelayClientAssumption
      <3>3. Outgoing = [c \in Gamer |-> <<>>] /\ Incoming = [c \in Gamer |-> <<>>]
        BY <1>1 DEF Init, ClientInit
      <3>4. DOMAIN Incoming = Gamer /\ \A d \in Gamer : Incoming[d] \in Seq(FromOthers(d))
        BY <3>1, <3>3
      <3>5. Outgoing \in [Gamer -> Seq(Queued)]
        BY <3>1, <3>3
      <3>6. QED
        BY <1>1, <3>2, <3>4, <3>5 DEF Init, ClientInit, GamesInv
    <2>6. CountInv
      <3>1. Cardinality({}) = 0
        BY FS_EmptySet
      <3>2. \A c : FiringFrom(c) = {} /\ SeenBy(c) = {}
        BY <2>1 DEF FiringFrom, SeenBy, FromOthers
      <3>3. \A c \in Player : firingSent[c] = 0
        BY <1>1 DEF Init, ClientInit
      <3>4. \A c \in Gamer : shown[c] = 0
        BY <1>1 DEF Init, ClientInit
      <3>5. QED
        BY <3>1, <3>2, <3>3, <3>4 DEF CountInv
    <2>7. QED
      BY <2>4, <2>5, <2>6 DEF ShotsInv
  <1>2. QED
    BY <1>1, ShotsStep, PTL DEF Spec

\* Every variable of the relay, of the games and of what is under way between
\* them keeps its type, for any number of players, packets and shots.
THEOREM TypeCorrect == Spec => []TypeOK
  <1>1. ASSUME ShotsInv, ClientInv PROVE TypeOK
    <2>1. LinkTypeOK /\ RelayTypeOK /\ GamesInv
      BY <1>1 DEF ShotsInv, LinkInv, RelayTypeOK
    <2>2. ASSUME NEW c \in Gamer
          PROVE  /\ Outgoing[c] \in Seq(Queued)
                 /\ Len(Outgoing[c]) <= IF uiPc[c] = "replace" THEN 2 ELSE 1
                 /\ Incoming[c] \in Seq(Packet)
      <3>1. FromOthers(c) \subseteq Packet
        BY <2>1 DEF LinkTypeOK, FromOthers
      <3>2. Incoming[c] \in Seq(Packet)
        BY <2>1, <3>1, SeqOfMore DEF GamesInv
      <3>3. Len(Outgoing[c]) <= 2 /\ (uiPc[c] # "replace" => Len(Outgoing[c]) <= 1)
        BY <1>1 DEF ClientInv, ClientSound, Sound
      <3>4. QED
        BY <2>1, <3>2, <3>3 DEF GamesInv
    <2>3. QED
      BY <2>1, <2>2 DEF TypeOK, ClientTypeOK, GamesInv
  <1>2. QED
    BY <1>1, ShotsInvariant, ClientInvariant, PTL

\* The sum of what the players have sent is the number of these packets.
LEMMA SentByMany ==
    ASSUME ShotsInv, NEW D \in SUBSET Player
    PROVE  Total(firingSent, D) =
                Cardinality({packet \in toRelay : packet.IsFiring /\ packet.from \in D})
  <1> DEFINE From(s) == {packet \in toRelay : packet.IsFiring /\ packet.from \in s}
             g == [s \in SUBSET D |-> Cardinality(From(s))]
  <1>1. IsFiniteSet(D) /\ IsFiniteSet(toRelay)
    BY RelayLinkAssumption, FS_Subset DEF ShotsInv, LinkInv
  <1>2. g[{}] = 0
    <2>1. From({}) = {}
      OBVIOUS
    <2>2. QED
      BY <2>1, FS_EmptySet
  <1>3. ASSUME NEW s \in SUBSET D, NEW x \in s
        PROVE  g[s] = firingSent[x] + g[s \ {x}]
    <2> DEFINE mine == FiringFrom(x)
               rest == From(s \ {x})
               all == From(s)
    <2>1. all = mine \cup rest /\ mine \cap rest = {}
      BY DEF FiringFrom
    <2>2. IsFiniteSet(mine) /\ IsFiniteSet(rest)
      BY <1>1, FS_Subset DEF FiringFrom
    <2>3. firingSent[x] = Cardinality(mine)
      BY DEF ShotsInv, CountInv
    <2>4. g[s] = Cardinality(all) /\ g[s \ {x}] = Cardinality(rest)
      OBVIOUS
    <2> HIDE DEF mine, rest, all, g
    <2>5. Cardinality(all) = Cardinality(mine) + Cardinality(rest)
      <3>1. Cardinality(mine \cap rest) = 0
        BY <2>1, FS_EmptySet
      <3>2. Cardinality(mine) \in Nat /\ Cardinality(rest) \in Nat
        BY <2>2, FS_CardinalityType
      <3>3. Cardinality(mine \cup rest)
                = Cardinality(mine) + Cardinality(rest) - Cardinality(mine \cap rest)
        BY <2>2, FS_Union
      <3>4. QED
        BY <2>1, <3>1, <3>2, <3>3
    <2>6. QED
      BY <2>3, <2>4, <2>5
  <1>4. g \in [SUBSET D -> Nat] /\ g[D] = Cardinality(From(D))
    <2>1. \A s \in SUBSET D : From(s) \subseteq toRelay
      OBVIOUS
    <2>2. \A s \in SUBSET D : Cardinality(From(s)) \in Nat
      <3> HIDE DEF From
      <3>1. QED
        BY <1>1, <2>1, FS_Subset, FS_CardinalityType
    <2>3. QED
      BY <2>2
  <1> HIDE DEF g
  <1>5. Total(firingSent, D) = g[D]
    <2> DEFINE f == firingSent
    <2>1. Adds(f, D, g)
      BY <1>2, <1>3, <1>4 DEF Adds
    <2> HIDE DEF f
    <2>3. Total(f, D) = g[D]
      BY <1>1, <2>1, TotalIs
    <2>4. QED
      BY <2>3 DEF f
  <1>6. QED
    BY <1>4, <1>5

\* No player sees more shots of the others than these have told, for any number of
\* players, packets and shots.
THEOREM NoGhosts == Spec => []NoGhostShots
  <1>1. ASSUME ShotsInv, NoShotToldTwice PROVE NoGhostShots
    <2>1. SUFFICES ASSUME NEW c \in Gamer
                   PROVE  shown[c] <= Total(firingSent, Player \ {c})
      BY <1>1 DEF NoGhostShots, Total
    <2> DEFINE sum == Total(firingSent, Player \ {c})
               others == {packet \in toRelay : packet.IsFiring /\ packet.from \in Player \ {c}}
               seen == SeenBy(c)
    <2>2. sum = Cardinality(others)
      BY <1>1, SentByMany
    <2>3. /\ IsFiniteSet(toRelay) /\ toRelay \subseteq Packet
          /\ shown[c] \in Nat /\ shown[c] <= Cardinality(seen)
      BY <1>1 DEF ShotsInv, LinkInv, LinkTypeOK, GamesInv, CountInv
    <2>4. seen \subseteq others /\ others \subseteq toRelay
      BY <2>3 DEF SeenBy, FromOthers, Packet
    <2> HIDE DEF sum, seen, others
    <2>5. IsFiniteSet(others) /\ IsFiniteSet(seen)
      BY <2>3, <2>4, FS_Subset
    <2>6. /\ Cardinality(seen) <= Cardinality(others)
          /\ Cardinality(seen) \in Nat /\ Cardinality(others) \in Nat
      BY <2>4, <2>5, FS_Subset, FS_CardinalityType
    <2>7. shown[c] <= sum
      BY <2>2, <2>3, <2>6
    <2>8. QED
      BY <2>7 DEF sum
  <1>2. QED
    BY <1>1, ShotsInvariant, ToldOnce, PTL
=============================================================================
