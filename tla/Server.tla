------------------------------- MODULE Server -------------------------------
(***************************************************************************)
(* The game server (Server.cpp): one thread that takes one packet after    *)
(* the other off its socket and lets the handler of the packet's type      *)
(* update the vector of players.                                           *)
(*                                                                         *)
(* Each handler is an action; its parameters are what it reads from the    *)
(* packet.  The specification at the end of this module is the server on   *)
(* its own: the packets come from an environment that knows no protocol.   *)
(* Session.tla runs the same handlers against real clients.                *)
(*                                                                         *)
(* The server draws its salts at random, which is taken to mean: never one *)
(* that is in use.                                                         *)
(***************************************************************************)
EXTENDS NetworkUtilities, Protocol

CONSTANTS
    Keyboard,        \* keyboard states of a player
    NoKeys,          \* the keyboard state of a new player
    Offset,          \* server clock minus client clock
    MAX_PLAYERS,     \* 8 in Server.h
    KEEP_RECEIVED,   \* received numbers HandleGameState keeps (60)
    PlayerBound,     \* bound of the model: entries in m_players
    MaxFrames        \* bound of the model: game states answered to the players
                     \* in m_players, all together

ASSUME ServerAssumption ==
    /\ MAX_PLAYERS \in Nat /\ MAX_PLAYERS >= 2
    /\ KEEP_RECEIVED \in Nat \ {0}
    /\ PlayerBound \in Nat
    /\ MaxFrames \in Nat
    /\ NoKeys \in Keyboard
    /\ Offset \subseteq Int /\ 0 \in Offset

VARIABLES
    running,    \* whether a server process is up
    m_players,  \* the vector of players, oldest entry first
    toClient    \* per address: packets in the client's socket

serverVars == <<running, m_players, toClient>>

-----------------------------------------------------------------------------
(* Players and packets. *)

ConnectionSalt(player) == <<player.ClientSalt, player.ServerSalt>>

\* The wire number of the last packet sent: it is always recomputed with the
\* large number.
localSequenceNumberSmall(player) ==
    player.localSequenceNumberLarge % SEQUENCE_NUMBER_MAX

Player == [
    playerID: 1..MAX_PLAYERS - 1,
    Address: Address,
    ClientSalt: ClientSalt,
    ServerSalt: ServerSalt,
    ConnectionState: {"CONNECTING", "CONNECTED"},
    serverClockOffset: Offset,
    keyboard: Keyboard,
    sendPackets: SUBSET Nat,     \* numbers sent and not acknowledged yet
    receivedPackets: Seq(Nat),   \* numbers received last, oldest first
    localSequenceNumberLarge: Nat,
    remoteSequenceNumberLarge: Nat,
    remoteSequenceNumberSmall: 0..WORD - 1]

NewPlayer(id, addr, clientSalt, serverSalt) == [
    playerID |-> id,
    Address |-> addr,
    ClientSalt |-> clientSalt,
    ServerSalt |-> serverSalt,
    ConnectionState |-> "CONNECTING",
    serverClockOffset |-> 0,
    keyboard |-> NoKeys,
    sendPackets |-> {},
    receivedPackets |-> <<>>,
    localSequenceNumberLarge |-> 0,
    remoteSequenceNumberLarge |-> 0,
    remoteSequenceNumberSmall |-> 0]

Send(addr, packet) ==
    toClient' = [toClient EXCEPT ![addr] = Enqueue(@, packet)]

\* The positions in m_players of the entries with this address, and of those
\* that have this connection salt too.
\* Mutated form of EntriesAt: the address is not compared.
EntriesOfAll(addr) == DOMAIN m_players
EntriesAt(addr) == {i \in DOMAIN m_players : m_players[i].Address = addr}
EntriesWith(addr, salt) ==
    {i \in EntriesAt(addr) : ConnectionSalt(m_players[i]) = salt}

\* A loop over m_players that handles the first match and returns.
\* Mutated form: any match is taken.
IsAny(i, entries) == i \in entries
IsFirst(i, entries) == i \in entries /\ \A j \in entries : i <= j

-----------------------------------------------------------------------------
(* HandleConnectionRequest *)

\* The ids 1, 2, ... up to the first one that no player has.
TakenRun ==
    {id \in 1..MAX_PLAYERS - 1 :
        \A k \in 1..id : \E i \in DOMAIN m_players : m_players[i].playerID = k}

\* The entry that the address already has gives its id; otherwise the search
\* for a free id keeps the LAST TAKEN id it has seen, and 1 if there is none.
NewPlayerID(addr, id) ==
    IF EntriesAt(addr) # {}
    THEN \E i \in DOMAIN m_players :
            IsFirst(i, EntriesAt(addr)) /\ id = m_players[i].playerID
    ELSE IF TakenRun = {} THEN id = 1
    ELSE id \in TakenRun /\ \A k \in TakenRun : k <= id

\* A new entry is added in every case, also when the address has one.
HandleConnectionRequest(addr, clientSalt, serverSalt) ==
    /\ running
    /\ Len(m_players) < PlayerBound
    /\ serverSalt \notin {m_players[i].ServerSalt : i \in DOMAIN m_players}
    /\ \E id \in 1..MAX_PLAYERS - 1 :
        /\ NewPlayerID(addr, id)
        /\ m_players' = Append(m_players,
                               NewPlayer(id, addr, clientSalt, serverSalt))
    /\ Send(addr, [type |-> "CHALLENGE",
                   clientSalt |-> clientSalt, serverSalt |-> serverSalt])
    /\ UNCHANGED running

-----------------------------------------------------------------------------
(* HandleChallengeResponse: only the first entry of the address counts. *)

\* Mutated form of ChallengeAccepted: the salt is not compared.
AcceptAnySalt(addr, salt) ==
    \E i \in DOMAIN m_players :
        /\ IsFirst(i, EntriesAt(addr))
        /\ m_players' = [m_players EXCEPT ![i].ConnectionState = "CONNECTED"]
        /\ Send(addr, [type |-> "CONNECTION_ACCEPTED",
                       playerID |-> m_players[i].playerID])
ChallengeAccepted(addr, salt) ==
    \E i \in DOMAIN m_players :
        /\ IsFirst(i, EntriesAt(addr))
        /\ ConnectionSalt(m_players[i]) = salt
        /\ m_players' = [m_players EXCEPT ![i].ConnectionState = "CONNECTED"]
        /\ Send(addr, [type |-> "CONNECTION_ACCEPTED",
                       playerID |-> m_players[i].playerID])

\* Mutated form of ChallengeDenied: the entry stays.
DenyAndKeep(addr, salt) ==
    \E i \in DOMAIN m_players :
        /\ IsFirst(i, EntriesAt(addr))
        /\ ConnectionSalt(m_players[i]) # salt
        /\ Send(addr, [type |-> "CONNECTION_DENIED"])
        /\ UNCHANGED m_players
ChallengeDenied(addr, salt) ==
    \E i \in DOMAIN m_players :
        /\ IsFirst(i, EntriesAt(addr))
        /\ ConnectionSalt(m_players[i]) # salt
        /\ m_players' = RemoveAt(m_players, i)
        /\ Send(addr, [type |-> "CONNECTION_DENIED"])

HandleChallengeResponse(addr, salt) ==
    /\ running
    /\ \/ ChallengeAccepted(addr, salt)
       \/ ChallengeDenied(addr, salt)
       \/ EntriesAt(addr) = {} /\ UNCHANGED <<m_players, toClient>>
    /\ UNCHANGED running

-----------------------------------------------------------------------------
(* HandleClockSync *)

ClockSynchronized(addr, salt, offset) ==
    \E i \in DOMAIN m_players :
        /\ IsFirst(i, EntriesWith(addr, salt))
        /\ m_players' = [m_players EXCEPT ![i].serverClockOffset = offset]
        /\ Send(m_players[i].Address, [type |-> "CLOCK_RESPONSE"])

HandleClockSync(addr, salt, offset) ==
    /\ running
    /\ \/ ClockSynchronized(addr, salt, offset)
       \/ EntriesWith(addr, salt) = {} /\ UNCHANGED <<m_players, toClient>>
    /\ UNCHANGED running

-----------------------------------------------------------------------------
(* HandleGameState *)

\* Only the last KEEP_RECEIVED numbers stay.
\* Mutated form: one number too many stays.
KeepLastAndOne(s) ==
    IF Len(s) > KEEP_RECEIVED + 1
    THEN SubSeq(s, Len(s) - KEEP_RECEIVED, Len(s)) ELSE s
KeepLast(s) ==
    IF Len(s) > KEEP_RECEIVED
    THEN SubSeq(s, Len(s) - KEEP_RECEIVED + 1, Len(s)) ELSE s

\* The receiving half: the number of a packet that is not a duplicate goes to
\* receivedPackets, as the newest.
\* Mutated form: a duplicate is recorded again.
RecordDuplicate(player, seqNum) ==
    LET diff == SequenceNumberDiff(player.remoteSequenceNumberSmall, seqNum)
        large == player.remoteSequenceNumberLarge + diff
    IN  [player EXCEPT
            !.remoteSequenceNumberLarge = large,
            !.remoteSequenceNumberSmall = seqNum,
            !.receivedPackets = KeepLast(Append(@, large))]
RecordReceived(player, seqNum) ==
    LET diff == SequenceNumberDiff(player.remoteSequenceNumberSmall, seqNum)
        large == player.remoteSequenceNumberLarge + diff
    IN  IF diff > 0
        THEN [player EXCEPT
                !.remoteSequenceNumberLarge = large,
                !.remoteSequenceNumberSmall = seqNum,
                !.receivedPackets = KeepLast(Append(@, large))]
        ELSE [player EXCEPT !.receivedPackets = KeepLast(@)]

\* VerifyAck and the removal of what it acknowledged.
DropAcknowledged(player, ack, ackBits) ==
    LET diff == SequenceNumberDiff(localSequenceNumberSmall(player), ack)
        large == (player.localSequenceNumberLarge - diff) % LONG
    IN  [player EXCEPT !.sendPackets = @ \ AckedBy(large, ackBits)]

\* The sending half: the answer takes the next number.
RecordSent(player, keyboard) ==
    LET large == player.localSequenceNumberLarge + 1
    IN  [player EXCEPT
            !.localSequenceNumberLarge = large,
            !.keyboard = keyboard,
            !.sendPackets = @ \cup {large}]

GameStatePacket(player, players) == [
    type |-> "GAME_STATE",
    salt |-> ConnectionSalt(player),
    seqNum |-> localSequenceNumberSmall(player),
    ack |-> player.remoteSequenceNumberSmall,
    ackBits |-> AckBitsOf(ToSet(player.receivedPackets),
                          player.remoteSequenceNumberLarge),
    players |-> [i \in DOMAIN players |->
                    [playerID |-> players[i].playerID,
                     keyboard |-> players[i].keyboard]]]

FramesAnswered ==
    FoldFunction(+, 0, [i \in DOMAIN m_players |->
                            m_players[i].localSequenceNumberLarge])

GameStateAnswered(addr, salt, seqNum, ack, ackBits, keyboard) ==
    \E i \in DOMAIN m_players :
        /\ IsFirst(i, EntriesWith(addr, salt))
        /\ FramesAnswered < MaxFrames
        /\ LET player == RecordSent(
                DropAcknowledged(RecordReceived(m_players[i], seqNum),
                                 ack, ackBits),
                keyboard)
           IN  /\ m_players' = [m_players EXCEPT ![i] = player]
               /\ Send(player.Address, GameStatePacket(player, m_players'))

HandleGameState(addr, salt, seqNum, ack, ackBits, keyboard) ==
    /\ running
    /\ \/ GameStateAnswered(addr, salt, seqNum, ack, ackBits, keyboard)
       \/ EntriesWith(addr, salt) = {} /\ UNCHANGED <<m_players, toClient>>
    /\ UNCHANGED running

-----------------------------------------------------------------------------
(* HandleDisconnect *)

\* remove_if and erase: the entries at these positions stay, in their order.
KeepOnly(positions) ==
    \E order \in [1..Cardinality(positions) -> positions] :
        /\ \A j, k \in DOMAIN order : j < k => order[j] < order[k]
        /\ \A i \in positions : \E k \in DOMAIN order : order[k] = i
        /\ m_players' = [k \in DOMAIN order |-> m_players[order[k]]]

\* Mutated form of HandleDisconnect: the address is not compared.
DisconnectBySalt(addr, salt) ==
    /\ running
    /\ KeepOnly({i \in DOMAIN m_players : ConnectionSalt(m_players[i]) # salt})
    /\ UNCHANGED <<running, toClient>>

\* Every entry with the packet's salt and address goes; there is no answer.
HandleDisconnect(addr, salt) ==
    /\ running
    /\ KeepOnly(DOMAIN m_players \ EntriesWith(addr, salt))
    /\ UNCHANGED <<running, toClient>>

-----------------------------------------------------------------------------
(* The process. *)

\* The DISCONNECTs of QuitGame that an address gets: QUIT_REPEAT for each of
\* its entries, as far as its socket has room.  The salt each of them names is
\* left out, because no client reads it.
Goodbyes(addr) ==
    LET sent == QUIT_REPEAT * Cardinality(EntriesAt(addr))
        room == SocketCapacity - Len(toClient[addr])
    IN  [k \in 1..IF sent <= room THEN sent ELSE room |-> [type |-> "DISCONNECT"]]

\* Ctrl+C, or 100 seconds without a packet: ExecuteGame returns and QuitGame
\* sends each player in turn QUIT_REPEAT DISCONNECTs.  The process ends and
\* the players are gone: nothing is stored.
QuitGame ==
    /\ running
    /\ running' = FALSE
    /\ m_players' = <<>>
    /\ toClient' = [addr \in Address |-> toClient[addr] \o Goodbyes(addr)]

\* The process is killed or the machine goes down.
Crash ==
    /\ running
    /\ running' = FALSE
    /\ m_players' = <<>>
    /\ UNCHANGED toClient

\* A new server process.
Start ==
    /\ ~running
    /\ running' = TRUE
    /\ UNCHANGED <<m_players, toClient>>

ServerInit ==
    /\ running = TRUE
    /\ m_players = <<>>
    /\ toClient = [a \in Address |-> <<>>]

-----------------------------------------------------------------------------
(* The server on its own.  Each answer leaves before the next packet is    *)
(* handled; the server never reads toClient, so nothing is lost by that.   *)

Quiet == \A a \in Address : toClient[a] = <<>>

ClientReceives(addr) ==
    /\ toClient[addr] # <<>>
    /\ toClient' = [toClient EXCEPT ![addr] = Tail(@)]
    /\ UNCHANGED <<running, m_players>>

Handle(addr) ==
    \/ \E clientSalt \in ClientSalt, serverSalt \in ServerSalt :
        HandleConnectionRequest(addr, clientSalt, serverSalt)
    \/ \E salt \in Salts :
        \/ HandleChallengeResponse(addr, salt)
        \/ \E offset \in Offset : HandleClockSync(addr, salt, offset)
        \/ \E seqNum, ack \in 0..WORD - 1, ackBits \in SUBSET Bits,
              keyboard \in Keyboard :
            HandleGameState(addr, salt, seqNum, ack, ackBits, keyboard)
        \/ HandleDisconnect(addr, salt)

Next ==
    \/ \E addr \in Address : Quiet /\ Handle(addr)
    \/ \E addr \in Address : ClientReceives(addr)
    \/ Quiet /\ (QuitGame \/ Crash \/ Start)

Spec == ServerInit /\ [][Next]_serverVars

-----------------------------------------------------------------------------
(* Properties. *)

\* Every variable keeps its type; at most KEEP_RECEIVED numbers are kept.
TypeOK ==
    /\ running \in BOOLEAN
    /\ m_players \in Seq(Player)
    /\ \A i \in DOMAIN m_players :
        Len(m_players[i].receivedPackets) <= KEEP_RECEIVED
    /\ DOMAIN toClient = Address

Ascending(s) == \A j, k \in DOMAIN s : j < k => s[j] < s[k]

\* The scan of ComputeAckBits needs receivedPackets in ascending order with
\* the newest number last.  HandleGameState keeps it so, whatever sequence
\* numbers arrive (old ones, duplicates, wrapped ones) and across the removal
\* of old numbers and of other players.
ReceivedAscending ==
    \A i \in DOMAIN m_players :
        LET received == m_players[i].receivedPackets
        IN  /\ Ascending(received)
            /\ received = <<>> <=> m_players[i].remoteSequenceNumberLarge = 0
            /\ received # <<>> =>
                Last(received) = m_players[i].remoteSequenceNumberLarge

\* A client that asks again leaves a second entry behind.  Still only the
\* oldest entry of an address is ever CONNECTED, so an address is at most
\* once in the game.
OnlyOldestConnected ==
    \A i, j \in DOMAIN m_players :
        i < j /\ m_players[i].Address = m_players[j].Address
            => m_players[j].ConnectionState = "CONNECTING"

\* The entries of an address, as a set.
EntriesOf(addr) == {m_players[i] : i \in EntriesAt(addr)}

\* A packet of one client neither adds, changes nor removes an entry of another
\* client, and nobody else is answered: the handlers search one vector that all
\* clients share, by address and by salt.  Said of each address whose entries
\* or answers change: no packet of another address could have done that.
AddressIsolation ==
    [][\A b \in Address :
        EntriesOf(b)' # EntriesOf(b) \/ toClient'[b] # toClient[b] =>
            \A a \in Address \ {b} : ~(Quiet /\ Handle(a))]_serverVars

\* "Find a free player ID" (Server.cpp:144): two clients in the game never
\* have the same player id.
UniquePlayerIDs ==
    \A i, j \in DOMAIN m_players :
        m_players[i].playerID = m_players[j].playerID
            => m_players[i].Address = m_players[j].Address
=============================================================================
