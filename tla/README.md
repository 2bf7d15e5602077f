# Rocket game: specifications

TLA+ modules that model this repository: a game server, a console client and a graphical client in
C++ that play over UDP, and the older .NET relay and game. TLC configurations check them on small
instances, and proofs, checked by TLAPS, cover what matters most for every instance. `PROJECT.json`
maps every definition to the lines it translates. Paths below are relative to `src/src/cpp/`.

## The system

| Part | State | Operations | Works with |
|---|---|---|---|
| **Server** (`RocketServer/Server.cpp`, `Player.h`) | `m_players`, a vector of entries: address, salts, id, connection state, sequence numbers, `sendPackets`, `receivedPackets` | a handler per packet type, dispatched by `ExecuteGame`; `QuitGame` | one non-blocking UDP socket, one thread |
| **Client** (`RocketConsole/Client.cpp`, `main.cpp`) | salts, `m_connectionState`, clock samples, `m_sendPackets`, `m_receivedPackets`, sequence numbers | `EstablishConnection`, `SyncClock`, `ExecuteGame` (`SendGameState`, `HandleGameState`), `QuitGame`, two retry loops in `main` | the server, by packets; the UI, by two queues |
| **NetworkUtilities** (`RocketServer/NetworkUtilities.h`) | none | `SequenceNumberDiff`, `ComputeAckBits`, `StoreAcks`, `VerifyAck` | called by both ends |
| **NetworkQueue** (`RocketServer/NetworkQueue.h`) | ring buffer, atomic `m_head`, `m_tail` | `push` (one thread), `pop` (another) | between UI and networking thread |
| **Network** (`RocketServer/Network.cpp`) | a socket | `Initialize`, `Send`, `Receive` | both ends; `Receive` never waits |
| **Game** (`Rocket/Game.cpp`, `main.cpp`) | `g_running`, `g_keyboard`, `m_scene`, two threads | `Update` per frame, `NetworkLoop` | a `Client` and its queues |
| Physics, prediction | snapshots | `RollbackAndReplay`, … | nothing calls them yet |
| **NetworkPacket, CRC32** (`RocketServer/NetworkPacket.cpp`, `CRC32.cpp`) | bytes, read offset | write and read numbers, checksum | every `Send` and every packet received |
| **.NET relay** (`../dotnet/RocketServer`) | players by end point: number, time of the last packet; a stopwatch | hands each packet to all others, removes who is silent | the games, by a protocol of its own |
| **.NET game** (`../dotnet/Rocket`) | `Status`, two queues, `_isFiringNotSent`, `_next` | `Rocket.Update`, `OtherRocket.Update` per frame; `RunNetworking` as a task | the relay |
| Graphics, logger | | drawing, text | |

The handshake is CONNECTION_REQUEST, CHALLENGE, CHALLENGE_RESPONSE, CONNECTION_ACCEPTED; the
connection salt is the pair of both random halves. Then follow rounds of CLOCK, GAME_STATEs with
acknowledgement masks, and ten copies of DISCONNECT by whoever leaves first.

What is hard about it:

- **two threads without locks** over rings whose indices wrap and whose atomic loads may be old;
- **retries against state left behind**: an attempt that timed out leaves an entry in `m_players`
  and packets in sockets, and the next attempt meets them;
- **loss, duplication, reordering, lateness** of packets, failing `Send`s, a server that stops,
  crashes and comes back without its players;
- **sequence numbers that wrap** and masks read against vectors that must stay in step with them;
- **one vector for all clients**, appended to, erased from and searched by address or salt;
- **answers that are read by another round** than the one that asked, since `Receive` never waits;
- **a packet taken back from a queue** that another thread is emptying (.NET game).

`hazards` in PROJECT.json lists these one by one with the line where each bites and the property
that would show it going wrong.

What makes each part correct:

- the server: received numbers stay in the order the masks need, an address is in the game once,
  clients do not disturb each other, ids are unique (they are not, see Findings);
- the connection: a client only plays under a salt the server has admitted and issued, everyone
  gets connected if nothing is lost, who left is forgotten;
- the acknowledgements: the packet an answer names has arrived, and so have those of its mask as
  long as the packets of the mask's window came in order; nothing is counted twice;
- the queue: first in first out, no race, no item stuck; the game loop: what is shown only moves
  on and the player's keys get through;
- the clocks: how wrong offset and round-trip time can be; the bytes: what is damaged is not read;
- the relay and its games: every shot is told once and shown at most once, players have numbers of
  their own and the silent ones go.

## The modules

| Module | Models | Uses |
|---|---|---|
| `Fifo` | abstract: an atomic bounded queue | |
| `NetworkQueue` | `push` and `pop`, one load or store of an atomic per step | refines `Fifo` |
| `NetworkQueue_proofs` | theorems on it | |
| `NetworkUtilities` | the four functions as operators; a scan is a recursive function over its rounds | |
| `NetworkUtilities_proofs` | what each scan returns | |
| `Wire` | numbers as bytes, checksum, validation | |
| `Acks` | masks between two players over a network that loses, repeats, reorders and damages | `NetworkUtilities`, `Wire` |
| `Acks_proofs` | theorems on it, and on the checksum of `Wire` | `NetworkUtilities_proofs` |
| `Protocol` | packet fields, salts, sockets | |
| `Server` | every handler, start, stop, crash; `Spec` puts it in an environment that knows no protocol | `NetworkUtilities`, `Protocol` |
| `MCServer` | the model values and symmetry of the server's runs | `Server` |
| `Client` | handshake, clock rounds, game loop, good-bye and the loops of `main` | `Protocol` |
| `Admission` | abstract: what connecting and leaving promise with both ends in view | |
| `Session` | clients, server and network together, with a budget of faults | `Server`, `Client`; refines `Admission` |
| `Session_proofs` | theorems on the server, what each step does, and the theorems on the session | `Server`, `Session` |
| `GameExchange` | the client's frames and game states, against a peer that tells the truth | `NetworkUtilities` |
| `GameExchange_proofs` | theorems on it | `NetworkUtilities_proofs` |
| `ClockSync` | `SyncClock`, `HandleClockSync` and the packets between them, with times | |
| `GameLoop` | UI thread and networking thread of the graphical client | `ClockSync`; the queue as `Fifo` has it |
| `GameLoop_proofs` | theorems on both | |
| `RelayLink` | UDP between the relay and the .NET games | |
| `Relay` | the relay's loop | `RelayLink` |
| `RelayClient` | the two threads of a .NET game, as far as shots go | `RelayLink` |
| `RelayGame` | relay and games together | `Relay`, `RelayClient` |
| `RelayGame_proofs` | theorems on it | |
| `Induction_proofs` | induction and loops, for the proofs above | |

How they correspond to the code:

- Variables and operators carry the source's names. A vector is a sequence, a pointer into it an
  index, a packet a record. A handler is one action: the server is one thread, so nothing comes
  between the lines of a handler.
- `NetworkQueue` keeps for each atomic index every value it ever had (`m_head`, `m_tail`) and for
  each thread how far it has seen (`tailSeen`, `headSeen`). An acquire load may return any value
  that is not older than the last one seen; that is what the memory order guarantees and no more.
- Sequence numbers keep their width: `WORD` stands for 2^16, `LONG` for 2^64 and `ACK_BITS` for 32.
  Subtractions of unsigned values are taken modulo their width.
- In `Acks` and `GameExchange` packets arrive in any order and any number of times, as `Receive`
  takes them from a UDP socket, and large numbers are worked out from small ones by
  `SequenceNumberDiff` on both ways, as in the code. Histories keep what the wire does not carry:
  which packets came (`arrived`, `delivered`), which one came last (`newest`, `lastHandled`), which
  one is behind each number recorded (`handled`), what an answer was sent to say (`told`), and
  whether a GAME_STATE overtook another (`inOrder`). The sender's record in `Acks` keeps every
  packet; what is removed from it is modelled in `Server` and `GameExchange`.
- `Server!Spec` lets any packet that fits the types come at any time. `Session` runs the same
  handlers on what clients really send.
- `QuitGame` sends its good-byes to an address; the salt they carry is left out of the packet, since
  no client reads it. A socket holds `SocketCapacity` packets, at least one.
- Salts are drawn at random; a draw is taken never to repeat a value still in use. `Session`
  draws one of the unused values, since which one makes no difference.
- A sleep of the client (1 to 3 s) is long: what it sent has been handled when it wakes up, unless
  something was *late*, which is a fault like the others.
- The server ignores what `Send` returns except in the log: its failed `Send`s are lost packets.
- INPUT_FRAME packets are left out of `Session`: the server has no case for them and drops them.
  A GAME_STATE that the server's `HandleGameState` handles comes from `Server!Spec`'s environment.
  For the same reason `GameExchange` cannot be closed by this repository's server; its peer is
  external and truthful.
- `Client` has the control of `SyncClock` in a few states per round, for `Session`; `ClockSync` has
  the same function with its numbers, for `GameLoop`, where the connection is given.
- In `Wire` a byte is the set of the positions of its one bits: exclusive or is the symmetric
  difference, a shift moves positions. The two packets of NetworkPacketTests.cpp are an `ASSUME`
  that TLC evaluates. In `Acks` the answer travels as such bytes, and the receiver's checks are the
  code's; in the other modules a packet is a record and a damaged one a lost one.
- `RelayLink` keeps what was sent in sets that only grow: any of it may arrive at any later moment,
  again, in any order or never. Each packet goes out at an instant of its own (`Ticks`), and all
  clocks agree. A player in `Guest` is seen only by what it sends; the other games are modelled
  line by line. In `RelayClient` a packet carries, as history, the last shot it tells of.
- In `GameLoop` the connection phase is only its outcome (`Client` has the detail). When the UI
  loop ends, `Game`'s members are destroyed in reverse order, the client before the thread that
  uses it is joined; what happens then is undefined and the model ends there.

## The runs

`tlc -workers 2 -config <run>.cfg <module>`; times are on two cores. In the runs with
`CHECK_DEADLOCK FALSE` the system may really stop, and each cfg says where.

| Run | Question | Instance |
|---|---|---|
| `NetworkQueue` | race freedom, order, refinement of `Fifo`, progress | 3 slots, 5 pushes, two values |
| `Acks` | what an answer may acknowledge, mask and scan exact | 2-bit masks, 5 packets in any order on a wire of 4 numbers, recorded under numbers up to 6, a bit of one byte turned |
| `Server` | `ReceivedAscending`, `OnlyOldestConnected`, `AddressIsolation` | 2 addresses, 3 entries, 3 frames on a wire of 2 numbers |
| `Session` | admission, connection and departure of everyone, without faults | 2 clients, 3 server salts |
| `SessionFaults` | agreement, stale entries, what the salts guarantee, recovery after a restart | 1 client, 3 faults of any of seven kinds |
| `GameExchange` | the client's vectors and masks across the wrap | 7 numbers on a wire of 6, two GAME_STATEs under way in any order, loss and duplicates |
| `GameLoop` | clock values; what the UI shows and what the network sends | 2 rounds, 3 ms, 2 CLOCKs under way; queues of 2, 4 game states, 2 keyboards |
| `RelayGame` | shots, numbers, silence | 1 game and 2 guests, 4 moments, 1 shot of the game, 2 packets queued |
| `AcksLowestBit`, `ServerIDs`, `SessionRetry`, `GameExchangeKeep` | one documented expectation each, found violated | see Findings |

Why the bounds are enough:

- **Queue.** With three slots the ring is empty, partly filled and full; five pushes take both
  indices round it and into a second lap. The proofs cover every capacity and any number of pushes.
- **Masks.** Two bits are the first and the last one, which the code treats differently. Wire
  numbers run from 0 to 3, so that three packets come before they start over and two after it, and
  any of the five may arrive at any time. Each packet that is repeated or comes late makes the
  receiver count on, so `MaxCounted` ends that: it leaves room for the five in order and for one
  number more. `AckBitsOf` and `AckedBy` are the definitions the scans are compared with. The proofs
  cover masks of up to 32 bits, any range of wire numbers that fits in the 16 bits of `ack`, any
  number and order of packets, and any bits of the byte that is damaged.
- **Server.** Two entries of one address beside one of another is the least in which entries mix;
  with wire numbers of two values, in words of three, they start over within three frames. Again
  the proofs cover every size.
- **Session.** Two clients without faults, or one with three faults: three is enough for a fault
  in an attempt, one in its retry and one in the recovery. `SocketCapacity` and, in `Session`,
  `PlayerBound` are never met; in `SessionFaults` a client that is one packet behind adds an entry
  in each attempt and `PlayerBound` ends that.
  `QUIT_REPEAT` = 2 and `SYNC_ROUNDS` = 2 stand for 10 and 10: a first and a later one.
- **GameExchange.** Both sides give out seven numbers on a wire of six, so everything is checked
  across the restart. Two GAME_STATEs under way are the least in which one overtakes another; each
  time they take turns, or one is handled again after the other, the client counts on, which
  `MaxCounted` bounds. `MaxLate` keeps lateness below half the wire's range, and `MaxGap` what the
  client loses in a row: in the program 100 seconds without a packet end the game, and 6000 frames
  are far less than 32768. The instance meets the limits of the theorems `OnlyArrived` and
  `FrameTells` (below). `MaxUnanswered` bounds what is open at a time. The proofs cover every size.
- **GameLoop.** With two places either side can be a whole queue ahead, so that items are dropped.
  Two rounds and two packets under way are the least in which an answer meets a later request, in
  the same call or the next; `MaxTime` leaves room for a time-out and for a second call. The proofs
  cover any number of rounds, packets and milliseconds.
- **RelayGame.** Three players are the least of which two can be given one number. `SILENCE` and
  `SWEEP` of one moment each let players go and come back within four. One shot and two queued
  packets are enough for a shot to be carried over, doubled and reordered; `NoGhostShots` needs the
  guests' shots, which are as many as there are moments. The proofs cover any number of each.

### Fairness

- `NetworkQueue`: a started `push` or `pop` goes on, and `pop` in the end sees a new `m_head`
  (an atomic store becomes visible in finite time, and both callers poll: `Update` and
  `SendGameState`). Nobody has to push.
- `Session`: each client is a process of its own (weak fairness of each `ClientStep`); the server's
  socket is a queue and its loop takes one packet after the other (weak fairness of
  `Serve \/ Undelivered` per client). Users, faults and whoever starts the server are not fair.
- `GameLoop`: both threads are scheduled (weak fairness of `UI` and of `Network`); a frame is due
  again and again because time goes on, whichever rounds of the loop come before it
  (strong fairness of `SendFrame`).

### What the passing runs show beyond the obvious

- Without faults handshake, clock rounds and good-byes implement `Admission`: nobody plays under a
  salt the server has not admitted, and the entry stays until the client has left.
- With losses, failed sends and crashes a connection is never half open while the server lives,
  every fault leaves at most one stale entry, and an attempt from a clean slate succeeds.
- With duplicates, lateness, reordering and a server that stops, agreement no longer holds, since
  CONNECTION_ACCEPTED carries no salt: a stray one can complete a later attempt. `SessionFaults`
  keeps in `strays` whether that is possible. What remains in every case is that the salt was issued
  to that client in that attempt (`SaltsWereIssued`) and that the server connects only an entry
  whose challenge was answered (`ConnectedHasAnswered`).
- The offset of the clocks is wrong by the age of the answers, and always to the same side
  (`OffsetWithinAge`): an answer that waited in the socket makes the server's clock seem late. The
  round-trip time errs to the other side: it is compared with the newest request, so it is too short
  or right (`RoundTripNotOverstated`).
- Between the threads of a .NET game no shot is lost, although the packet taken back may be the new
  one instead of the old (`ShotsAreCarried`); if the networking task takes both, `previous` is null
  and the game ends by an exception (`ReplaceNothing`).
- The relay looks for silent players only when a packet arrives, but between two players who are in
  the table there are never more than the silence and one sweep (`SilentPlayersGo`). Its numbers are
  distinct until somebody has left (`NumbersAreDistinct`); afterwards two players may share one, and
  then are not relayed to each other.
- An acknowledgement always names a packet that arrived: the small number is that of the packet
  that came last, on the server (`NoFalseAck`) and on the client (`FrameTellsTruth`), in whatever
  order packets come, as long as the answer is not half a range of wire numbers late. The masks are
  another matter, as the next part says.

### What reordering does to the masks

`SequenceNumberDiff` returns the distance of an older packet as a positive number, in an unsigned
type. So the branch for out-of-order packets (`diff < 0`, Server.cpp:317, Client.cpp:393) never
runs; the older packet is recorded under a number ahead of the last one. `MaskIsExact` and
`ReceivedAscending` hold all the same, since they speak of the numbers recorded. What those
numbers stand for is another question, and the properties state under which condition they tell the
truth. Without the condition TLC finds these behaviours:

- *Server's way, mask around the large number.* Of the packets 1 to 5 the first two are lost, 5
  arrives and then 3. The receiver records 5 and 7, acknowledges the small number 3, and its mask
  has the bit for 5, two before 7. The sender reads it as two before 3: packet 1, which never came,
  counts as delivered. Hence `NoFalseAck` speaks of the mask only if the packets in its window came
  in order (`Tidy`). As soon as the reordered packet has left the window, the masks are right again,
  however wrong the large numbers are: only their distances count.
- *Restart.* Senders number modulo 65535 and receivers count modulo 65536, so a window that spans
  the restart of the wire numbers has one number too many in it and names wrong packets as well.
  `Tidy` asks for one run of the wire numbers. `Recent` is the same for the answer's way back, where
  the sender works out its large number from the small one.
- *Client's way, mask around the small number* (Client.cpp:504). GAME_STATEs 1, 2, 4, 3 and 5 are
  handled in this order, 6 and 7 are lost, 8 comes. The client has recorded 1, 2, 4, 5, 7 and 10,
  and its mask around the small number 8 names 7, which it never got. The large numbers have run
  away from the small one and stay ahead of it, so the client does not recover: `FrameTellsTruth`
  speaks of the mask only while no GAME_STATE has been handled after a later one (`inOrder`). After
  the wire numbers have started over, the numbers of a client are all above its small number, and
  its mask is empty.

No test or document of the repository says what an out-of-order packet should do; the branch that
never runs shows that it was meant to be noticed. So these are hazards in `PROJECT.json` and not findings.

## Findings

1. **The lowest bit of the mask is never read** (`AcksLowestBit`). `VerifyAck` uses in each round
   the bit of the round before; AckTests.cpp:37-47 has bit 0 count.
2. **Player ids are not free ones** (`ServerIDs`). "Find a free player ID" (Server.cpp:144) keeps
   the last id that is taken; the second client gets the first one's id.
3. **Retries after a lost packet are denied forever** (`SessionRetry`). HandleConnectionRequest
   recognises a client that asks again (Server.cpp:131, 136) but appends an entry all the same, and
   responses are compared with the oldest entry only.
4. **`HandleGameState` forgets everything it sent** (`GameExchangeKeep`). "Keep the last 33
   packets" (Client.cpp:410) computes `size() - 33` unsigned; with fewer than 33 it removes all.

## The proofs

`tlapm <module>.tla` checks them, for the eight modules that end in `_proofs`. No theorem depends on
the models' small instances. Every invariant and action property, and every refinement, that a
passing run checks is a theorem here.

**NetworkQueue**, from `CapacityAssumption` (at least two slots). The invariant is
`TypeOK /\ RingInv`. Race freedom and order alone are not inductive: nothing would say that a
thread that works from an old view is still right. `RingInv` has three parts: `IndexInv`, the n-th
value of an index is (n-1) mod Capacity; `WindowInv`, the tail never passes the head nor falls a
lap behind, *even where the thread has seen only an old value*; `ContentInv`, the slots between
them hold exactly the accepted items that were not returned. Each step is proved to keep each
part. From it follow `RaceFree`, `InOrder` and `Refinement`: every step of `push` and `pop` is a
step of `Fifo` with Capacity - 1 places, or changes nothing there.

**Server**, from `ServerAssumption` and the assumptions on widths and packets that `Protocol` and
`NetworkUtilities` name. The invariant says for each entry that it has its type and that its received
numbers ascend, are within their limit and end in the newest one, and for each pair of entries of one
address that only the older may be CONNECTED. There are lemmas for appending to, removing from
and filtering the vector, for the modular difference, and one step per handler.
`ReceivedInOrder` is the precondition of `ComputeAckBits`; `OneConnectedPerAddress` holds although
a client may have any number of entries; `Isolation` is an action property and takes the step
the other way round: if an entry of an address appears, changes or goes, or something is sent to
that address, then the packet handled in this step came from it.

**Session**, from `SessionAssumption` and those of its parts. A step concerns one client, or the
server and all of them; `Session_proofs` sorts the steps into kinds (a client asks, is
challenged, is accepted, gives up; the server handles a request, a response, something else; the
network disturbs; the server ends) and says of each what it does to queues and entries and that it
leaves the other clients alone. `SessionInv` are the types together with the server's own
invariant, so `OnlyOldestConnected` carries over. On top of it each property gets the invariant of
a client it needs:

- `SaltAt`, whatever happens: a response in the server's socket and a CONNECTED entry are of a salt
  the client answered, and what the client accepts was issued to it. From it follow
  `OnlyIssuedSalts` and `OnlyAnsweredChallenges`.
- `ConvAt`, as long as no stray packet is about: in each phase of the client exactly which packets
  can be under way and how many entries there can be. Neither agreement nor the count of stale
  entries is inductive without it, because a response that is still to be handled decides both.
  From it follow `Agreement` and `FewStaleEntries`.
- `FreshAt`, as long as there was no fault: nobody is admitted before the server has handled the
  response. From it follow `OneEntryUntilFault` and, where `MaxFaults` is 0, `OneEntryWithoutFaults`
  and `SessionImplementsAdmission`: every step is a step of `Admission`, or changes nothing there.

**NetworkUtilities**. `AckBitsAreExact` and `VerifyAckIsExact` say that one pass from the end of an
ascending vector sets exactly the bits, and marks exactly the packets, that the definitions
`AckBitsOf` and `AckedBy` name, for masks of any width; `StoreAcks` keeps to the packets that are
named. The invariant of a pass is that what was skipped is larger than all that is still expected.

**Acks**, from `AcksAssumption` and those of `NetworkUtilities`. First the checksum: the polynomial
has its highest bit set, so a round of a shift and an exclusive or can be undone
(`ShiftedInjective`). Looking up a byte in the table is eight rounds of the word with the byte added
to it (`TableRounds`), so two checksums that differ before a byte differ after it, and two bytes
lead from one word to different ones (`UpdatedInjective`). Hence messages that differ in one byte
have different checksums (`ChecksumTells`), and `DamageIsNoticed`: whatever bits of one byte of a
valid packet are turned, those of the stored checksum included, the receiver drops it. Next the
bytes: what is written highest byte first is read as it was (`WrittenIs`, `ReadIs`), for numbers of
16 bits (`NumberOfBits`) and for a packet of two fields (`PacketOfTwo`). The invariant `AcksInv`
then says what the numbers recorded are, in whatever order packets came: they ascend, and two
neighbours are apart by the distance that `SequenceNumberDiff` finds between the wire numbers of the
packets behind them (`Recorded`); the small number is that of the last packet. An answer under way,
if it is valid, carries that small number and exactly the mask of the numbers recorded, and if the
window was tidy when it was sent, the packets of its mask have arrived. `MaskIsExact` alone is not
inductive: it does not say that the answer was whole before the damage. Within one run of wire
numbers the difference counts a later packet by its distance (`StepAhead`), and an earlier one, at
most half the range behind, too (`StepBehind`). From the first, by induction over the window,
back from its end, the recorded numbers of a tidy window are as far apart as the packets
(`TidyDistance`); from the second, the sender finds the number of the packet that an answer not too
old names (`AckedNumberIs`). From these follow `NoneFalselyAcked` and, without conditions on the
order, `AcksTypeCorrect`, `MasksAreExact` and `MarkingIsExact`.

**GameExchange**, from `ExchangeAssumption` and those of `NetworkUtilities`. `ExchangeInv` has both
vectors in order and within their limits, the packets sent without a gap, and the peer with only
what was sent; a new number lies above the last because the difference it is counted on by is in
1..WORD-1. From it follow `ExchangeTypeCorrect`, `SentContiguous` and `ReceivedAscends`, whatever is
lost or late. The other two need limits, because wire numbers start over:

- `OnlyArrived`, if `WithinReach`: what is late stays within half the wire's range, what is late and
  what is stored together within the range, and the peer remembers what can still be named. The
  invariant `ArrivedInv` says that every GAME_STATE under way tells of frames that have arrived. A
  wire number is then taken for the number it stands for, or for one that is older than everything
  stored.
- `FrameTells`, if `GapsCount`: what is lost in a row stays within half the range, and what is lost
  between the numbers stored within the range (in the program 1985 frames in a row, or half a
  minute, if all the numbers stored are that far apart). That the small number is the one of the
  last GAME_STATE handled needs no more; what the theorem says of the mask is only for as long as
  none came after a later one (`inOrder`). Until then `FrameInv` says what the client's count really
  is: the number and one more for each time the wire numbers started over, because numbers are
  reduced modulo 65535 and differences modulo 65536. Without the limit the property is false even in
  order: if a whole range of wire numbers is lost the mask names a number of the round before, and
  TLC shows it with `MaxGap` = 8, 12 frames and one GAME_STATE under way.

**GameLoop**, from `ClockSyncAssumption` and `GameLoopAssumption`. `SceneInv` is `TypeOK` and the
fact that the queued states ascend and lie above the scene and not above `handled`; from it follows
`SceneAdvances` for queues of every size. `ClockInv` says of every packet under
way that it is from the past and, while the client waits, was asked for no later than its newest
request, and of every sample that its round trip is no longer than the true one and its offset wrong
by its age and a rounding at most; `RoundTripsNotOverstated` follows, and `SamplesAged`: a single
offset is wrong by the age of its answer and at most one millisecond of rounding. `OffsetAged` takes
this to the average of any number of samples: their sum lies between the number of samples times the
oldest and times the true offset, and the division that cuts toward zero keeps the quotient there.

**RelayGame**, from `RelayLinkAssumption`, `RelayAssumption` and `RelayClientAssumption`. For the
relay: nobody in the table was heard before the last sweep minus the silence, nor later than a sweep
after it, and the numbers given so far are 1, 2, ... modulo BYTE. For a game: shots told, firing
packets sent, queued and flagged add up to no more than the shots fired, the packets of the queue
are in the order of their shots, and the last shot not told is in the flag or the queue. From these
follow `NumbersDistinct`, `SilentGo`, `ShotsCarried` and `ToldOnce`. `TypeCorrect` needs no more than
that a game is in the others' inboxes only. `NoGhosts` counts: every packet has its own `Ticks`, a
firing packet is one shot told, and a game has shown no more shots than there are firing packets of
others with `Ticks` up to its `_next`, since it takes a packet only if it is newer. So the shots
shown are no more than the firing packets, which are the library's sum over the players.

**Induction**. The library's theorems on induction take an operator as a parameter. Here they are
proved for a set of numbers and for a function that makes the rounds (`Induction`, `Rounds`,
`Recursion`, `RoundsTyped`), from the well-foundedness of finite sets; the proofs about the scans,
sums and queues read in a loop use them.

The assumptions are those the modules name; beside types they say that a mask and a word have at
least one bit, and that the model's counters stay below a uint64_t (`ExchangeAssumption`).

Only model-checked: everything that needs fairness (`EveryPushIsPopped`, `Connects`,
`PlayerIsForgotten`, `CleanStartConnects`, `KeyboardGetsThrough`, `StatesAreShown`), because the
prover has no ENABLED. The properties of the violated runs are false.

## Not modelled

- *Prediction and rollback* (Client.cpp:528-688): `m_gameStateSnapshot` is never filled, so
  `ClientSidePrediction` returns at once, and nothing calls the rest.
- *Physics*: floating-point arithmetic without state, called by prediction only.
- *Graphics, logger*: output. *Creating sockets and reading errno*: pure I/O.
- *Player states, keyboard bytes and floats on the wire*: data that no property tells apart.
- *The server's half of the exchange as a composition of two programs*: `Server` has its handler
  for any packet and `Acks` the masks across the wrap, where senders reduce modulo 65535 and
  receivers count modulo 65536 (SequenceNumberTests.cpp:46,77), but no program of this repository
  sends the server GAME_STATEs, since the client sends INPUT_FRAMEs that it drops.
- *The end of the graphical client* after its `Game` is being destroyed: undefined behaviour.
- *Movement and drawing of the .NET game.*
- *Tests*: read, quoted by findings, and taken over as an assumption of `Wire`; not modelled.

## How the modules came about

Queue, acknowledgements, server, session, exchange and game loop came first, with the theorems on
queue and server; then the full fault model of the session, the clock values, the bytes, the relay
with its games, and the theorems on exchange, game loop and relay; then those on the session and its
refinement of `Admission`, on the scans, the checksum and the acknowledgements that travel under it,
and on what counts as acknowledged, averaged and shown. What would be worth adding: `GameLoop` over
the ring of `NetworkQueue` in place of the atomic queues that it is shown to implement.
