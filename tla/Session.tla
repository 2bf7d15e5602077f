------------------------------ MODULE Session -------------------------------
(***************************************************************************)
(* Clients and server together: the connection handshake, its retries, the *)
(* clock synchronization and both good-byes, over UDP.                     *)
(*                                                                         *)
(* The environment acts within a budget of faults: packets may be lost,    *)
(* duplicated, reordered or late, a Send may fail, the server may stop,    *)
(* crash and be started again.  Without a fault the network is reliable    *)
(* and in order, and quicker than the sleeps of the client.                *)
(***************************************************************************)
EXTENDS Server, Client

CONSTANTS
    Gone,        \* of Admission: the client has left
    FaultKinds,  \* the faults that may happen
    MaxFaults    \* bound of the model: how many of them

ASSUME SessionAssumption == MaxFaults \in Nat /\ Gone \notin Salts \cup {NoSalt}

VARIABLES
    faults,       \* how many faults there were
    strays,       \* history: a client may have found a packet of an earlier
                  \* attempt in its socket
    undisturbed,  \* history, per client: no server ended since the client's
                  \* last attempt began
    issued,       \* history, per client: the salts of the CHALLENGEs sent to it
                  \* since its last attempt began
    answered      \* history, per client: the salts of its responses that the
                  \* server may still come to compare

historyVars == <<undisturbed, issued, answered>>
faultVars == <<faults, strays>>
vars == <<serverVars, clientVars, faultVars, historyVars>>

SessionInit ==
    /\ ServerInit
    /\ ClientInit
    /\ faults = 0
    /\ strays = FALSE
    /\ undisturbed = [c \in Address |-> TRUE]
    /\ issued = [c \in Address |-> {}]
    /\ answered = [c \in Address |-> {}]

NoFault == UNCHANGED faultVars

Fault(kind) ==
    /\ kind \in FaultKinds
    /\ faults < MaxFaults
    /\ faults' = faults + 1
    /\ strays' = (strays \/ kind \in {"duplicate", "reorder", "late", "stop"})

-----------------------------------------------------------------------------
(* The clients. *)

\* Salts are drawn at random, which is taken to mean: never one that is still
\* in use.  Which of the unused ones it is makes no difference to anybody, so
\* one of them stands for all.
OneOf(S) == IF S = {} THEN {} ELSE {CHOOSE x \in S : TRUE}

ClientSaltsInUse(c) ==
    {m_players[i].ClientSalt : i \in EntriesAt(c)}
    \cup {toClient[c][i].clientSalt :
            i \in {j \in DOMAIN toClient[c] : toClient[c][j].type = "CHALLENGE"}}
    \cup {toServer[c][i].clientSalt :
            i \in {j \in DOMAIN toServer[c] :
                    toServer[c][j].type = "CONNECTION_REQUEST"}}
    \cup {toServer[c][i].salt[1] :
            i \in {j \in DOMAIN toServer[c] :
                    toServer[c][j].type = "CHALLENGE_RESPONSE"}}

\* Mutated form of Slept: the client does not wait for the server.
SleptNotAtAll(c) == NoFault
\* A sleep (one second after a request or a response, one between two calls
\* of SyncClock, three between two attempts) is over.  By then the server has
\* handled what the client sent, or else the network or the server is late.
Slept(c) ==
    \/ toServer[c] = <<>> /\ NoFault
    \/ toServer[c] # <<>> /\ Fault("late")

\* The connection salts that the server may still come to compare.
OpenSalts(c) ==
    {ConnectionSalt(m_players[i]) : i \in EntriesAt(c)}
    \cup {toServer[c][i].salt :
            i \in {j \in DOMAIN toServer[c] :
                    toServer[c][j].type = "CHALLENGE_RESPONSE"}}

BeginAttempt(c) ==
    /\ \E salt \in OneOf(ClientSalt \ ClientSaltsInUse(c)) :
            EstablishConnection(c, salt)
    /\ Slept(c)
    /\ undisturbed' = Set(undisturbed, c, TRUE)
    /\ issued' = Set(issued, c, {})
    /\ answered' = Set(answered, c, answered[c] \cap OpenSalts(c))
    /\ UNCHANGED serverVars

\* Receive finds the socket empty.
EmptySocket(c) == toClient[c] = <<>>

TimeOut(c) ==
    /\ EmptySocket(c)
    /\ \/ ChallengeTimeout(c) /\ Slept(c)
       \/ AcceptedTimeout(c) /\ Slept(c)
       \/ NoClockYet(c) /\ NoFault
       \/ ClockTimeout(c) /\ Fault("late")
       \/ IdleOut(c) /\ NoFault
    /\ UNCHANGED <<serverVars, historyVars>>

\* Receive takes the next packet out of the socket: in EstablishConnection
\* after a sleep, elsewhere at any time.
ReceivePacket(c) ==
    /\ ~EmptySocket(c)
    /\ LET packet == Head(toClient[c])
       IN  \/ /\ ReceiveChallenge(c, packet)
              /\ answered' = Set(answered, c, answered[c] \cup {connectionSalt'[c]})
              /\ Slept(c)
           \/ /\ \/ ReceiveOtherThanChallenge(c, packet) /\ Slept(c)
                 \/ ResponseFails(c, packet) /\ Fault("send")
                 \/ ReceiveAccepted(c, packet) /\ Slept(c)
                 \/ ReceiveOtherThanAccepted(c, packet) /\ Slept(c)
                 \/ ReceiveClock(c, packet) /\ NoFault
                 \/ ReceiveInGame(c, packet) /\ NoFault
              /\ UNCHANGED answered
    /\ toClient' = Set(toClient, c, Tail(toClient[c]))
    /\ UNCHANGED <<running, m_players, undisturbed, issued>>

\* A call of SyncClock begins after a sleep; its later rounds do not.
Synchronize(c) ==
    /\ \/ SendClock(c) /\ syncRound[c] = 0 /\ Slept(c)
       \/ SendClock(c) /\ syncRound[c] > 0 /\ NoFault
       \/ ClockSendFails(c) /\ Fault("send")
       \/ SyncNotConnected(c) /\ NoFault
    /\ UNCHANGED <<serverVars, historyVars>>

FailRequest(c) ==
    /\ RequestFails(c)
    /\ Fault("send")
    /\ UNCHANGED <<serverVars, historyVars>>

Leave(c) == LeaveGame(c) /\ NoFault /\ UNCHANGED <<serverVars, historyVars>>

\* What the program does on its own.
ClientStep(c) ==
    \/ BeginAttempt(c) \/ FailRequest(c)
    \/ TimeOut(c) \/ ReceivePacket(c)
    \/ Synchronize(c) \/ Leave(c)

\* What its user does.
UserStops(c) == Interrupt(c) /\ NoFault /\ UNCHANGED <<serverVars, historyVars>>

-----------------------------------------------------------------------------
(* The server. *)

ServerSaltsInUse == {m_players[i].ServerSalt : i \in DOMAIN m_players}

\* One round of ExecuteGame.
Dispatch(c, packet) ==
    \/ /\ packet.type = "CONNECTION_REQUEST"
       /\ \E serverSalt \in OneOf(ServerSalt \ ServerSaltsInUse) :
            /\ HandleConnectionRequest(c, packet.clientSalt, serverSalt)
            /\ issued' = Set(issued, c,
                             issued[c] \cup {<<packet.clientSalt, serverSalt>>})
    \/ /\ packet.type = "CHALLENGE_RESPONSE"
       /\ HandleChallengeResponse(c, packet.salt)
       /\ UNCHANGED issued
    \/ /\ packet.type = "CLOCK"
       /\ \E offset \in Offset : HandleClockSync(c, packet.salt, offset)
       /\ UNCHANGED issued
    \/ /\ packet.type = "DISCONNECT"
       /\ HandleDisconnect(c, packet.salt)
       /\ UNCHANGED issued

\* toServer' is toServer with another queue for c.
ToServer(c, queue) ==
    /\ toServer' = Set(toServer, c, queue)
    /\ UNCHANGED <<phase, g_running, m_connectionState, attemptVars,
                   m_connectionSalt, syncVars>>

Serve(c) ==
    /\ toServer[c] # <<>>
    /\ Dispatch(c, Head(toServer[c]))
    /\ ToServer(c, Tail(toServer[c]))
    /\ UNCHANGED <<faultVars, undisturbed, answered>>

\* Nobody is there to take the packet.
Undelivered(c) ==
    /\ ~running
    /\ toServer[c] # <<>>
    /\ ToServer(c, Tail(toServer[c]))
    /\ UNCHANGED <<serverVars, faultVars, historyVars>>

ServerEnds ==
    /\ \/ QuitGame /\ Fault("stop")
       \/ Crash /\ Fault("crash")
    /\ undisturbed' = [c \in Address |-> FALSE]
    /\ UNCHANGED <<clientVars, issued, answered>>

ServerStarts == Start /\ NoFault /\ UNCHANGED <<clientVars, historyVars>>

-----------------------------------------------------------------------------
(* The network. *)

\* What a queue may become.
Lost(queue) == {RemoveAt(queue, i) : i \in DOMAIN queue}
Doubled(queue) == {Append(queue, queue[i]) : i \in DOMAIN queue}
Delayed(queue) == {Append(RemoveAt(queue, i), queue[i]) : i \in DOMAIN queue}

Disturb(c, kind, upstream, downstream) ==
    /\ Fault(kind)
    /\ \/ /\ \E queue \in upstream : ToServer(c, queue)
          /\ UNCHANGED toClient
       \/ /\ \E queue \in downstream : toClient' = Set(toClient, c, queue)
          /\ UNCHANGED clientVars
    /\ UNCHANGED <<running, m_players, historyVars>>

Lose(c) == Disturb(c, "lose", Lost(toServer[c]), Lost(toClient[c]))
Duplicate(c) == Disturb(c, "duplicate", Doubled(toServer[c]), Doubled(toClient[c]))
Reorder(c) == Disturb(c, "reorder", Delayed(toServer[c]), Delayed(toClient[c]))

-----------------------------------------------------------------------------

SessionNext ==
    \/ \E c \in Address : ClientStep(c)
    \/ \E c \in Address : UserStops(c)
    \/ \E c \in Address : Serve(c) \/ Undelivered(c)
    \/ ServerEnds \/ ServerStarts
    \/ \E c \in Address : Lose(c) \/ Duplicate(c) \/ Reorder(c)

SessionSpec == SessionInit /\ [][SessionNext]_vars

\* Each client is a process of its own, and the server's socket is a queue in
\* which every packet gets its turn.  Nothing makes users or faults act.
FairSession ==
    /\ SessionSpec
    /\ \A c \in Address : WF_vars(ClientStep(c))
    /\ \A c \in Address : WF_vars(Serve(c) \/ Undelivered(c))

-----------------------------------------------------------------------------
(* Properties. *)

\* What may be under way to the server, and to a client.
Upstream ==
    [type: {"CONNECTION_REQUEST"}, clientSalt: ClientSalt]
    \cup [type: {"CHALLENGE_RESPONSE"}, salt: Salts]
    \cup [type: {"CLOCK", "DISCONNECT"}, salt: Salts \cup {NoSalt}]
Downstream ==
    [type: {"CHALLENGE"}, clientSalt: ClientSalt, serverSalt: ServerSalt]
    \cup [type: {"CONNECTION_ACCEPTED"}, playerID: 1..MAX_PLAYERS - 1]
    \cup [type: {"CONNECTION_DENIED", "CLOCK_RESPONSE", "DISCONNECT"}]

\* Every variable of the clients and the network keeps its type, and so do the
\* packets under way.
SessionTypeOK ==
    /\ phase \in [Address -> Phases]
    /\ g_running \in [Address -> BOOLEAN]
    /\ m_connectionState \in
        [Address -> {"DISCONNECTED", "CONNECTING", "CONNECTED"}]
    /\ clientSalt \in [Address -> ClientSalt \cup {NoSalt}]
    /\ connectionSalt \in [Address -> Salts \cup {NoSalt}]
    /\ m_connectionSalt \in [Address -> Salts \cup {NoSalt}]
    /\ syncRound \in [Address -> 0..SYNC_ROUNDS - 1]
    /\ clockOffsets \in [Address -> 0..SYNC_ROUNDS - 1]
    /\ \A c \in Address : clockOffsets[c] <= syncRound[c]
    /\ toServer \in [Address -> Seq(Upstream)]
    /\ toClient \in [Address -> Seq(Downstream)]
    /\ faults \in 0..MaxFaults
    /\ strays \in BOOLEAN
    /\ undisturbed \in [Address -> BOOLEAN]
    /\ issued \in [Address -> SUBSET Salts]
    /\ answered \in [Address -> SUBSET Salts]

\* "Check if the client is already connected" (Server.cpp:131): without
\* faults no client is twice in m_players, because its request is answered
\* before it asks again.
OneEntryPerAddress ==
    \A i, j \in DOMAIN m_players :
        m_players[i].Address = m_players[j].Address => i = j

\* The connected entry of a client at the server, if any.
Admitted(c) ==
    {ConnectionSalt(m_players[i]) :
        i \in {j \in EntriesAt(c) : m_players[j].ConnectionState = "CONNECTED"}}

Promise == INSTANCE Admission WITH
    Member <- Address, Salt <- Salts, None <- NoSalt,
    admitted <- [c \in Address |->
        IF Admitted(c) = {} THEN NoSalt ELSE CHOOSE salt \in Admitted(c) : TRUE],
    joined <- [c \in Address |->
        IF phase[c] = "stopped" THEN Gone
        ELSE IF InGame(c) THEN m_connectionSalt[c] ELSE NoSalt]

\* Handshake and good-byes implement Admission: a client plays only under the
\* salt of its CONNECTED entry, and that entry stays until it has left.
ImplementsAdmission == Promise!Spec

\* Without faults every client gets connected, whatever the others do, unless
\* it is stopped.
Connects == \A c \in Address : <>(InGame(c) \/ ~g_running[c])

\* No game lasts, because no handler of the server takes an INPUT_FRAME and so
\* nothing comes back: the client runs into its 100 idle seconds unless it is
\* stopped before, and nobody who said good-bye stays in m_players.
PlayerIsForgotten ==
    \A c \in Address :
        (phase[c] = "game") ~> (phase[c] = "stopped" /\ EntriesAt(c) = {})

\* Lost packets, failing sends and restarts cost a client its connection, but
\* never leave it with half of one: as long as the server it talked to is up,
\* a client that plays has its CONNECTED entry there.  CONNECTION_ACCEPTED
\* carries no salt, so no more than that is true: a doubled or late one may
\* complete an attempt that the server denies.
AgreementWhileServerLives ==
    \A c \in Address :
        InGame(c) /\ undisturbed[c] /\ ~strays
            => m_connectionSalt[c] \in Admitted(c)

\* A lost packet, a failed Send or a crash leaves at most one stale entry of a
\* client in m_players, however often it tries again afterwards.  (A client
\* that is one packet behind, because one was doubled or late or was the
\* good-bye of a server that stopped, adds an entry with every attempt.)
StaleEntriesBounded ==
    ~strays => \A c \in Address : Cardinality(EntriesAt(c)) <= 1 + faults

\* The client is about to try, and nothing of earlier attempts is left.
CleanStart(c) ==
    /\ phase[c] = "establish" /\ EntriesAt(c) = {}
    /\ toClient[c] = <<>> /\ toServer[c] = <<>>
    /\ running /\ faults = MaxFaults

\* An attempt that starts from a clean slate, with no more faults, succeeds;
\* so a restart of the server heals what a lost packet has done before.
CleanStartConnects ==
    \A c \in Address : CleanStart(c) ~> (InGame(c) \/ ~g_running[c])

\* Whatever the network does, a client only plays under salts of which the
\* server has issued its half for the half the client drew in this attempt.
SaltsWereIssued ==
    \A c \in Address : InGame(c) => m_connectionSalt[c] \in issued[c]

\* Whatever the network does, the server only connects a client that proved
\* to have got the challenge of that entry.
ConnectedHasAnswered ==
    \A c \in Address : Admitted(c) \subseteq answered[c]

\* "Client has already started connection request" (Server.cpp:136): a client
\* that asks again after a lost packet gets connected in the end.
RetriesConnect ==
    \A c \in Address : <>(InGame(c) \/ ~g_running[c])
=============================================================================
