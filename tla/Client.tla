------------------------------- MODULE Client -------------------------------
(***************************************************************************)
(* The console client (Client.cpp, run by RocketConsole/main.cpp), one per *)
(* address: it tries to connect until it succeeds, synchronizes its clock  *)
(* until it succeeds, plays, and says good-bye.                            *)
(*                                                                         *)
(* An action is the code from one wait to the next: it takes a packet, or  *)
(* finds that there is none, and goes on until it has to wait again.  A    *)
(* packet is a parameter; Session.tla takes it off the client's socket.    *)
(***************************************************************************)
EXTENDS Protocol

CONSTANTS
    SYNC_ROUNDS,  \* rounds of SyncClock (5)
    NoSalt        \* a salt that is not set (0)

ASSUME ClientAssumption == SYNC_ROUNDS \in Nat \ {0} /\ NoSalt \notin Salts

VARIABLES
    phase,              \* per client: where the program waits
    g_running,          \* per client: FALSE once it shall stop
    m_connectionState,  \* per client, as the game thread may read it
    clientSalt,         \* per client: local variable of EstablishConnection
    connectionSalt,     \* per client: local variable of EstablishConnection
    m_connectionSalt,   \* per client
    syncRound,          \* per client: i of SyncClock
    clockOffsets,       \* per client: how many samples SyncClock has
    toServer            \* per client: its packets that the server did not
                        \* take off its socket yet, oldest first

attemptVars == <<clientSalt, connectionSalt>>
syncVars == <<syncRound, clockOffsets>>
clientVars == <<phase, g_running, m_connectionState, attemptVars,
                m_connectionSalt, syncVars, toServer>>

Phases == {"establish", "await_challenge", "await_accepted", "sync",
           "await_clock", "game", "stopped"}

\* Connected as the client sees it.
InGame(c) == phase[c] \in {"sync", "await_clock", "game"}

ClientInit ==
    /\ phase = [c \in Address |-> "establish"]
    /\ g_running = [c \in Address |-> TRUE]
    /\ m_connectionState = [c \in Address |-> "DISCONNECTED"]
    /\ clientSalt = [c \in Address |-> NoSalt]
    /\ connectionSalt = [c \in Address |-> NoSalt]
    /\ m_connectionSalt = [c \in Address |-> NoSalt]
    /\ syncRound = [c \in Address |-> 0]
    /\ clockOffsets = [c \in Address |-> 0]
    /\ toServer = [c \in Address |-> <<>>]

\* f with a new value at c.
Set(f, c, value) == [f EXCEPT ![c] = value]

GoTo(c, place) == phase' = Set(phase, c, place)

SendToServer(c, packets) == toServer' = Set(toServer, c, toServer[c] \o packets)

\* while (... != 0) { if (g_running == 0) break; ... }
Retry(c, place) == GoTo(c, IF g_running[c] THEN place ELSE "stopped")

-----------------------------------------------------------------------------
(* EstablishConnection *)

\* return 1: the local variables of the attempt are gone.
AttemptFails(c, state) ==
    /\ Retry(c, "establish")
    /\ m_connectionState' = Set(m_connectionState, c, state)
    /\ clientSalt' = Set(clientSalt, c, NoSalt)
    /\ connectionSalt' = Set(connectionSalt, c, NoSalt)
    /\ UNCHANGED <<g_running, syncVars>>

EstablishConnection(c, salt) ==
    /\ phase[c] = "establish"
    /\ GoTo(c, "await_challenge")
    /\ m_connectionState' = Set(m_connectionState, c, "CONNECTING")
    /\ m_connectionSalt' = Set(m_connectionSalt, c, NoSalt)
    /\ clientSalt' = Set(clientSalt, c, salt)
    /\ SendToServer(c, <<[type |-> "CONNECTION_REQUEST", clientSalt |-> salt]>>)
    /\ UNCHANGED <<g_running, connectionSalt, syncVars>>

\* Send fails; the state stays CONNECTING.
RequestFails(c) ==
    /\ phase[c] = "establish"
    /\ AttemptFails(c, "CONNECTING")
    /\ m_connectionSalt' = Set(m_connectionSalt, c, NoSalt)
    /\ UNCHANGED toServer

\* Mutated forms of IsMyChallenge: the echoed client salt is not compared, or
\* with the wrong sense.
IsAnyChallenge(c, packet) == packet.type = "CHALLENGE"
IsOtherChallenge(c, packet) ==
    packet.type = "CHALLENGE" /\ packet.clientSalt # clientSalt[c]
IsMyChallenge(c, packet) ==
    packet.type = "CHALLENGE" /\ packet.clientSalt = clientSalt[c]

ReceiveChallenge(c, packet) ==
    /\ phase[c] = "await_challenge"
    /\ IsMyChallenge(c, packet)
    /\ LET salt == <<clientSalt[c], packet.serverSalt>>
       IN  /\ connectionSalt' = Set(connectionSalt, c, salt)
           /\ SendToServer(c, <<[type |-> "CHALLENGE_RESPONSE", salt |-> salt]>>)
    /\ GoTo(c, "await_accepted")
    /\ UNCHANGED <<g_running, m_connectionState, clientSalt, m_connectionSalt,
                   syncVars>>

\* The challenge is there, but Send fails.
ResponseFails(c, packet) ==
    /\ phase[c] = "await_challenge"
    /\ IsMyChallenge(c, packet)
    /\ AttemptFails(c, "DISCONNECTED")
    /\ UNCHANGED <<m_connectionSalt, toServer>>

ReceiveOtherThanChallenge(c, packet) ==
    /\ phase[c] = "await_challenge"
    /\ ~IsMyChallenge(c, packet)
    /\ AttemptFails(c, "DISCONNECTED")
    /\ UNCHANGED <<m_connectionSalt, toServer>>

\* After a second without a packet; the state stays CONNECTING.
ChallengeTimeout(c) ==
    /\ phase[c] = "await_challenge"
    /\ AttemptFails(c, "CONNECTING")
    /\ UNCHANGED <<m_connectionSalt, toServer>>

\* Mutated form of IsAccepted: a denial passes too.
IsAnyAnswer(packet) == packet.type \in {"CONNECTION_ACCEPTED", "CONNECTION_DENIED"}
IsAccepted(packet) == packet.type = "CONNECTION_ACCEPTED"

\* CONNECTION_ACCEPTED names no salt: whatever attempt it answers, it
\* completes this one.
ReceiveAccepted(c, packet) ==
    /\ phase[c] = "await_accepted"
    /\ IsAccepted(packet)
    /\ GoTo(c, "sync")
    /\ m_connectionState' = Set(m_connectionState, c, "CONNECTED")
    /\ m_connectionSalt' = Set(m_connectionSalt, c, connectionSalt[c])
    /\ clientSalt' = Set(clientSalt, c, NoSalt)
    /\ connectionSalt' = Set(connectionSalt, c, NoSalt)
    /\ UNCHANGED <<g_running, syncVars, toServer>>

ReceiveOtherThanAccepted(c, packet) ==
    /\ phase[c] = "await_accepted"
    /\ ~IsAccepted(packet)
    /\ AttemptFails(c, "DISCONNECTED")
    /\ UNCHANGED <<m_connectionSalt, toServer>>

AcceptedTimeout(c) ==
    /\ phase[c] = "await_accepted"
    /\ AttemptFails(c, "DISCONNECTED")
    /\ UNCHANGED <<m_connectionSalt, toServer>>

-----------------------------------------------------------------------------
(* SyncClock *)

SendClock(c) ==
    /\ phase[c] = "sync"
    /\ m_connectionState[c] = "CONNECTED"
    /\ GoTo(c, "await_clock")
    /\ SendToServer(c, <<[type |-> "CLOCK", salt |-> m_connectionSalt[c]]>>)
    /\ UNCHANGED <<g_running, m_connectionState, attemptVars, m_connectionSalt,
                   syncVars>>

\* return 1: the samples are gone, and the next call starts from scratch.
\* Mutated form of SyncFails: the samples survive.
SyncKeepsSamples(c) ==
    /\ Retry(c, "sync")
    /\ syncRound' = Set(syncRound, c, 0)
    /\ UNCHANGED clockOffsets
SyncFails(c) ==
    /\ Retry(c, "sync")
    /\ syncRound' = Set(syncRound, c, 0)
    /\ clockOffsets' = Set(clockOffsets, c, 0)

ClockSendFails(c) ==
    /\ phase[c] = "sync"
    /\ m_connectionState[c] = "CONNECTED"
    /\ m_connectionState' = Set(m_connectionState, c, "DISCONNECTED")
    /\ SyncFails(c)
    /\ UNCHANGED <<g_running, attemptVars, m_connectionSalt, toServer>>

\* After a failed Send every call returns 1, and nothing connects again: the
\* loop of main only ends with Ctrl+C.
SyncNotConnected(c) ==
    /\ phase[c] = "sync"
    /\ m_connectionState[c] # "CONNECTED"
    /\ ~g_running[c]
    /\ SyncFails(c)
    /\ UNCHANGED <<g_running, m_connectionState, attemptVars, m_connectionSalt,
                   toServer>>

\* The end of a round, after which there are this many samples.  The last one
\* returns 0 if there are any.
NextRound(c, samples) ==
    IF syncRound[c] + 1 < SYNC_ROUNDS
    THEN /\ GoTo(c, "sync")
         /\ syncRound' = Set(syncRound, c, syncRound[c] + 1)
         /\ clockOffsets' = Set(clockOffsets, c, samples)
    ELSE /\ Retry(c, IF samples > 0 THEN "game" ELSE "sync")
         /\ syncRound' = Set(syncRound, c, 0)
         /\ clockOffsets' = Set(clockOffsets, c, 0)

ReceiveClock(c, packet) ==
    /\ phase[c] = "await_clock"
    /\ IF packet.type = "CLOCK_RESPONSE"
       THEN NextRound(c, clockOffsets[c] + 1)
       ELSE SyncFails(c)
    /\ UNCHANGED <<g_running, m_connectionState, attemptVars, m_connectionSalt,
                   toServer>>

\* The socket is empty.  Receive does not wait, so this is the rule.
NoClockYet(c) ==
    /\ phase[c] = "await_clock"
    /\ SyncFails(c)
    /\ UNCHANGED <<g_running, m_connectionState, attemptVars, m_connectionSalt,
                   toServer>>

\* The socket is empty, and a second has gone by since the packet was sent.
ClockTimeout(c) ==
    /\ phase[c] = "await_clock"
    /\ NextRound(c, clockOffsets[c])
    /\ UNCHANGED <<g_running, m_connectionState, attemptVars, m_connectionSalt,
                   toServer>>

-----------------------------------------------------------------------------
(* ExecuteGame and QuitGame.  What the client sends while it plays are     *)
(* INPUT_FRAMEs, which no handler of the server takes (Client.cpp:507,     *)
(* Server.cpp:77-123): they change nothing and are left out.               *)

StopRunning(c) ==
    /\ g_running' = Set(g_running, c, FALSE)
    /\ UNCHANGED <<phase, m_connectionState, attemptVars, m_connectionSalt,
                   syncVars, toServer>>

\* A DISCONNECT ends the game, whatever salt it names; other packets are
\* read and forgotten.
ReceiveInGame(c, packet) ==
    /\ phase[c] = "game"
    /\ IF packet.type = "DISCONNECT"
       THEN StopRunning(c)
       ELSE UNCHANGED clientVars

\* 100 seconds without a packet.
IdleOut(c) ==
    /\ phase[c] = "game"
    /\ g_running[c]
    /\ StopRunning(c)

\* The loop of ExecuteGame ends, QuitGame says good-bye, main returns.
\* Mutated form: no good-bye.
LeaveSilently(c) ==
    /\ phase[c] = "game"
    /\ ~g_running[c]
    /\ GoTo(c, "stopped")
    /\ UNCHANGED <<g_running, m_connectionState, attemptVars, m_connectionSalt,
                   syncVars, toServer>>
LeaveGame(c) ==
    /\ phase[c] = "game"
    /\ ~g_running[c]
    /\ SendToServer(c, [i \in 1..QUIT_REPEAT |->
                            [type |-> "DISCONNECT", salt |-> m_connectionSalt[c]]])
    /\ GoTo(c, "stopped")
    /\ UNCHANGED <<g_running, m_connectionState, attemptVars, m_connectionSalt,
                   syncVars>>

\* Ctrl+C.
Interrupt(c) ==
    /\ phase[c] # "stopped"
    /\ g_running[c]
    /\ StopRunning(c)
=============================================================================
