----------------------------- MODULE ClockSync ------------------------------
(***************************************************************************)
(* The values of the clock synchronization: SyncClock at the client        *)
(* (Client.cpp), HandleClockSync at the server (Server.cpp), and packets   *)
(* between them that may be late, lost, doubled or out of order.           *)
(*                                                                         *)
(* Time is counted in milliseconds of a short-lived world.  Receive does   *)
(* not wait: it takes what is in the socket or finds nothing, and a call   *)
(* that finds nothing fails unless a second has gone by.  So an answer is  *)
(* often read by a later round, or a later call, than the one that asked.  *)
(***************************************************************************)
EXTENDS Integers, SequencesExt

CONSTANTS
    SYNC_ROUNDS,  \* rounds of SyncClock (5)
    SECOND,       \* its time-out, and the sleep between two calls
    ClientLead,   \* the client's clock minus the server's
    MaxTime,      \* bound of the model: the client's clock stops here
    MaxPackets    \* bound of the model: packets under way; more are lost

ASSUME ClockSyncAssumption ==
    /\ SYNC_ROUNDS \in Nat \ {0}
    /\ SECOND \in Nat \ {0}
    /\ ClientLead \in Int
    /\ MaxTime \in Nat /\ MaxPackets \in Nat

\* The true offset of the server's clock.
TrueOffset == -ClientLead

VARIABLES
    netPc,      \* where the networking thread is; here "sync" (about to send),
                \* "await" (about to receive) or "synced" (the call returned 0)
    m_connectionState,
    now,        \* the client's clock
    wake,       \* when the sleep before the next call is over
    syncRound,  \* i of SyncClock
    sendTime,   \* sendNowEpoch of the round
    samples,    \* clockOffsets and roundTripTimes of the call; and, as history,
                \* the age and the true round trip of each answer
    requests,   \* CLOCKs under way: the clientTime each names
    answers     \* CLOCK_RESPONSEs under way: serverTime, and, as history, the
                \* time of the request

callVars == <<wake, syncRound, sendTime, samples>>
clockVars == <<now, callVars, requests, answers>>

ClockInit ==
    /\ now = 0 /\ wake = 0
    /\ syncRound = 0 /\ sendTime = 0 /\ samples = <<>>
    /\ requests = {} /\ answers = {}

\* Division of C++: the quotient is cut off toward zero.
Quotient(a, b) == IF a >= 0 THEN a \div b ELSE -((-a) \div b)

\* total += value: the sum of the first k values.
Sums(values) ==
    LET Sum[k \in 0..Len(values)] == IF k = 0 THEN 0 ELSE Sum[k - 1] + values[k]
    IN  Sum

Average(values) == Quotient(Sums(values)[Len(values)], Len(values))

\* What a call that succeeded leaves in the two members.  (Nobody reads them
\* before, and m_serverClockOffset nobody afterwards.)
m_serverClockOffset == Average([i \in DOMAIN samples |-> samples[i].offset])
m_roundTripTimeMs == Average([i \in DOMAIN samples |-> samples[i].roundTrip])

-----------------------------------------------------------------------------
(* The client. *)

\* Mutated form: only the first round reads the clock.
FirstRequestTime == IF syncRound = 0 THEN now ELSE sendTime
RequestTime == now

SendClock ==
    /\ netPc = "sync"
    /\ m_connectionState = "CONNECTED"
    /\ now >= wake
    /\ netPc' = "await"
    /\ sendTime' = RequestTime /\ wake' = 0
    /\ \/ UNCHANGED requests
       \/ /\ Cardinality(requests) + Cardinality(answers) < MaxPackets
          /\ requests' = requests \cup {now}
    /\ UNCHANGED <<m_connectionState, now, syncRound, samples, answers>>

\* return 1, and the loop of the caller sleeps.
CallFails ==
    /\ netPc' = "sync"
    /\ wake' = now + SECOND
    /\ syncRound' = 0 /\ sendTime' = 0 /\ samples' = <<>>
    /\ UNCHANGED <<now, requests>>

ClockSendFails ==
    /\ netPc = "sync"
    /\ m_connectionState = "CONNECTED"
    /\ now >= wake
    /\ m_connectionState' = "DISCONNECTED"
    /\ CallFails
    /\ UNCHANGED answers

SyncNotConnected ==
    /\ netPc = "sync"
    /\ m_connectionState # "CONNECTED"
    /\ now >= wake
    /\ CallFails
    /\ UNCHANGED <<m_connectionState, answers>>

\* The socket is empty, or the packet in it is another one.
NoClock ==
    /\ netPc = "await"
    /\ CallFails
    /\ UNCHANGED <<m_connectionState, answers>>

\* The end of a round, after which these are the samples.  The last one returns
\* 0 if there are any.
NextRound(collected) ==
    IF syncRound + 1 = SYNC_ROUNDS /\ collected = <<>>
    THEN CallFails
    ELSE /\ netPc' = IF syncRound + 1 < SYNC_ROUNDS THEN "sync" ELSE "synced"
         /\ syncRound' = (syncRound + 1) % SYNC_ROUNDS
         /\ samples' = collected
         /\ UNCHANGED <<now, wake, sendTime, requests>>

\* Mutated form: the offset is taken from the time of the request.
OffsetFromRequest(serverTime) == serverTime - sendTime
ClockOffset(serverTime) ==
    LET half == Quotient(now - sendTime, 2)
    IN  Quotient((serverTime - sendTime - half) + (serverTime - now - half), 2)

\* An answer that is taken may come a second time.
ReceiveClock ==
    /\ netPc = "await"
    /\ \E answer \in answers :
        /\ NextRound(Append(samples,
                [offset |-> ClockOffset(answer.serverTime),
                 roundTrip |-> now - sendTime,
                 age |-> now + TrueOffset - answer.serverTime,
                 trueTrip |-> now - answer.asked]))
        /\ answers' \in {answers, answers \ {answer}}
    /\ UNCHANGED m_connectionState

ClockTimeout ==
    /\ netPc = "await"
    /\ now >= sendTime + SECOND
    /\ NextRound(samples)
    /\ UNCHANGED <<m_connectionState, answers>>

SyncClock ==
    \/ SendClock \/ ClockSendFails \/ SyncNotConnected
    \/ NoClock \/ ReceiveClock \/ ClockTimeout

\* SyncClock has returned 0, and its local variables are gone.  What is still
\* under way is read in the game and ignored there.
StartGame ==
    /\ netPc = "synced"
    /\ netPc' = "game"
    /\ now' = 0 /\ sendTime' = 0 /\ samples' = <<>>
    /\ requests' = {} /\ answers' = {}
    /\ UNCHANGED <<m_connectionState, wake, syncRound>>

-----------------------------------------------------------------------------
(* The server, and time. *)

HandleClockSync ==
    /\ \E clientTime \in requests :
        /\ requests' = requests \ {clientTime}
        /\ answers' = answers \cup
                {[serverTime |-> now + TrueOffset, asked |-> clientTime]}
    /\ UNCHANGED <<netPc, m_connectionState, now, callVars>>

Tick ==
    /\ netPc \in {"sync", "await"}
    /\ now < MaxTime
    /\ now' = now + 1
    /\ UNCHANGED <<netPc, m_connectionState, callVars, requests, answers>>

-----------------------------------------------------------------------------
(* Properties. *)

\* The client never takes the server's clock to be ahead of what it is, up to
\* the millisecond that the division of a negative sum rounds up; and it is
\* behind by no more than the age of the oldest answer it has averaged, although
\* answers are read in other rounds and calls than those that asked.
OffsetWithinAge ==
    netPc = "synced" =>
        \E i \in DOMAIN samples :
            m_serverClockOffset \in TrueOffset - samples[i].age .. TrueOffset + 1

\* An answer is compared with the newest request, which may be younger than
\* the one it answers: a round trip is measured too short, never too long.
RoundTripNotOverstated ==
    \A i \in DOMAIN samples : samples[i].roundTrip \in 0..samples[i].trueTrip
=============================================================================
