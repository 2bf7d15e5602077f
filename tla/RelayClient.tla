----------------------------- MODULE RelayClient -----------------------------
(***************************************************************************)
(* The .NET game (dotnet/Rocket): the UI thread, which updates the own     *)
(* rocket and the other one in every frame, and the networking task, with  *)
(* the two queues between them.  What is modelled of the rockets is their  *)
(* firing: a shot must be told to the others once, although a packet that  *)
(* is still queued when the next one is due is replaced by it.             *)
(***************************************************************************)
EXTENDS RelayLink, SequencesExt

CONSTANTS
    MaxShots,       \* bound of the model: shots of one player
    IncomingBound   \* bound of the model: packets queued for the UI

ASSUME RelayClientAssumption == MaxShots \in Nat /\ IncomingBound \in Nat

VARIABLES
    Status,             \* GameNetwork.Status
    uiPc,               \* "inactive": Game1._isActive is not set; "frame": about
                        \* to update; "replace": between the two halves of
                        \* replacing a packet; "gone": an exception ended it
    netPc,              \* "start", "loop" or "ended"
    Outgoing,
    Incoming,
    _isFiringNotSent,
    _nextTicks,         \* Ticks of OtherRocket._next
    fired,              \* history: shots of the player,
    told,               \* the last of them that a packet sent has told,
    firingSent,         \* firing packets sent,
    shown               \* and shots of other players that were shown

uiVars == <<uiPc, _isFiringNotSent, _nextTicks, fired, shown>>
netVars == <<netPc, told, firingSent>>
clientVars == <<Status, Outgoing, Incoming, uiVars, netVars>>

ClientInit ==
    /\ Status = [c \in Gamer |-> "Connecting"]
    /\ uiPc = [c \in Gamer |-> "inactive"]
    /\ netPc = [c \in Gamer |-> "start"]
    /\ Outgoing = [c \in Gamer |-> <<>>]
    /\ Incoming = [c \in Gamer |-> <<>>]
    /\ _isFiringNotSent = [c \in Gamer |-> FALSE]
    /\ _nextTicks = [c \in Gamer |-> 0]
    /\ fired = [c \in Gamer |-> 0]
    /\ told = [c \in Gamer |-> 0]
    /\ firingSent = [c \in Player |-> 0]
    /\ shown = [c \in Gamer |-> 0]

\* A packet of the queue, and, as history, the last shot fired when it was made.
Queued == [IsFiring : BOOLEAN, upTo : 0..MaxShots]

ClientTypeOK ==
    /\ Status \in [Gamer -> {"Connecting", "Connected", "Disconnected"}]
    /\ uiPc \in [Gamer -> {"inactive", "frame", "replace", "gone"}]
    /\ netPc \in [Gamer -> {"start", "loop", "ended"}]
    /\ \A c \in Gamer :
        /\ Outgoing[c] \in Seq(Queued)
        /\ Len(Outgoing[c]) <= IF uiPc[c] = "replace" THEN 2 ELSE 1
        /\ Incoming[c] \in Seq(Packet)
    /\ _isFiringNotSent \in [Gamer -> BOOLEAN]
    /\ _nextTicks \in [Gamer -> Nat]
    /\ fired \in [Gamer -> 0..MaxShots] /\ told \in [Gamer -> 0..MaxShots]
    /\ firingSent \in [Player -> Nat] /\ shown \in [Gamer -> Nat]

-----------------------------------------------------------------------------
(* The UI thread. *)

Activate(c) ==
    /\ uiPc[c] = "inactive"
    /\ Status[c] = "Connected"
    /\ uiPc' = [uiPc EXCEPT ![c] = "frame"]
    /\ UNCHANGED <<Status, Outgoing, Incoming, _isFiringNotSent, _nextTicks,
                   fired, shown, netVars>>

\* Mutated form: a packet as old as the last one is taken.
NotOlder(next, packet) == packet.Ticks >= next.Ticks
Newer(next, packet) == packet.Ticks > next.Ticks

\* Two firing packets of one frame cancel each other.
Took(next, packet) ==
    IF Newer(next, packet)
    THEN [Ticks |-> packet.Ticks, isFiring |-> ~next.isFiring /\ packet.IsFiring]
    ELSE next

\* What is taken after k packets of a queue, from what was taken before it.
TakenRounds(first, queue) ==
    LET After[k \in 0..Len(queue)] ==
            IF k = 0 THEN first ELSE Took(After[k - 1], queue[k])
    IN  After

\* The queue in order.
Taken(c) ==
    TakenRounds([Ticks |-> _nextTicks[c], isFiring |-> FALSE],
                Incoming[c])[Len(Incoming[c])]

\* OtherRocket.Update, the end of a frame.  The shot is shown if the rocket is
\* being moved over a gap or its cooldown is over.
UpdateOther(c) ==
    /\ Incoming' = [Incoming EXCEPT ![c] = <<>>]
    /\ _nextTicks' = [_nextTicks EXCEPT ![c] = Taken(c).Ticks]
    /\ shown' \in {shown, [shown EXCEPT ![c] = IF Taken(c).isFiring THEN @ + 1 ELSE @]}

\* Rocket.Update of a frame in which no packet is due.
Frame(c) ==
    /\ uiPc[c] = "frame" /\ Status[c] = "Connected"
    /\ \E shot \in 0..1 :
        /\ fired[c] + shot <= MaxShots
        /\ fired' = [fired EXCEPT ![c] = @ + shot]
        /\ _isFiringNotSent' = [_isFiringNotSent EXCEPT ![c] = @ \/ shot = 1]
    /\ UpdateOther(c)
    /\ UNCHANGED <<Status, uiPc, Outgoing, netVars>>

\* Whether there is more than one packet once the new one has been queued.
\* Mutated form: off by one.
AreThree(c) == Len(Outgoing[c]) > 1
AreTwo(c) == Outgoing[c] # <<>>

\* A packet is due.
FrameSends(c) ==
    /\ uiPc[c] = "frame" /\ Status[c] = "Connected"
    /\ \E shot \in 0..1 :
        /\ fired[c] + shot <= MaxShots
        /\ fired' = [fired EXCEPT ![c] = @ + shot]
        /\ Outgoing' = [Outgoing EXCEPT ![c] = Append(@,
                [IsFiring |-> _isFiringNotSent[c] \/ shot = 1,
                 upTo |-> fired[c] + shot])]
    /\ _isFiringNotSent' = [_isFiringNotSent EXCEPT ![c] = FALSE]
    /\ IF AreTwo(c)
       THEN /\ uiPc' = [uiPc EXCEPT ![c] = "replace"]
            /\ UNCHANGED <<Incoming, _nextTicks, shown>>
       ELSE UpdateOther(c) /\ UNCHANGED uiPc
    /\ UNCHANGED <<Status, netVars>>

\* Mutated form: the shot of a packet that is replaced is forgotten.
ForgetShot(c, previous) == FALSE
CarryShot(c, previous) == _isFiringNotSent[c] \/ previous.IsFiring

\* The oldest packet is taken back: meanwhile the networking task may have sent
\* one, and it is the new packet itself that is taken back, or
Replace(c) ==
    /\ uiPc[c] = "replace"
    /\ Outgoing[c] # <<>>
    /\ Outgoing' = [Outgoing EXCEPT ![c] = Tail(@)]
    /\ _isFiringNotSent' =
            [_isFiringNotSent EXCEPT ![c] = CarryShot(c, Head(Outgoing[c]))]
    /\ uiPc' = [uiPc EXCEPT ![c] = "frame"]
    /\ UpdateOther(c)
    /\ UNCHANGED <<Status, fired, netVars>>

\* both of them: previous is null, and the game ends by an exception.
ReplaceNothing(c) ==
    /\ uiPc[c] = "replace"
    /\ Outgoing[c] = <<>>
    /\ uiPc' = [uiPc EXCEPT ![c] = "gone"]
    /\ UNCHANGED <<Status, Outgoing, Incoming, _isFiringNotSent, _nextTicks,
                   fired, shown, netVars>>

UnloadContent(c) ==
    /\ uiPc[c] \in {"inactive", "frame"}
    /\ Status' = [Status EXCEPT ![c] = "Disconnected"]
    /\ uiPc' = [uiPc EXCEPT ![c] = "gone"]
    /\ UNCHANGED <<Outgoing, Incoming, _isFiringNotSent, _nextTicks, fired,
                   shown, netVars>>

UI(c) ==
    /\ \/ Activate(c) \/ Frame(c) \/ FrameSends(c)
       \/ Replace(c) \/ ReplaceNothing(c) \/ UnloadContent(c)
    /\ UNCHANGED linkVars

-----------------------------------------------------------------------------
(* GameNetwork.RunNetworking. *)

StartNetworking(c) ==
    /\ netPc[c] = "start"
    /\ netPc' = [netPc EXCEPT ![c] = "loop"]
    /\ Status' = [Status EXCEPT ![c] = "Connected"]
    /\ UNCHANGED <<Outgoing, Incoming, uiVars, told, firingSent, linkVars>>

\* A turn of the loop sends one packet, if there is one, and takes all that have
\* arrived: sends and receptions in any order.
Send(c) ==
    /\ netPc[c] = "loop" /\ Status[c] # "Disconnected"
    /\ Outgoing[c] # <<>>
    /\ now < MaxTime
    /\ LET packet == Head(Outgoing[c])
       IN  /\ toRelay' = toRelay \cup {GetBytes(c, packet)}
           /\ told' = [told EXCEPT ![c] = IF packet.IsFiring THEN packet.upTo ELSE @]
           /\ firingSent' = [firingSent EXCEPT ![c] = IF packet.IsFiring THEN @ + 1 ELSE @]
    /\ Outgoing' = [Outgoing EXCEPT ![c] = Tail(@)]
    /\ now' = now + 1
    /\ UNCHANGED <<Status, Incoming, uiVars, netPc, inbox>>

Receive(c) ==
    /\ netPc[c] = "loop"
    /\ Len(Incoming[c]) < IncomingBound
    /\ \E packet \in inbox[c] : Incoming' = [Incoming EXCEPT ![c] = Append(@, packet)]
    /\ UNCHANGED <<Status, Outgoing, uiVars, netVars, linkVars>>

\* An error of the socket while receiving; the loop ends when it is tested next.
ReceiveFails(c) ==
    /\ netPc[c] = "loop" /\ Status[c] = "Connected"
    /\ Status' = [Status EXCEPT ![c] = "Disconnected"]
    /\ UNCHANGED <<Outgoing, Incoming, uiVars, netVars, linkVars>>

\* Send throws, which only ends the task: the game plays on, Status says it is
\* connected, and the packet taken from the queue is lost.
SendFails(c) ==
    /\ netPc[c] = "loop" /\ Status[c] # "Disconnected"
    /\ Outgoing[c] # <<>>
    /\ Outgoing' = [Outgoing EXCEPT ![c] = Tail(@)]
    /\ netPc' = [netPc EXCEPT ![c] = "ended"]
    /\ UNCHANGED <<Status, Incoming, uiVars, told, firingSent, linkVars>>

\* The loop is left; or the constructor or FromBytes throws, likewise.
NetworkingEnds(c) ==
    /\ netPc[c] # "ended"
    /\ netPc' = [netPc EXCEPT ![c] = "ended"]
    /\ UNCHANGED <<Status, Outgoing, Incoming, uiVars, told, firingSent, linkVars>>

Networking(c) ==
    \/ StartNetworking(c) \/ Send(c) \/ SendFails(c)
    \/ Receive(c) \/ ReceiveFails(c) \/ NetworkingEnds(c)

-----------------------------------------------------------------------------
(* Properties. *)

\* A shot that no packet sent has told yet is not lost between the two threads,
\* however they interleave while a packet is replaced: the next packet will
\* tell it, or one in the queue does.
ShotsAreCarried ==
    \A c \in Gamer :
        fired[c] > told[c] /\ netPc[c] # "ended" =>
            \/ _isFiringNotSent[c]
            \/ \E i \in DOMAIN Outgoing[c] :
                Outgoing[c][i].IsFiring /\ Outgoing[c][i].upTo = fired[c]

\* No game tells more shots than were fired, although a shot is put back when
\* its packet is replaced.
NoShotToldTwice == \A c \in Gamer : firingSent[c] <= fired[c]

\* And no player sees more shots of the others than these have told, although
\* packets come twice and in any order and the relay sends them on.
NoGhostShots ==
    /\ NoShotToldTwice
    /\ \A c \in Gamer :
        shown[c] <= FoldFunctionOnSet(+, 0, firingSent, Player \ {c})
=============================================================================
