----------------------------- MODULE RelayLink ------------------------------
(***************************************************************************)
(* What the relay (dotnet/RocketServer) and the .NET games share: UDP, and *)
(* the packet of NetworkPacket.cs.  A packet that was sent may arrive any  *)
(* number of times, at any later moment and in any order, or never: so the *)
(* sets below only grow.                                                   *)
(*                                                                         *)
(* Every packet is sent at an instant of its own; now counts these, and    *)
(* the moments at which nothing is sent.  All clocks agree.                *)
(***************************************************************************)
EXTENDS Integers, FiniteSets

CONSTANTS
    Player,     \* the end points the games send from
    Guest,      \* those whose game is not modelled but for what it sends
    MaxTime     \* bound of the model: nothing is sent any more

ASSUME RelayLinkAssumption ==
    /\ IsFiniteSet(Player) /\ Guest \subseteq Player
    /\ MaxTime \in Nat \ {0}

Gamer == Player \ Guest

VARIABLES
    now,        \* the relay's clock
    toRelay,    \* what was sent to the relay
    inbox       \* for every game modelled, what the relay has sent to it

linkVars == <<now, toRelay, inbox>>

\* The position, the speed and the keys of a rocket are not modelled.
Packet == [from : Player, Ticks : Nat, IsFiring : BOOLEAN]

LinkTypeOK ==
    /\ now \in 1..MaxTime
    /\ toRelay \subseteq Packet
    /\ inbox \in [Gamer -> SUBSET Packet]

LinkInit ==
    /\ now = 1
    /\ toRelay = {}
    /\ inbox = [player \in Gamer |-> {}]

\* A packet is stamped when it is sent, not when it was queued.
GetBytes(player, packet) ==
    [from |-> player, Ticks |-> now, IsFiring |-> packet.IsFiring]

Tick ==
    /\ now < MaxTime
    /\ now' = now + 1
    /\ UNCHANGED <<toRelay, inbox>>
=============================================================================
