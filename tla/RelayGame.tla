------------------------------ MODULE RelayGame ------------------------------
(***************************************************************************)
(* The relay and the .NET games, composed.  The games of some players are  *)
(* modelled as they are; of a guest only what can be seen of a game: it    *)
(* sends packets, firing or not, whenever it likes.                        *)
(***************************************************************************)
EXTENDS Relay, RelayClient

vars == <<linkVars, relayVars, clientVars>>

Init == LinkInit /\ RelayInit /\ ClientInit

RelayNext == (RelayPacket \/ RelayEnds) /\ UNCHANGED clientVars
ClientNext(c) == (UI(c) \/ Networking(c)) /\ UNCHANGED relayVars

GuestSends(c) ==
    /\ now < MaxTime
    /\ \E firing \in BOOLEAN :
        /\ toRelay' = toRelay \cup {GetBytes(c, [IsFiring |-> firing])}
        /\ firingSent' = [firingSent EXCEPT ![c] = IF firing THEN @ + 1 ELSE @]
    /\ now' = now + 1
    /\ UNCHANGED <<inbox, relayVars, Status, Outgoing, Incoming, uiVars, netPc, told>>

TimePasses == Tick /\ UNCHANGED <<relayVars, clientVars>>

Next ==
    \/ RelayNext
    \/ \E c \in Gamer : ClientNext(c)
    \/ \E c \in Guest : GuestSends(c)
    \/ TimePasses

Spec == Init /\ [][Next]_vars

\* Guests are alike.
GuestsAlike == Permutations(Guest)

TypeOK == LinkTypeOK /\ RelayTypeOK /\ ClientTypeOK
=============================================================================
