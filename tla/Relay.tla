------------------------------- MODULE Relay --------------------------------
(***************************************************************************)
(* The relay: dotnet/RocketServer/Program.cs, a loop that hands every      *)
(* packet to all other players it knows.                                   *)
(***************************************************************************)
EXTENDS RelayLink

CONSTANTS
    BYTE,       \* a PlayerID is counted modulo this (256)
    SWEEP,      \* the stopwatch's second
    SILENCE     \* the five seconds after which a player is removed

ASSUME RelayAssumption ==
    /\ BYTE \in Nat \ {0}
    /\ SWEEP \in Nat \ {0} /\ SILENCE \in Nat

VARIABLES
    relayUp,    \* the loop has not been left by an exception
    players,    \* by end point; the fields that only mirror a packet are left out
    sweptAt,    \* when the stopwatch was restarted
    departed    \* history: a player was removed

relayVars == <<relayUp, players, sweptAt, departed>>

RocketPlayer == [PlayerID : 0..BYTE - 1, LastUpdated : Nat]

RelayTypeOK ==
    /\ relayUp \in BOOLEAN /\ departed \in BOOLEAN
    /\ DOMAIN players \subseteq Player
    /\ \A address \in DOMAIN players : players[address] \in RocketPlayer
    /\ sweptAt \in 1..now

RelayInit ==
    /\ relayUp = TRUE
    /\ players = <<>>
    /\ sweptAt = now
    /\ departed = FALSE

NewID == (Cardinality(DOMAIN players) + 1) % BYTE

\* Mutated form: a number is given at every packet.
Renumbered(sender) ==
    [address \in DOMAIN players \cup {sender} |->
        IF address = sender THEN [PlayerID |-> NewID, LastUpdated |-> now]
        ELSE players[address]]

\* The table with the sender in it, heard just now.
Updated(sender) ==
    [address \in DOMAIN players \cup {sender} |->
        IF address = sender
        THEN [PlayerID |-> IF sender \in DOMAIN players
                           THEN players[sender].PlayerID ELSE NewID,
              LastUpdated |-> now]
        ELSE players[address]]

Others(table, sender) ==
    {address \in DOMAIN table : table[address].PlayerID # table[sender].PlayerID}

\* Mutated form: a player is kept one moment longer.
SilentLonger(table) ==
    {address \in DOMAIN table : table[address].LastUpdated + SWEEP < now - SILENCE}
Silent(table) ==
    {address \in DOMAIN table : table[address].LastUpdated < now - SILENCE}

Sweep(table) ==
    IF now - sweptAt >= SWEEP
    THEN /\ players' = [address \in DOMAIN table \ Silent(table) |-> table[address]]
         /\ sweptAt' = now
         /\ departed' = (departed \/ Silent(table) # {})
    ELSE players' = table /\ UNCHANGED <<sweptAt, departed>>

SendTo(packet, others) ==
    inbox' = [player \in Gamer |->
                IF player \in others THEN inbox[player] \cup {packet} ELSE inbox[player]]

Relayed(packet) ==
    LET table == Updated(packet.from)
    IN  SendTo(packet, Others(table, packet.from)) /\ Sweep(table)

RelayPacket ==
    /\ relayUp
    /\ \E packet \in toRelay : Relayed(packet)
    /\ UNCHANGED <<relayUp, now, toRelay>>

\* FromBytes throws at a packet that is damaged or not the game's, or Send
\* throws after it has reached some of the players: nobody catches it, and
\* nothing is left of the process.
RelayEnds ==
    /\ relayUp
    /\ relayUp' = FALSE
    /\ \/ UNCHANGED inbox
       \/ \E packet \in toRelay :
            \E reached \in SUBSET (Gamer \cap Others(Updated(packet.from), packet.from)) :
                SendTo(packet, reached)
    /\ players' = <<>> /\ sweptAt' = 1 /\ departed' = FALSE
    /\ UNCHANGED <<now, toRelay>>

-----------------------------------------------------------------------------
(* Properties. *)

\* As long as nobody has been removed, all players have numbers of their own
\* (if there are no more of them than numbers), so that the relay, which passes
\* over every player with the sender's number, leaves no one out.
NumbersAreDistinct ==
    ~departed /\ Cardinality(DOMAIN players) <= BYTE =>
        \A a, b \in DOMAIN players :
            a # b => players[a].PlayerID # players[b].PlayerID

\* No player stays in the table while another one goes on sending for the five
\* seconds and the second between two sweeps: although the relay only looks
\* for silent players when a packet arrives.
SilentPlayersGo ==
    \A a, b \in DOMAIN players :
        players[b].LastUpdated - players[a].LastUpdated < SILENCE + SWEEP
=============================================================================
