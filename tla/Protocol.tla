------------------------------ MODULE Protocol ------------------------------
(***************************************************************************)
(* What the two ends of the connection protocol share.                     *)
(*                                                                         *)
(* A 64-bit salt is a value of a small set, and a connection salt, which   *)
(* the code computes as clientSalt ^ serverSalt, is the pair of the two.   *)
(***************************************************************************)
EXTENDS Sequences, Naturals

CONSTANTS
    Address,        \* client addresses (sockaddr_in)
    ClientSalt,     \* what clients draw as their salt
    ServerSalt,     \* what the server draws as its salt
    QUIT_REPEAT,    \* DISCONNECTs that QuitGame sends at either end (10)
    SocketCapacity  \* packets a client's socket buffers; more are dropped

ASSUME ProtocolAssumption ==
    /\ QUIT_REPEAT \in Nat \ {0}
    /\ SocketCapacity \in Nat \ {0}

Salts == ClientSalt \X ServerSalt

\* A client's socket takes a packet or, when it is full, drops it.
Enqueue(queue, packet) ==
    IF Len(queue) < SocketCapacity THEN Append(queue, packet) ELSE queue
=============================================================================
