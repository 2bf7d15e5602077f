----------------------------- MODULE Admission ------------------------------
(***************************************************************************)
(* What connecting and leaving promise, with both ends in view: a client   *)
(* plays only under a salt for which the server has let it in before, the  *)
(* server does not forget a client that is still playing, and who left     *)
(* does not come back.                                                     *)
(***************************************************************************)
CONSTANTS
    Member,  \* the clients
    Salt,    \* the connection salts
    None,    \* no salt
    Gone     \* the client has left

VARIABLES
    admitted,  \* per client: the salt under which the server has let it in
    joined     \* per client: the salt under which it plays

vars == <<admitted, joined>>

Init ==
    /\ admitted = [m \in Member |-> None]
    /\ joined = [m \in Member |-> None]

Admit(m, salt) ==
    /\ admitted[m] = None
    /\ joined[m] = None
    /\ admitted' = [admitted EXCEPT ![m] = salt]
    /\ UNCHANGED joined

Join(m) ==
    /\ joined[m] = None
    /\ admitted[m] # None
    /\ joined' = [joined EXCEPT ![m] = admitted[m]]
    /\ UNCHANGED admitted

Leave(m) ==
    /\ joined[m] # Gone
    /\ joined' = [joined EXCEPT ![m] = Gone]
    /\ UNCHANGED admitted

Forget(m) ==
    /\ joined[m] \notin Salt
    /\ admitted[m] # None
    /\ admitted' = [admitted EXCEPT ![m] = None]
    /\ UNCHANGED joined

Next ==
    \E m \in Member :
        \/ \E salt \in Salt : Admit(m, salt)
        \/ Join(m) \/ Leave(m) \/ Forget(m)

Spec == Init /\ [][Next]_vars
=============================================================================
