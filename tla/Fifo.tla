-------------------------------- MODULE Fifo --------------------------------
(***************************************************************************)
(* What NetworkQueue<T, Capacity> promises the two threads that share it:  *)
(* a bounded first-in first-out queue whose push and pop each take effect  *)
(* at one instant.  NetworkQueue.tla is shown to implement it.             *)
(***************************************************************************)
EXTENDS SequencesExt

CONSTANTS
    Item,      \* the values that may be pushed
    Bound      \* the most items the queue holds

VARIABLES
    queue,     \* the items in the queue, oldest first
    delivered  \* every item pop has handed out, in order

vars == <<queue, delivered>>

Init == queue = <<>> /\ delivered = <<>>

Push(item) ==
    /\ Len(queue) < Bound
    /\ queue' = Append(queue, item)
    /\ UNCHANGED delivered

Pop ==
    /\ queue # <<>>
    /\ queue' = Tail(queue)
    /\ delivered' = Append(delivered, Head(queue))

Next == Pop \/ \E item \in Item : Push(item)

Spec == Init /\ [][Next]_vars
=============================================================================
