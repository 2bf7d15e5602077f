---------------------------- MODULE NetworkQueue ----------------------------
(***************************************************************************)
(* NetworkQueue<T, Capacity> (NetworkQueue.h): the lock-free ring through   *)
(* which the game thread and the networking thread of a client hand player *)
(* states to each other (Client.h:49-50, OutgoingState and IncomingStates). *)
(*                                                                         *)
(* One producer thread runs push, one consumer thread runs pop.  Each is   *)
(* cut at its accesses to shared memory.  The two atomics are modelled by  *)
(* their modification orders: m_head and m_tail are the sequences of all   *)
(* values stored so far.  A thread reads its own index exactly (the        *)
(* relaxed load), but its acquire load of the other thread's index may     *)
(* return any value that is not older than the one it saw last.            *)
(*                                                                         *)
(* Positions are counted from 1, and m_head[n] is the ring slot that the   *)
(* n-th item pushed goes to.                                               *)
(***************************************************************************)
EXTENDS SequencesExt

CONSTANTS
    Item,      \* the values the producer pushes
    NoItem,    \* the content of a slot that was never written
    Capacity,  \* the template argument: slots in m_buffer (256 in Client.h)
    MaxPush    \* bound of the model: how many items are pushed

ASSUME CapacityAssumption == Capacity \in Nat \ {0, 1}
ASSUME MaxPushAssumption == MaxPush \in Nat

VARIABLES
    m_buffer,  \* the slots, indexed 0..Capacity-1
    m_head,    \* modification order of m_head
    m_tail,    \* modification order of m_tail
    pushPc,    \* where the producer is in push
    pushItem,  \* the argument of the push that is running
    tailSeen,  \* position in m_tail of the value the producer last loaded
    popPc,     \* where the consumer is in pop
    popItem,   \* the copy of the slot that pop is about to return
    headSeen,  \* position in m_head of the value the consumer last loaded
    pushed,    \* history: the items push accepted, in order
    popped     \* history: the items pop returned, in order

producerVars == <<pushPc, pushItem, tailSeen>>
consumerVars == <<popPc, popItem, headSeen>>
vars == <<m_buffer, m_head, m_tail, producerVars, consumerVars, pushed, popped>>

\* Mutated form of increment: the index is never wrapped.
incrementUnwrapped(idx) == idx + 1
increment(idx) == (idx + 1) % Capacity

\* The producer's slot (local variable head of push) and the consumer's
\* (local variable tail of pop): the relaxed load of the thread's own index.
head == Last(m_head)
tail == Last(m_tail)

Init ==
    /\ m_buffer = [slot \in 0..Capacity - 1 |-> NoItem]
    /\ m_head = <<0>>
    /\ m_tail = <<0>>
    /\ pushPc = "idle" /\ pushItem = NoItem /\ tailSeen = 1
    /\ popPc = "idle" /\ popItem = NoItem /\ headSeen = 1
    /\ pushed = <<>>
    /\ popped = <<>>

-----------------------------------------------------------------------------
(* The producer. *)

\* next_head == m_tail.load(acquire), if the load returns the p-th value.
\* Mutated form: the check against m_tail is dropped.
NeverSeesFull(p) == FALSE
SeesFull(p) == increment(head) = m_tail[p]

\* push finds the ring full, as far as it can see, and returns false: the
\* item is gone, because no caller looks at the result.
PushFull ==
    /\ pushPc = "idle"
    /\ \E p \in tailSeen..Len(m_tail) :
        /\ SeesFull(p)
        /\ tailSeen' = p
    /\ UNCHANGED <<m_buffer, m_head, m_tail, pushPc, pushItem, consumerVars,
                   pushed, popped>>

\* push loads both indices and finds room.
PushRoom(item) ==
    /\ pushPc = "idle"
    /\ Len(pushed) < MaxPush
    /\ \E p \in tailSeen..Len(m_tail) :
        /\ ~SeesFull(p)
        /\ tailSeen' = p
    /\ pushPc' = "write"
    /\ pushItem' = item
    /\ UNCHANGED <<m_buffer, m_head, m_tail, consumerVars, pushed, popped>>

\* m_buffer[head] = item
\* Mutated form: the item goes to the slot after head.
PushWriteNextSlot ==
    /\ pushPc = "write"
    /\ m_buffer' = [m_buffer EXCEPT ![increment(head)] = pushItem]
    /\ pushPc' = "publish"
    /\ UNCHANGED <<m_head, m_tail, pushItem, tailSeen, consumerVars,
                   pushed, popped>>
PushWrite ==
    /\ pushPc = "write"
    /\ m_buffer' = [m_buffer EXCEPT ![head] = pushItem]
    /\ pushPc' = "publish"
    /\ UNCHANGED <<m_head, m_tail, pushItem, tailSeen, consumerVars,
                   pushed, popped>>

\* m_head.store(next_head, release); return true
PushPublish ==
    /\ pushPc = "publish"
    /\ m_head' = Append(m_head, increment(head))
    /\ pushed' = Append(pushed, pushItem)
    /\ pushPc' = "idle"
    /\ UNCHANGED <<m_buffer, m_tail, pushItem, tailSeen, consumerVars, popped>>

-----------------------------------------------------------------------------
(* The consumer. *)

\* tail == m_head.load(acquire), if the load returns the p-th value.
\* Mutated form: the check against m_head is dropped.
NeverSeesEmpty(p) == FALSE
SeesEmpty(p) == tail = m_head[p]

\* pop finds the ring empty, as far as it can see, and returns nullopt.
PopEmpty ==
    /\ popPc = "idle"
    /\ \E p \in headSeen..Len(m_head) :
        /\ SeesEmpty(p)
        /\ headSeen' = p
    /\ UNCHANGED <<m_buffer, m_head, m_tail, producerVars, popPc, popItem,
                   pushed, popped>>

\* pop loads both indices and finds an item.
\* Mutated form: pop trusts the value of m_head it loaded last.
PopFoundCached ==
    /\ popPc = "idle"
    /\ ~SeesEmpty(headSeen)
    /\ popPc' = "read"
    /\ UNCHANGED <<m_buffer, m_head, m_tail, producerVars, popItem, headSeen,
                   pushed, popped>>
PopFound ==
    /\ popPc = "idle"
    /\ \E p \in headSeen..Len(m_head) :
        /\ ~SeesEmpty(p)
        /\ headSeen' = p
    /\ popPc' = "read"
    /\ UNCHANGED <<m_buffer, m_head, m_tail, producerVars, popItem,
                   pushed, popped>>

\* T item = m_buffer[tail]
\* Mutated form: pop copies the slot after the one it releases.
PopReadNextSlot ==
    /\ popPc = "read"
    /\ popItem' = m_buffer[increment(tail)]
    /\ popPc' = "publish"
    /\ UNCHANGED <<m_buffer, m_head, m_tail, producerVars, headSeen,
                   pushed, popped>>
PopRead ==
    /\ popPc = "read"
    /\ popItem' = m_buffer[tail]
    /\ popPc' = "publish"
    /\ UNCHANGED <<m_buffer, m_head, m_tail, producerVars, headSeen,
                   pushed, popped>>

\* m_tail.store(increment(tail), release); return item
PopPublish ==
    /\ popPc = "publish"
    /\ m_tail' = Append(m_tail, increment(tail))
    /\ popped' = Append(popped, popItem)
    /\ popPc' = "idle"
    /\ UNCHANGED <<m_buffer, m_head, producerVars, popItem, headSeen, pushed>>

-----------------------------------------------------------------------------
Producer ==
    \/ PushFull
    \/ \E item \in Item : PushRoom(item)
    \/ PushWrite
    \/ PushPublish

Consumer ==
    \/ PopEmpty
    \/ PopFound
    \/ PopRead
    \/ PopPublish

Next == Producer \/ Consumer

Spec == Init /\ [][Next]_vars

\* A push or pop that is under way ends.  The consumer calls pop again and
\* again (once per frame), and a store becomes visible to the other thread
\* in finite time, so a pop that could find an item does not miss it forever.
Fairness ==
    /\ WF_vars(PushWrite) /\ WF_vars(PushPublish)
    /\ WF_vars(PopFound) /\ WF_vars(PopRead) /\ WF_vars(PopPublish)

FairSpec == Spec /\ Fairness

-----------------------------------------------------------------------------
(* Properties. *)

Slots == 0..Capacity - 1

\* Every variable stays in its type; in particular a slot index that either
\* thread stores is an index of m_buffer.
TypeOK ==
    /\ m_buffer \in [Slots -> Item \cup {NoItem}]
    /\ m_head \in Seq(Slots) /\ m_head # <<>>
    /\ m_tail \in Seq(Slots) /\ m_tail # <<>>
    /\ pushPc \in {"idle", "write", "publish"}
    /\ popPc \in {"idle", "read", "publish"}
    /\ pushItem \in Item \cup {NoItem}
    /\ popItem \in Item \cup {NoItem}
    /\ tailSeen \in 1..Len(m_tail)
    /\ headSeen \in 1..Len(m_head)
    /\ pushed \in Seq(Item)
    /\ popped \in Seq(Item)

\* The two threads never touch one slot at the same time: while push writes
\* m_buffer[head], pop is not copying m_buffer[tail] from that slot.  The
\* slots are plain memory, so anything else would be a data race.
NoDataRace == ~(pushPc = "write" /\ popPc = "read" /\ head = tail)

\* pop returns the accepted items: none lost, none twice, none overwritten
\* before it was read, in the order they were pushed.
FifoOrder ==
    /\ Len(popped) <= Len(pushed)
    /\ \A i \in 1..Len(popped) : popped[i] = pushed[i]

\* What makes the queue right, and strong enough to be inductive.  The n-th
\* value stored in an index is (n - 1) % Capacity; m_tail never passes m_head
\* nor falls a whole ring behind it, even where a thread works from an old
\* view of the other index; and the slots between them hold the accepted
\* items that pop has not returned yet.
IndexInv ==
    /\ \A n \in 1..Len(m_head) : m_head[n] = (n - 1) % Capacity
    /\ \A n \in 1..Len(m_tail) : m_tail[n] = (n - 1) % Capacity

WindowInv ==
    /\ Len(m_tail) <= headSeen
    /\ Len(m_head) < tailSeen + Capacity
    /\ pushPc # "idle" => Len(m_head) + 1 < tailSeen + Capacity
    /\ popPc # "idle" => Len(m_tail) < headSeen

ContentInv ==
    /\ Len(pushed) = Len(m_head) - 1
    /\ Len(popped) = Len(m_tail) - 1
    /\ \A n \in Len(m_tail)..Len(m_head) - 1 :
        m_buffer[(n - 1) % Capacity] = pushed[n]
    /\ \A i \in 1..Len(popped) : popped[i] = pushed[i]
    /\ pushPc # "idle" => pushItem \in Item
    /\ pushPc = "publish" => m_buffer[head] = pushItem
    /\ popPc = "publish" => popItem = pushed[Len(m_tail)]

RingInv == IndexInv /\ WindowInv /\ ContentInv

\* The ring's own account of what it holds: from m_tail up to m_head.
Contents ==
    [i \in 1..(Len(m_head) - Len(m_tail)) |->
        m_buffer[(tail + i - 1) % Capacity]]

Abstract == INSTANCE Fifo
    WITH queue <- Contents, delivered <- popped, Bound <- Capacity - 1

\* push and pop are atomic seen from outside: the queue implements Fifo with
\* Capacity - 1 places (one slot always stays free to tell full from empty).
ImplementsFifo == Abstract!Spec

\* What push accepted, pop returns: the consumer is never stuck on an old
\* view of m_head.
EveryPushIsPopped ==
    \A n \in 1..MaxPush : (Len(pushed) >= n) ~> (Len(popped) >= n)
=============================================================================
