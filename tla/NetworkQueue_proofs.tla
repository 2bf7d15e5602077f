------------------------- MODULE NetworkQueue_proofs -------------------------
(***************************************************************************)
(* Proofs about NetworkQueue, for every ring of two or more slots, every   *)
(* set of items and every number of pushes: the ring invariant is          *)
(* inductive, and from it come type correctness, the absence of data       *)
(* races, the order of delivery, and that the queue implements Fifo.       *)
(***************************************************************************)
EXTENDS NetworkQueue, SequenceTheorems, TLAPS

-----------------------------------------------------------------------------
(* Arithmetic modulo Capacity. *)

\* A number is made of its quotient and its remainder.
LEMMA DivMod ==
    ASSUME NEW a \in Nat
    PROVE  /\ a \div Capacity \in Nat
           /\ a = Capacity * (a \div Capacity) + (a % Capacity)
           /\ a % Capacity \in 0..Capacity - 1
BY CapacityAssumption

\* A multiple of Capacity is at least Capacity, or not positive.
LEMMA Multiples ==
    ASSUME NEW k \in Int
    PROVE  /\ Capacity * k \in Int
           /\ k >= 1 => Capacity * k >= Capacity
           /\ k <= 0 => Capacity * k <= 0
BY CapacityAssumption

\* Quotient and remainder are unique.
LEMMA ModUnique ==
    ASSUME NEW a \in Nat, NEW q \in Nat, NEW r \in 0..Capacity - 1,
           a = Capacity * q + r
    PROVE  a % Capacity = r
<1> DEFINE qa == a \div Capacity  ra == a % Capacity
<1>1. /\ qa \in Nat /\ a = Capacity * qa + ra /\ ra \in 0..Capacity - 1
  BY DivMod
<1> HIDE DEF qa, ra
<1>2. Capacity * (q - qa) = ra - r
  BY <1>1, CapacityAssumption
<1>3. Capacity * (qa - q) = r - ra
  BY <1>1, CapacityAssumption
<1>4. ra = r
  BY <1>1, <1>2, <1>3, Multiples, CapacityAssumption
<1> QED BY <1>4 DEF ra

\* Two positions less than a whole ring apart are different slots.
LEMMA ModDistinct ==
    ASSUME NEW a \in Nat, NEW b \in Nat, a < b, b < a + Capacity
    PROVE  a % Capacity # b % Capacity
<1> DEFINE qa == a \div Capacity  qb == b \div Capacity
<1> SUFFICES ASSUME a % Capacity = b % Capacity PROVE FALSE
  OBVIOUS
<1>1. /\ qa \in Nat /\ qb \in Nat
      /\ a = Capacity * qa + (a % Capacity)
      /\ b = Capacity * qb + (b % Capacity)
      /\ a % Capacity \in Int
  BY DivMod, CapacityAssumption
<1> HIDE DEF qa, qb
<1>2. b - a = Capacity * (qb - qa)
  BY <1>1, CapacityAssumption
<1>3. QED
  BY <1>1, <1>2, Multiples, CapacityAssumption

\* Going k places on from a slot.
LEMMA ModAdd ==
    ASSUME NEW a \in Nat, NEW k \in Nat
    PROVE  ((a % Capacity) + k) % Capacity = (a + k) % Capacity
<1> DEFINE q == a \div Capacity  r == a % Capacity
           s == r + k  q2 == s \div Capacity  r2 == s % Capacity
<1>1. q \in Nat /\ a = Capacity * q + r /\ r \in 0..Capacity - 1
  BY DivMod
<1>2. s \in Nat
  BY <1>1, CapacityAssumption
<1>3. q2 \in Nat /\ s = Capacity * q2 + r2 /\ r2 \in 0..Capacity - 1
  BY <1>2, DivMod
<1> HIDE DEF q, q2, r2, s, r
<1>4. a + k = Capacity * (q + q2) + r2
  BY <1>1, <1>3, CapacityAssumption DEF s
<1>5. a + k \in Nat /\ q + q2 \in Nat
  BY <1>1, <1>3
<1>6. (a + k) % Capacity = r2
  BY <1>3, <1>4, <1>5, ModUnique
<1> QED BY <1>6 DEF r2, s, r

\* A whole ring on is the same slot.
LEMMA ModWrap ==
    ASSUME NEW a \in Nat
    PROVE  (a + Capacity) % Capacity = a % Capacity
<1> DEFINE q == a \div Capacity  r == a % Capacity
<1>1. q \in Nat /\ a = Capacity * q + r /\ r \in 0..Capacity - 1
  BY DivMod
<1> HIDE DEF q, r
<1>2. a + Capacity = Capacity * (q + 1) + r
  BY <1>1, CapacityAssumption
<1>3. (a + Capacity) % Capacity = r
  BY <1>1, <1>2, ModUnique, CapacityAssumption
<1> QED BY <1>3 DEF r

-----------------------------------------------------------------------------
(* The ring invariant is inductive. *)

Inv == TypeOK /\ RingInv

\* What the two local variables are, and where the next store goes.
LEMMA Indices ==
    ASSUME Inv
    PROVE  /\ Len(m_head) \in Nat \ {0} /\ Len(m_tail) \in Nat \ {0}
           /\ head = (Len(m_head) - 1) % Capacity /\ head \in Slots
           /\ tail = (Len(m_tail) - 1) % Capacity /\ tail \in Slots
           /\ increment(head) = Len(m_head) % Capacity
           /\ increment(tail) = Len(m_tail) % Capacity
           /\ increment(head) \in Slots /\ increment(tail) \in Slots
<1> USE DEF Inv, RingInv
<1>1. Len(m_head) \in Nat \ {0} /\ Len(m_tail) \in Nat \ {0}
  BY EmptySeq DEF TypeOK
<1>2. /\ head = (Len(m_head) - 1) % Capacity
      /\ tail = (Len(m_tail) - 1) % Capacity
  BY <1>1 DEF IndexInv, head, tail, Last
<1>3. /\ increment(head) = Len(m_head) % Capacity
      /\ increment(tail) = Len(m_tail) % Capacity
  <2>1. /\ (Len(m_head) - 1) + 1 = Len(m_head) /\ Len(m_head) - 1 \in Nat
        /\ (Len(m_tail) - 1) + 1 = Len(m_tail) /\ Len(m_tail) - 1 \in Nat
    BY <1>1
  <2>2. /\ (((Len(m_head) - 1) % Capacity) + 1) % Capacity = ((Len(m_head) - 1) + 1) % Capacity
        /\ (((Len(m_tail) - 1) % Capacity) + 1) % Capacity = ((Len(m_tail) - 1) + 1) % Capacity
    BY <2>1, ModAdd
  <2> QED BY <1>2, <2>1, <2>2 DEF increment
<1>4. /\ head \in Slots /\ tail \in Slots
      /\ increment(head) \in Slots /\ increment(tail) \in Slots
  <2>1. /\ Len(m_head) - 1 \in Nat /\ Len(m_head) \in Nat
        /\ Len(m_tail) - 1 \in Nat /\ Len(m_tail) \in Nat
    BY <1>1
  <2> HIDE DEF Inv, RingInv
  <2> QED BY <1>2, <1>3, <2>1, DivMod DEF Slots
<1> QED BY <1>1, <1>2, <1>3, <1>4

\* The empty ring satisfies the invariant.
LEMMA InitInv == Init => Inv
<1> SUFFICES ASSUME Init PROVE Inv
  OBVIOUS
<1> USE CapacityAssumption DEF Init
<1>1. /\ Len(m_head) = 1 /\ Len(m_tail) = 1 /\ m_head[1] = 0 /\ m_tail[1] = 0
      /\ Len(pushed) = 0 /\ Len(popped) = 0
  OBVIOUS
<1>2. 0 % Capacity = 0 /\ 0 \in Slots
  BY DEF Slots
<1>3. TypeOK
  BY <1>1, <1>2 DEF TypeOK, Slots
<1>4. IndexInv /\ WindowInv /\ ContentInv
  BY <1>1, <1>2 DEF IndexInv, WindowInv, ContentInv
<1> QED BY <1>3, <1>4 DEF Inv, RingInv

\* A head that the producer does not see as full leaves room for one item,
\* however old the tail position p it saw is.
LEMMA RoomForOne ==
    ASSUME NEW h \in Nat, NEW t \in Nat, NEW p \in Nat,
           t <= p, h < t + Capacity, h # (p - 1) + Capacity
    PROVE  h + 1 < p + Capacity
BY CapacityAssumption

\* Every step of push and of pop preserves the invariant.
LEMMA NextInv == Inv /\ [Next]_vars => Inv'
<1> SUFFICES ASSUME Inv, [Next]_vars PROVE Inv'
  OBVIOUS
<1> USE DEF Inv, RingInv
<1>0. /\ Len(m_head) \in Nat \ {0} /\ Len(m_tail) \in Nat \ {0}
      /\ head = (Len(m_head) - 1) % Capacity /\ head \in Slots
      /\ tail = (Len(m_tail) - 1) % Capacity /\ tail \in Slots
      /\ increment(head) = Len(m_head) % Capacity
      /\ increment(tail) = Len(m_tail) % Capacity
      /\ increment(head) \in Slots /\ increment(tail) \in Slots
  BY Indices
<1>1. CASE PushFull
  <2> USE <1>1 DEF PushFull, consumerVars
  <2>1. tailSeen' \in tailSeen..Len(m_tail)
    OBVIOUS
  <2>2. TypeOK'
    BY <2>1, <1>0 DEF TypeOK
  <2>3. IndexInv'
    BY DEF IndexInv
  <2>4. WindowInv'
    BY <2>1, <1>0, CapacityAssumption DEF WindowInv, TypeOK
  <2>5. ContentInv'
    BY <1>0 DEF ContentInv, head, Last
  <2> QED BY <2>2, <2>3, <2>4, <2>5
<1>2. ASSUME NEW item \in Item, PushRoom(item) PROVE Inv'
  <2> USE <1>2 DEF PushRoom, consumerVars
  <2>1. TypeOK'
    BY <1>0 DEF TypeOK
  <2>2. IndexInv'
    BY DEF IndexInv
  <2>3. WindowInv'
    <3>1. PICK p \in tailSeen..Len(m_tail) : ~SeesFull(p) /\ tailSeen' = p
      OBVIOUS
    <3>2. /\ p \in 1..Len(m_tail) /\ tailSeen \in Nat
      BY <1>0 DEF TypeOK
    <3>3. m_tail[p] = (p - 1) % Capacity
      BY <3>2 DEF IndexInv
    <3>4. Len(m_head) # (p - 1) + Capacity
      BY <3>1, <3>2, <3>3, <1>0, ModWrap DEF SeesFull
    <3>5. Len(m_head) < tailSeen + Capacity /\ tailSeen <= p /\ p \in Nat
      BY <3>1, <3>2, <1>0 DEF WindowInv
    <3>6. Len(m_head) + 1 < p + Capacity
      BY <3>2, <3>4, <3>5, <1>0, RoomForOne
    <3> QED BY <3>1, <3>2, <3>6, <1>0, CapacityAssumption DEF WindowInv
  <2>4. ContentInv'
    BY <1>0 DEF ContentInv, head, Last
  <2> QED BY <2>1, <2>2, <2>3, <2>4
<1>3. CASE PushWrite
  <2> USE <1>3 DEF PushWrite, consumerVars
  <2>1. TypeOK'
    BY <1>0 DEF TypeOK
  <2>2. IndexInv'
    BY DEF IndexInv
  <2>3. WindowInv'
    BY DEF WindowInv
  <2>4. ContentInv'
    <3>1. ASSUME NEW n \in Len(m_tail)..Len(m_head) - 1
          PROVE  m_buffer'[(n - 1) % Capacity] = pushed[n]
      <4>1. /\ n - 1 \in Nat /\ Len(m_head) - 1 \in Nat
            /\ n - 1 < Len(m_head) - 1 /\ Len(m_head) - 1 < (n - 1) + Capacity
        <5>1. /\ Len(m_head) + 1 < tailSeen + Capacity
              /\ tailSeen \in 1..Len(m_tail)
          BY DEF WindowInv, TypeOK
        <5>2. n \in Nat /\ Len(m_tail) <= n /\ n <= Len(m_head) - 1
          BY <1>0
        <5>3. Len(m_tail) \in Nat /\ Len(m_head) \in Nat /\ Len(m_tail) > 0
          BY <1>0
        <5> HIDE DEF Inv, RingInv, PushWrite
        <5> QED BY <5>1, <5>2, <5>3, CapacityAssumption
      <4>2. (n - 1) % Capacity # head
        BY <4>1, <1>0, ModDistinct
      <4>3. (n - 1) % Capacity \in Slots
        BY <4>1, DivMod DEF Slots
      <4> QED BY <4>2, <4>3 DEF TypeOK, ContentInv
    <3>2. m_buffer'[head] = pushItem
      BY <1>0 DEF TypeOK
    <3>3. head' = head
      BY DEF head
    <3> QED BY <3>1, <3>2, <3>3 DEF ContentInv
  <2> QED BY <2>1, <2>2, <2>3, <2>4
<1>4. CASE PushPublish
  <2> USE <1>4 DEF PushPublish, consumerVars
  <2>1. pushItem \in Item
    BY DEF ContentInv
  <2>2. /\ m_head' \in Seq(Slots) /\ m_head' # <<>>
        /\ Len(m_head') = Len(m_head) + 1
        /\ \A n \in 1..Len(m_head) : m_head'[n] = m_head[n]
        /\ m_head'[Len(m_head) + 1] = Len(m_head) % Capacity
    BY <1>0, AppendProperties DEF TypeOK
  <2>3. /\ pushed' \in Seq(Item)
        /\ Len(pushed') = Len(pushed) + 1
        /\ \A n \in 1..Len(pushed) : pushed'[n] = pushed[n]
        /\ pushed'[Len(pushed) + 1] = pushItem
    BY <2>1, AppendProperties DEF TypeOK
  <2>4. TypeOK'
    BY <1>0, <2>2, <2>3 DEF TypeOK
  <2>5. IndexInv'
    BY <1>0, <2>2 DEF IndexInv
  <2>6. WindowInv'
    BY <1>0, <2>2, CapacityAssumption DEF WindowInv, TypeOK
  <2>7. ContentInv'
    <3>1. Len(pushed) = Len(m_head) - 1 /\ Len(pushed) \in Nat /\ Len(popped) \in Nat
      BY <1>0, LenProperties DEF ContentInv, TypeOK
    <3>2. ASSUME NEW n \in Len(m_tail)..Len(m_head') - 1
          PROVE  m_buffer'[(n - 1) % Capacity] = pushed'[n]
      <4>1. CASE n = Len(m_head)
        <5>1. m_buffer[head] = pushItem /\ pushed'[n] = pushItem
          BY <4>1, <3>1, <2>3, <1>0 DEF ContentInv
        <5> QED BY <5>1, <4>1, <1>0
      <4>2. CASE n \in Len(m_tail)..Len(m_head) - 1
        <5>1. n \in 1..Len(pushed)
          BY <4>2, <3>1, <1>0
        <5>2. m_buffer[(n - 1) % Capacity] = pushed[n]
          BY <4>2 DEF ContentInv
        <5> QED BY <5>1, <5>2, <2>3
      <4>3. n = Len(m_head) \/ n \in Len(m_tail)..Len(m_head) - 1
        <5> HIDE DEF Inv, RingInv, PushPublish
        <5> QED BY <2>2, <1>0
      <4> QED BY <4>1, <4>2, <4>3
    <3>3. Len(popped) <= Len(pushed)
      BY <1>0 DEF ContentInv, WindowInv, TypeOK
    <3>4. \A i \in 1..Len(popped) : popped[i] = pushed'[i]
      BY <3>1, <3>3, <2>3 DEF ContentInv
    <3>5. popPc = "publish" => popItem = pushed'[Len(m_tail)]
      <4>1. popPc = "publish" => Len(m_tail) \in 1..Len(pushed)
        BY <1>0, <3>1 DEF WindowInv, TypeOK
      <4> QED BY <4>1, <2>3 DEF ContentInv
    <3>6. pushPc' = "idle" /\ Len(pushed') = Len(m_head') - 1
      BY <3>1, <2>2, <2>3
    <3> QED BY <3>2, <3>4, <3>5, <3>6 DEF ContentInv
  <2> QED BY <2>4, <2>5, <2>6, <2>7
<1>5. CASE PopEmpty
  BY <1>0, <1>5 DEF PopEmpty, producerVars, TypeOK, IndexInv, WindowInv,
     ContentInv, head, Last
<1>6. CASE PopFound
  <2> USE <1>6 DEF PopFound, producerVars
  <2>1. TypeOK'
    BY <1>0 DEF TypeOK
  <2>2. IndexInv'
    BY DEF IndexInv
  <2>3. WindowInv'
    <3>1. PICK p \in headSeen..Len(m_head) : ~SeesEmpty(p) /\ headSeen' = p
      OBVIOUS
    <3>2. p \in 1..Len(m_head) /\ headSeen \in Nat
      BY <1>0 DEF TypeOK
    <3>3. m_head[p] = (p - 1) % Capacity
      BY <3>2 DEF IndexInv
    <3>4. Len(m_tail) # p
      BY <3>1, <3>3, <1>0 DEF SeesEmpty
    <3> QED BY <3>1, <3>2, <3>4, <1>0 DEF WindowInv
  <2>4. ContentInv'
    BY <1>0 DEF ContentInv, head, Last
  <2> QED BY <2>1, <2>2, <2>3, <2>4
<1>7. CASE PopRead
  <2> USE <1>7 DEF PopRead, producerVars
  <2>1. TypeOK'
    BY <1>0 DEF TypeOK
  <2>2. IndexInv'
    BY DEF IndexInv
  <2>3. WindowInv'
    BY DEF WindowInv
  <2>4. ContentInv'
    <3>1. Len(m_tail) \in Len(m_tail)..Len(m_head) - 1
      BY <1>0 DEF WindowInv, TypeOK
    <3>2. popItem' = pushed[Len(m_tail)]
      BY <3>1, <1>0 DEF ContentInv
    <3>3. head' = head
      BY DEF head
    <3> QED BY <3>2, <3>3 DEF ContentInv
  <2> QED BY <2>1, <2>2, <2>3, <2>4
<1>8. CASE PopPublish
  <2> USE <1>8 DEF PopPublish, producerVars
  <2>1. /\ Len(pushed) = Len(m_head) - 1 /\ Len(popped) = Len(m_tail) - 1
        /\ Len(m_tail) \in 1..Len(pushed)
        /\ popItem = pushed[Len(m_tail)] /\ popItem \in Item
    <3>1. /\ Len(pushed) = Len(m_head) - 1 /\ Len(popped) = Len(m_tail) - 1
          /\ Len(m_tail) \in 1..Len(pushed)
      BY <1>0 DEF ContentInv, WindowInv, TypeOK
    <3>2. popItem = pushed[Len(m_tail)]
      BY DEF ContentInv
    <3> QED BY <3>1, <3>2, ElementOfSeq DEF TypeOK
  <2>2. /\ m_tail' \in Seq(Slots) /\ m_tail' # <<>>
        /\ Len(m_tail') = Len(m_tail) + 1
        /\ \A n \in 1..Len(m_tail) : m_tail'[n] = m_tail[n]
        /\ m_tail'[Len(m_tail) + 1] = Len(m_tail) % Capacity
    <3>1. m_tail \in Seq(Slots) /\ m_tail' = Append(m_tail, increment(tail))
      BY DEF TypeOK
    <3> HIDE DEF Inv
    <3> QED BY <3>1, <1>0, AppendProperties
  <2>3. /\ popped' \in Seq(Item)
        /\ Len(popped') = Len(popped) + 1
        /\ \A n \in 1..Len(popped) : popped'[n] = popped[n]
        /\ popped'[Len(popped) + 1] = popItem
    BY <2>1, AppendProperties DEF TypeOK
  <2>4. TypeOK'
    BY <1>0, <2>2, <2>3 DEF TypeOK
  <2>5. IndexInv'
    BY <1>0, <2>2 DEF IndexInv
  <2>6. WindowInv'
    BY <1>0, <2>2, CapacityAssumption DEF WindowInv, TypeOK
  <2>7. ContentInv'
    <3>1. ASSUME NEW i \in 1..Len(popped') PROVE popped'[i] = pushed[i]
      <4>1. CASE i = Len(popped) + 1
        BY <4>1, <2>1, <2>3, <1>0
      <4>2. CASE i \in 1..Len(popped)
        BY <4>2, <2>3 DEF ContentInv
      <4>3. i \in 1..Len(popped) + 1
        BY <2>3, <2>1
      <4> QED BY <4>1, <4>2, <4>3, <2>1, <1>0
    <3>2. \A n \in Len(m_tail')..Len(m_head) - 1 :
             m_buffer[(n - 1) % Capacity] = pushed[n]
      BY <1>0, <2>2 DEF ContentInv
    <3>3. head' = head
      BY DEF head
    <3> QED BY <1>0, <2>1, <2>2, <2>3, <3>1, <3>2, <3>3 DEF ContentInv
  <2> QED BY <2>4, <2>5, <2>6, <2>7
<1>9. CASE UNCHANGED vars
  BY <1>9 DEF vars, producerVars, consumerVars, TypeOK, IndexInv, WindowInv,
     ContentInv, head, Last
<1> QED
  BY <1>1, <1>2, <1>3, <1>4, <1>5, <1>6, <1>7, <1>8, <1>9
     DEF Next, Producer, Consumer

\* The inductive invariant holds in every state.
THEOREM RingInvariant == Spec => []Inv
<1>1. Init => Inv
  BY InitInv
<1>2. Inv /\ [Next]_vars => Inv'
  BY NextInv
<1> QED BY <1>1, <1>2, PTL DEF Spec

-----------------------------------------------------------------------------
(* What the ring invariant gives. *)

\* The window of the ring and its content, for every capacity.
THEOREM RingHolds == Spec => []RingInv
<1>1. Inv => RingInv
  BY DEF Inv
<1> QED BY <1>1, RingInvariant, PTL

\* Every variable keeps its type: the indices stay inside m_buffer.
THEOREM TypeCorrect == Spec => []TypeOK
<1>1. Inv => TypeOK
  BY DEF Inv
<1> QED BY <1>1, RingInvariant, PTL

\* push never writes the slot that pop is reading.
THEOREM RaceFree == Spec => []NoDataRace
<1>1. Inv => NoDataRace
  <2> SUFFICES ASSUME Inv, pushPc = "write", popPc = "read" PROVE head # tail
    BY DEF NoDataRace
  <2>1. /\ Len(m_head) + 1 < tailSeen + Capacity /\ tailSeen \in 1..Len(m_tail)
        /\ Len(m_tail) < headSeen /\ headSeen \in 1..Len(m_head)
    BY DEF Inv, RingInv, WindowInv, TypeOK
  <2>2. Len(m_head) \in Nat \ {0} /\ Len(m_tail) \in Nat \ {0}
    BY Indices
  <2>3. /\ Len(m_tail) - 1 \in Nat /\ Len(m_head) - 1 \in Nat
        /\ Len(m_tail) - 1 < Len(m_head) - 1
        /\ Len(m_head) - 1 < (Len(m_tail) - 1) + Capacity
    BY <2>1, <2>2, CapacityAssumption
  <2>4. (Len(m_tail) - 1) % Capacity # (Len(m_head) - 1) % Capacity
    BY <2>3, ModDistinct
  <2> QED BY <2>4, Indices
<1> QED BY <1>1, RingInvariant, PTL

\* pop returns what push accepted, in that order.
THEOREM InOrder == Spec => []FifoOrder
<1>1. Inv => FifoOrder
  <2> SUFFICES ASSUME Inv PROVE FifoOrder
    OBVIOUS
  <2>1. Len(m_tail) <= Len(m_head)
    BY Indices DEF Inv, RingInv, WindowInv, TypeOK
  <2> QED BY <2>1, Indices DEF Inv, RingInv, ContentInv, FifoOrder
<1> QED BY <1>1, RingInvariant, PTL

-----------------------------------------------------------------------------
(* The queue implements Fifo. *)

\* The slots between the indices hold the accepted items not yet returned.
Outstanding ==
    /\ Contents = SubSeq(pushed, Len(popped) + 1, Len(pushed))
    /\ Contents \in Seq(Item)
    /\ Len(Contents) = Len(pushed) - Len(popped)
    /\ \A i \in 1..Len(Contents) : Contents[i] = pushed[Len(popped) + i]
    /\ Len(pushed) \in Nat /\ Len(popped) \in 0..Len(pushed)

\* What lies between tail and head is what was pushed and not popped.
LEMMA ContentsOutstanding == Inv => Outstanding
<1> SUFFICES ASSUME Inv PROVE Outstanding
  OBVIOUS
<1>1. /\ Len(pushed) = Len(m_head) - 1 /\ Len(popped) = Len(m_tail) - 1
      /\ Len(m_tail) <= Len(m_head)
      /\ pushed \in Seq(Item)
  BY Indices DEF Inv, RingInv, WindowInv, ContentInv, TypeOK
<1>2. Len(m_head) \in Nat \ {0} /\ Len(m_tail) \in Nat \ {0}
  BY Indices
<1>3. ASSUME NEW i \in 1..(Len(m_head) - Len(m_tail))
      PROVE  m_buffer[(tail + i - 1) % Capacity] = pushed[Len(popped) + i]
  <2>1. /\ i - 1 \in Nat /\ Len(m_tail) - 1 \in Nat
        /\ (Len(m_tail) - 1) + (i - 1) = (Len(m_tail) + i - 1) - 1
        /\ Len(m_tail) + i - 1 \in Len(m_tail)..Len(m_head) - 1
        /\ Len(m_tail) + i - 1 = Len(popped) + i
    BY <1>1, <1>2
  <2>2. tail \in Nat /\ tail = (Len(m_tail) - 1) % Capacity
    BY Indices, CapacityAssumption DEF Slots
  <2>3. tail + i - 1 = tail + (i - 1)
    BY <2>1, <2>2
  <2>4. (tail + i - 1) % Capacity = ((Len(m_tail) + i - 1) - 1) % Capacity
    BY <2>1, <2>2, <2>3, ModAdd
  <2> QED BY <2>1, <2>4 DEF Inv, RingInv, ContentInv
<1>4. Contents = [i \in 1..(Len(pushed) - Len(popped)) |-> pushed[Len(popped) + i]]
  <2>1. Len(m_head) - Len(m_tail) = Len(pushed) - Len(popped)
    BY <1>1, <1>2
  <2> QED BY <1>3, <2>1 DEF Contents
<1>5. \A i \in Len(popped) + 1..Len(pushed) : pushed[i] \in Item
  BY <1>1, <1>2, ElementOfSeq
<1> DEFINE rest == SubSeq(pushed, Len(popped) + 1, Len(pushed))
           n == Len(pushed) - Len(popped)
<1>6. n \in Nat /\ Len(popped) \in Nat /\ Len(pushed) \in Nat
  BY <1>1, <1>2
<1>7. /\ rest \in Seq(Item)
      /\ Len(rest) = n
      /\ \A i \in 1..n : rest[i] = pushed[Len(popped) + i]
  <2>1. /\ rest \in Seq(Item)
        /\ Len(rest) = IF Len(popped) + 1 <= Len(pushed)
                       THEN Len(pushed) - (Len(popped) + 1) + 1 ELSE 0
        /\ \A i \in 1..(Len(pushed) - (Len(popped) + 1) + 1) :
             rest[i] = pushed[(Len(popped) + 1) + i - 1]
    BY <1>5, <1>6, SubSeqProperties
  <2>2. Len(pushed) - (Len(popped) + 1) + 1 = n
    BY <1>6
  <2>3. \A i \in 1..n : (Len(popped) + 1) + i - 1 = Len(popped) + i
    BY <1>6
  <2>4. Len(rest) = n
    BY <2>1, <2>2, <1>6
  <2> QED BY <2>1, <2>2, <2>3, <2>4
<1>8. rest = [i \in 1..n |-> pushed[Len(popped) + i]]
  <2>1. rest = [i \in 1..Len(rest) |-> rest[i]]
    BY <1>7, LenProperties
  <2> QED BY <2>1, <1>7
<1> QED BY <1>1, <1>2, <1>4, <1>6, <1>7, <1>8 DEF Outstanding

\* Every step of the ring is a step of the abstract queue or changes nothing
\* there: PushPublish is Push, PopPublish is Pop.
LEMMA StepImplementsFifo ==
    ASSUME Inv, Inv', [Next]_vars
    PROVE  [Abstract!Next]_(Abstract!vars)
<1>0. /\ Contents = SubSeq(pushed, Len(popped) + 1, Len(pushed))
      /\ Contents \in Seq(Item)
      /\ Len(Contents) = Len(pushed) - Len(popped)
      /\ \A i \in 1..Len(Contents) : Contents[i] = pushed[Len(popped) + i]
      /\ Len(pushed) \in Nat /\ Len(popped) \in 0..Len(pushed)
  BY ContentsOutstanding DEF Outstanding
<1>10. /\ Contents' = SubSeq(pushed', Len(popped') + 1, Len(pushed'))
       /\ Contents' \in Seq(Item)
       /\ Len(Contents') = Len(pushed') - Len(popped')
       /\ \A i \in 1..Len(Contents') : Contents'[i] = pushed'[Len(popped') + i]
  <2>1. Outstanding'
    BY ContentsOutstanding, PTL
  <2> QED BY <2>1 DEF Outstanding
<1>1. CASE UNCHANGED <<pushed, popped>>
  BY <1>0, <1>10, <1>1 DEF Abstract!vars
<1>2. CASE PushPublish
  <2>1. /\ pushItem \in Item /\ pushed \in Seq(Item)
        /\ pushed' = Append(pushed, pushItem) /\ popped' = popped
    BY <1>2 DEF PushPublish, Inv, RingInv, ContentInv, TypeOK
  <2>2. Len(Contents) < Capacity - 1
    <3>1. /\ pushPc # "idle" /\ tailSeen \in 1..Len(m_tail)
          /\ pushPc # "idle" => Len(m_head) + 1 < tailSeen + Capacity
      BY <1>2 DEF PushPublish, Inv, RingInv, WindowInv, TypeOK
    <3>2. Len(pushed) = Len(m_head) - 1 /\ Len(popped) = Len(m_tail) - 1
      BY DEF Inv, RingInv, ContentInv
    <3>3. Len(m_head) \in Nat /\ Len(m_tail) \in Nat
      BY Indices
    <3>4. Len(m_head) + 1 < Len(m_tail) + Capacity
      BY <3>1, <3>3, CapacityAssumption
    <3>5. Len(Contents) = Len(pushed) - Len(popped)
      BY <1>0
    <3> QED BY <3>2, <3>3, <3>4, <3>5, CapacityAssumption
  <2>3. /\ Len(pushed') = Len(pushed) + 1
        /\ \A i \in 1..Len(pushed) : pushed'[i] = pushed[i]
        /\ pushed'[Len(pushed) + 1] = pushItem
    BY <2>1, AppendProperties
  <2>4. Contents' = Append(Contents, pushItem)
    <3>1. /\ Append(Contents, pushItem) \in Seq(Item)
          /\ Len(Append(Contents, pushItem)) = Len(Contents) + 1
          /\ \A i \in 1..Len(Contents) :
               Append(Contents, pushItem)[i] = Contents[i]
          /\ Append(Contents, pushItem)[Len(Contents) + 1] = pushItem
      <4>1. Contents \in Seq(Item) /\ pushItem \in Item
        BY <1>0, <2>1
      <4> QED BY <4>1, AppendProperties
    <3>2. Len(Contents') = Len(Contents) + 1
      BY <1>0, <1>10, <2>1, <2>3
    <3>3. ASSUME NEW i \in 1..Len(Contents')
          PROVE  Contents'[i] = Append(Contents, pushItem)[i]
      <4>1. CASE i \in 1..Len(Contents)
        <5>1. Len(popped) + i \in 1..Len(pushed)
          BY <4>1, <1>0
        <5> QED BY <4>1, <5>1, <1>0, <1>10, <2>1, <2>3, <3>1
      <4>2. CASE i = Len(Contents) + 1
        <5>1. Len(popped) + i = Len(pushed) + 1
          BY <4>2, <1>0
        <5>2. Contents'[i] = pushed'[Len(popped) + i]
          BY <1>10, <2>1, Zenon
        <5> QED BY <4>2, <5>1, <5>2, <2>3, <3>1, Zenon
      <4> QED BY <4>1, <4>2, <3>2, <1>0
    <3> QED BY <1>10, <3>1, <3>2, <3>3, SeqEqual
  <2> QED BY <2>1, <2>2, <2>4 DEF Abstract!Next, Abstract!Push
<1>3. CASE PopPublish
  <2>1. /\ popItem = pushed[Len(popped) + 1] /\ Len(popped) < Len(pushed)
        /\ popped' = Append(popped, popItem) /\ pushed' = pushed
        /\ popped \in Seq(Item)
    BY <1>3, Indices DEF PopPublish, Inv, RingInv, ContentInv, WindowInv, TypeOK
  <2>2. Contents # <<>> /\ Len(Contents) >= 1
    BY <2>1, <1>0, EmptySeq
  <2>3. /\ Tail(Contents) \in Seq(Item)
        /\ Len(Tail(Contents)) = Len(Contents) - 1
        /\ \A i \in 1..Len(Tail(Contents)) : Tail(Contents)[i] = Contents[i + 1]
    BY <1>0, <2>2, HeadTailProperties
  <2>4. Head(Contents) = popItem
    BY <1>0, <2>1, <2>2
  <2>5. Len(popped') = Len(popped) + 1
    <3>1. popItem \in Item
      BY <2>1, <1>0, ElementOfSeq DEF Inv, TypeOK
    <3> QED BY <2>1, <3>1, AppendProperties
  <2>6. Contents' = Tail(Contents)
    <3>1. Len(Contents') = Len(Contents) - 1
      BY <1>0, <1>10, <2>1, <2>5
    <3>2. ASSUME NEW i \in 1..Len(Contents')
          PROVE  Contents'[i] = Tail(Contents)[i]
      <4>1. /\ i \in 1..Len(Tail(Contents)) /\ i + 1 \in 1..Len(Contents)
            /\ Len(popped') + i = Len(popped) + (i + 1)
        BY <3>1, <2>3, <2>5, <1>0
      <4>2. Contents'[i] = pushed[Len(popped) + (i + 1)]
        BY <4>1, <1>10, <2>1
      <4>3. Tail(Contents)[i] = pushed[Len(popped) + (i + 1)]
        BY <4>1, <1>0, <2>3
      <4> QED BY <4>2, <4>3
    <3> QED BY <1>10, <2>3, <3>1, <3>2, SeqEqual
  <2> QED BY <2>1, <2>2, <2>4, <2>6 DEF Abstract!Next, Abstract!Pop
<1> QED
  BY <1>1, <1>2, <1>3 DEF Next, Producer, Consumer, vars, PushFull, PushRoom,
     PushWrite, PopEmpty, PopFound, PopRead

\* Each behaviour of the ring is one of a bounded first-in first-out queue.
THEOREM Refinement == Spec => ImplementsFifo
<1>1. Init => Abstract!Init
  <2> SUFFICES ASSUME Init PROVE Abstract!Init
    OBVIOUS
  <2>1. /\ Len(m_head) = 1 /\ Len(m_tail) = 1 /\ popped = <<>>
    BY DEF Init
  <2>2. Contents = <<>>
    BY <2>1 DEF Contents
  <2> QED BY <2>1, <2>2 DEF Abstract!Init
<1>2. Inv /\ Inv' /\ [Next]_vars => [Abstract!Next]_(Abstract!vars)
  BY StepImplementsFifo
<1> QED BY <1>1, <1>2, RingInvariant, PTL DEF Spec, ImplementsFifo, Abstract!Spec
=============================================================================
