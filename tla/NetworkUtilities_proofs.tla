----------------------- MODULE NetworkUtilities_proofs -----------------------
(***************************************************************************)
(* The helpers of NetworkUtilities.h, for every width of the mask and of   *)
(* the numbers: the backward scans of ComputeAckBits and VerifyAck do      *)
(* exactly what the mask says for numbers in ascending order, and          *)
(* StoreAcks adds nothing that the mask does not name.                     *)
(***************************************************************************)
EXTENDS NetworkUtilities, SequenceTheorems, Induction_proofs

Ascends(s) == \A i, j \in DOMAIN s : i < j => s[i] < s[j]

\* A packet sent, and the numbers of several.
PacketInfo == [seqNum : Nat, acknowledged : BOOLEAN]
NumbersOf(data) == [i \in DOMAIN data |-> data[i].seqNum]

-----------------------------------------------------------------------------
(* The scans of a mask, for every sequence of numbers and every mask. *)

\* Max finds the largest number of a bounded set.
LEMMA MaxIs ==
    ASSUME NEW bound \in Nat, NEW T \in SUBSET (0..bound), T # {}
    PROVE  Max(T) \in T /\ \A n \in T : n <= Max(T)
  <1>1. PICK n \in T : \A m \in T : m <= n
    BY LargestNat
  <1>2. n \in T /\ \A m \in T : n >= m
    BY <1>1
  <1>3. QED
    BY <1>2 DEF Max

\* Stepping back passes only larger numbers, and stops where there is none.
LEMMA StepBackIs ==
    ASSUME NEW numbers \in Seq(Nat), NEW idx \in DOMAIN numbers, NEW expected \in Nat
    PROVE  /\ StepBack(numbers, idx, expected) \in 1..idx
           /\ \A i \in 1..idx :
                i > StepBack(numbers, idx, expected) => numbers[i] > expected
           /\ \/ StepBack(numbers, idx, expected) = 1
              \/ numbers[StepBack(numbers, idx, expected)] <= expected
  <1> DEFINE T == {1} \cup {i \in 1..idx : numbers[i] <= expected}
  <1>1. idx \in Nat \ {0} /\ idx \in 1..Len(numbers) /\ Len(numbers) \in Nat
    BY LenProperties
  <1>2. \A i \in 1..idx : numbers[i] \in Nat
    BY <1>1, ElementOfSeq
  <1>3. T \in SUBSET (0..idx) /\ T # {}
    BY <1>1
  <1>4. Max(T) \in T /\ \A n \in T : n <= Max(T)
    <2> HIDE DEF T
    <2>1. QED
      BY <1>1, <1>3, MaxIs
  <1>5. StepBack(numbers, idx, expected) = Max(T)
    BY DEF StepBack
  <1> DEFINE back == Max(T)
  <1>6. back \in T /\ \A n \in T : n <= back
    BY <1>4
  <1> HIDE DEF back
  <1>7. back \in 1..idx /\ (back = 1 \/ numbers[back] <= expected)
    BY <1>1, <1>6
  <1>8. ASSUME NEW i \in 1..idx, i > back PROVE numbers[i] > expected
    <2>1. i \notin T
      BY <1>6, <1>7, <1>8
    <2>2. QED
      BY <1>2, <2>1
  <1>9. QED
    BY <1>5, <1>7, <1>8 DEF back

\* In ascending numbers it stops at the one expected, if that is not behind.
LEMMA StepBackFinds ==
    ASSUME NEW numbers \in Seq(Nat), Ascends(numbers),
           NEW idx \in DOMAIN numbers, NEW expected \in Nat,
           \A i \in DOMAIN numbers : i > idx => numbers[i] # expected,
           NEW i \in DOMAIN numbers, numbers[i] = expected
    PROVE  StepBack(numbers, idx, expected) = i
  <1> DEFINE back == StepBack(numbers, idx, expected)
  <1>1. DOMAIN numbers = 1..Len(numbers) /\ Len(numbers) \in Nat
    BY LenProperties
  <1>2. /\ back \in 1..idx
        /\ \A k \in 1..idx : k > back => numbers[k] > expected
        /\ back = 1 \/ numbers[back] <= expected
    BY StepBackIs
  <1> HIDE DEF back
  <1>3. i \in 1..idx /\ ~(i > back)
    BY <1>1, <1>2
  <1>4. CASE i < back
    <2>1. back \in DOMAIN numbers /\ numbers[i] < numbers[back]
      BY <1>1, <1>2, <1>4 DEF Ascends
    <2>2. numbers[back] <= expected /\ numbers[back] \in Nat
      BY <1>1, <1>2, <1>3, <1>4, <2>1, ElementOfSeq
    <2>3. QED
      BY <2>1, <2>2
  <1>5. QED
    BY <1>1, <1>2, <1>3, <1>4 DEF back

\* The number that is n before ack.
Before(ack, n) == (ack - n) % LONG

LEMMA BeforeIs ==
    ASSUME NEW ack \in 0..LONG - 1, NEW n \in 0..ACK_BITS, ACK_BITS <= LONG
    PROVE  /\ Before(ack, n) \in Nat
           /\ Before(ack, n) = IF n <= ack THEN ack - n ELSE LONG + ack - n
  <1>1. LONG \in Nat /\ ack \in Nat /\ n \in Nat /\ ACK_BITS \in Nat
    BY LongAssumption, AckBitsAssumption
  <1>2. CASE n <= ack
    <2>1. ack - n \in 0..LONG - 1
      BY <1>1, <1>2
    <2>2. QED
      BY <1>1, <1>2, <2>1 DEF Before
  <1>3. CASE n > ack
    <2>1. ack - n + LONG \in 0..LONG - 1 /\ ack - n \in -LONG..-1
      BY <1>1, <1>3
    <2>2. (ack - n) % LONG = ack - n + LONG
      BY <1>1, <2>1
    <2>3. QED
      BY <1>1, <1>3, <2>1, <2>2 DEF Before
  <1>4. QED
    BY <1>1, <1>2, <1>3

\* What is larger than a number of the window is none of those further back.
LEMMA BeforeDescends ==
    ASSUME NEW ack \in 0..LONG - 1, NEW n \in 0..ACK_BITS, NEW m \in 0..ACK_BITS, n < m,
           NEW number \in Nat, number < LONG - ACK_BITS, number > Before(ack, n)
    PROVE  number # Before(ack, m)
  <1>1. LONG \in Nat /\ ACK_BITS \in Nat /\ ACK_BITS <= LONG
    BY LongAssumption, AckBitsAssumption
  <1>2. /\ Before(ack, n) = IF n <= ack THEN ack - n ELSE LONG + ack - n
        /\ Before(ack, m) = IF m <= ack THEN ack - m ELSE LONG + ack - m
    BY <1>1, BeforeIs
  <1>3. QED
    BY <1>1, <1>2

\* Round k of the mask is about the number k before ack.
LEMMA BitsOfRounds ==
    /\ \A k \in 1..ACK_BITS :
        /\ ACK_BITS - k \in Bits
        /\ \A ack : NumberOfBit(ack, ACK_BITS - k) = Before(ack, k)
    /\ \A bit \in Bits : ACK_BITS - bit \in 1..ACK_BITS
  <1>1. ACK_BITS \in Nat
    BY AckBitsAssumption
  <1>2. \A k \in 1..ACK_BITS : ACK_BITS - (ACK_BITS - k) = k
    BY <1>1
  <1>3. QED
    BY <1>1, <1>2 DEF Bits, NumberOfBit, Before

\* The states of a scan for a mask.
LookState(data) == [idx : 1..Len(data), ackBits : SUBSET Bits]

\* A round of the scan keeps to the data.
LEMMA LookTyped ==
    ASSUME NEW data \in Seq(Nat), NEW ack \in 0..LONG - 1, ACK_BITS <= LONG,
           NEW scan \in LookState(data), NEW k \in 1..ACK_BITS
    PROVE  Look(data, ack, scan, ACK_BITS - k) \in LookState(data)
  <1> DEFINE expected == NumberOfBit(ack, ACK_BITS - k)
             back == StepBack(data, scan.idx, expected)
  <1>1. expected \in Nat
    <2>1. k \in 0..ACK_BITS
      OBVIOUS
    <2>2. QED
      BY <2>1, BitsOfRounds, BeforeIs
  <1>2. scan.idx \in DOMAIN data /\ scan.idx \in 1..Len(data) /\ Len(data) \in Nat
    BY LenProperties DEF LookState
  <1> HIDE DEF expected
  <1>3. back \in 1..scan.idx
    BY <1>1, <1>2, StepBackIs
  <1>4. scan.ackBits \in SUBSET Bits /\ ACK_BITS - k \in Bits
    BY BitsOfRounds DEF LookState
  <1> HIDE DEF back
  <1>5. back \in 1..Len(data)
    BY <1>2, <1>3
  <1>6. QED
    BY <1>4, <1>5 DEF Look, LookState, expected, back

\* The scan is what its rounds make of it.
LEMMA LookRoundsIs ==
    ASSUME NEW data \in Seq(Nat), data # <<>>, NEW ack \in 0..LONG - 1,
           ACK_BITS <= LONG
    PROVE  /\ LookRounds(data, ack) \in [0..ACK_BITS -> LookState(data)]
           /\ LookRounds(data, ack)[0] = [idx |-> Len(data), ackBits |-> {}]
           /\ \A k \in 1..ACK_BITS :
                LookRounds(data, ack)[k] =
                    Look(data, ack, LookRounds(data, ack)[k - 1], ACK_BITS - k)
  <1> DEFINE State == LookState(data)
             base == [idx |-> Len(data), ackBits |-> {}]
             step == [k \in 1..ACK_BITS |->
                        [scan \in State |-> Look(data, ack, scan, ACK_BITS - k)]]
  <1>1. base \in State
    <2>1. Len(data) \in 1..Len(data)
      BY EmptySeq
    <2>2. QED
      BY <2>1 DEF LookState
  <1>2. step \in [1..ACK_BITS -> [State -> State]]
    BY LookTyped
  <1>3. ACK_BITS \in Nat
    BY AckBitsAssumption
  <1>4. PICK f : Rounds(ACK_BITS, State, base, step, f)
    <2> HIDE DEF State, base, step
    <2>1. QED
      BY <1>1, <1>2, <1>3, Recursion
  <1>5. /\ f[0] = base
        /\ \A k \in 1..ACK_BITS : f[k] = Look(data, ack, f[k - 1], ACK_BITS - k)
    <2>1. \A k \in 1..ACK_BITS : f[k - 1] \in State
      BY <1>3, <1>4 DEF Rounds
    <2>2. QED
      BY <1>4, <2>1 DEF Rounds
  <1> HIDE DEF State, base, step
  <1> DEFINE Is(g) == g = [k \in 0..ACK_BITS |->
                IF k = 0 THEN base ELSE Look(data, ack, g[k - 1], ACK_BITS - k)]
  <1>6. \A k \in 0..ACK_BITS : k = 0 \/ k \in 1..ACK_BITS
    BY <1>3
  <1>7. Is(f)
    <2>1. \A k \in 0..ACK_BITS :
            f[k] = IF k = 0 THEN base ELSE Look(data, ack, f[k - 1], ACK_BITS - k)
      BY <1>5, <1>6
    <2>2. QED
      BY <1>4, <2>1 DEF Rounds
  <1>8. LookRounds(data, ack) = CHOOSE g : Is(g)
    BY DEF LookRounds, base
  <1> DEFINE rounds == LookRounds(data, ack)
  <1>9. Is(rounds)
    <2> HIDE DEF Is
    <2>1. QED
      BY <1>7, <1>8
  <1> HIDE DEF rounds
  <1>10. \A k \in 1..ACK_BITS : k \in 0..ACK_BITS /\ k # 0
    BY <1>3
  <1>11. /\ rounds[0] = base
         /\ \A k \in 1..ACK_BITS :
              rounds[k] = Look(data, ack, rounds[k - 1], ACK_BITS - k)
    BY <1>3, <1>9, <1>10
  <1>12. \A k \in 0..ACK_BITS : rounds[k] \in State
    <2>1. ASSUME NEW k \in 1..ACK_BITS, rounds[k - 1] \in State
          PROVE  rounds[k] \in State
      BY <1>11, <2>1, LookTyped DEF State
    <2>2. QED
      BY <1>1, <1>3, <1>11, <2>1, RoundsTyped
  <1>13. rounds \in [0..ACK_BITS -> State]
    BY <1>9, <1>12
  <1>14. QED
    BY <1>11, <1>13 DEF rounds, base, State

\* After round k the scan has found what is in data of the k numbers before ack,
\* and nothing further back is among the data that it has passed.
LookedThrough(data, ack, k, scan) ==
    /\ scan.ackBits = {bit \in Bits :
            ACK_BITS - k <= bit /\ NumberOfBit(ack, bit) \in ToSet(data)}
    /\ \A i \in DOMAIN data : i > scan.idx =>
            \A n \in k + 1..ACK_BITS : data[i] # Before(ack, n)

\* A round finds the one packet that it is about, if it is there.
LEMMA LookFinds ==
    ASSUME NEW data \in Seq(Nat), Ascends(data), NEW ack \in 0..LONG - 1,
           ACK_BITS <= LONG, \A i \in DOMAIN data : data[i] < LONG - ACK_BITS,
           NEW k \in 1..ACK_BITS, NEW scan \in LookState(data),
           LookedThrough(data, ack, k - 1, scan)
    PROVE  LookedThrough(data, ack, k, Look(data, ack, scan, ACK_BITS - k))
  <1> DEFINE bit == ACK_BITS - k
             expected == NumberOfBit(ack, bit)
             back == StepBack(data, scan.idx, expected)
  <1>1. /\ LONG \in Nat /\ ACK_BITS \in Nat \ {0}
        /\ DOMAIN data = 1..Len(data) /\ Len(data) \in Nat
        /\ \A i \in DOMAIN data : data[i] \in Nat
    BY LongAssumption, AckBitsAssumption, LenProperties, ElementOfSeq
  <1>2. bit \in Bits /\ expected = Before(ack, k) /\ k \in 0..ACK_BITS
    BY BitsOfRounds
  <1>3. expected \in Nat
    BY <1>2, BeforeIs
  <1>4. scan.idx \in DOMAIN data
    BY <1>1 DEF LookState
  <1>5. /\ scan.ackBits = {b \in Bits :
              ACK_BITS - (k - 1) <= b /\ NumberOfBit(ack, b) \in ToSet(data)}
        /\ \A i \in DOMAIN data : i > scan.idx =>
              \A n \in k..ACK_BITS : data[i] # Before(ack, n)
    <2>1. k - 1 + 1 = k
      OBVIOUS
    <2>2. QED
      BY <2>1 DEF LookedThrough
  <1>6. \A i \in DOMAIN data : i > scan.idx => data[i] # expected
    <2>1. k \in k..ACK_BITS
      BY <1>1
    <2>2. QED
      BY <1>2, <1>5, <2>1
  <1> HIDE DEF expected
  <1>7. /\ back \in 1..scan.idx
        /\ \A i \in 1..scan.idx : i > back => data[i] > expected
    BY <1>3, <1>4, StepBackIs
  <1>8. \A i \in DOMAIN data : data[i] = expected => back = i
    BY <1>3, <1>4, <1>6, StepBackFinds
  <1> HIDE DEF back
  <1>9. back \in DOMAIN data
    BY <1>1, <1>4, <1>7
  <1>10. data[back] = expected <=> expected \in ToSet(data)
    BY <1>8, <1>9 DEF ToSet
  <1> DEFINE next == Look(data, ack, scan, bit)
  <1>11. /\ next.idx = back
         /\ next.ackBits = IF expected \in ToSet(data)
                           THEN scan.ackBits \cup {bit} ELSE scan.ackBits
    BY <1>10 DEF Look, back, expected
  <1>12. \A b \in Bits : ACK_BITS - k <= b <=> ACK_BITS - (k - 1) <= b \/ b = bit
    BY <1>1 DEF Bits
  <1> HIDE DEF next, bit
  <1>13. next.ackBits = {b \in Bits :
                ACK_BITS - k <= b /\ NumberOfBit(ack, b) \in ToSet(data)}
    BY <1>2, <1>5, <1>11, <1>12 DEF expected
  <1>14. ASSUME NEW i \in DOMAIN data, i > back, NEW n \in k + 1..ACK_BITS
         PROVE  data[i] # Before(ack, n)
    <2>1. CASE i > scan.idx
      <3>1. n \in k..ACK_BITS
        BY <1>1
      <3>2. QED
        BY <1>5, <2>1, <3>1
    <2>2. CASE ~(i > scan.idx)
      <3>1. data[i] > Before(ack, k)
        BY <1>1, <1>2, <1>4, <1>7, <1>14, <2>2
      <3>2. n \in 0..ACK_BITS /\ k < n
        BY <1>1
      <3>3. QED
        BY <1>1, <1>2, <3>1, <3>2, BeforeDescends
    <2>3. QED
      BY <2>1, <2>2
  <1>15. LookedThrough(data, ack, k, next)
    BY <1>11, <1>13, <1>14 DEF LookedThrough
  <1>16. QED
    BY <1>15 DEF next, bit

\* The backward scan of ComputeAckBits names exactly the packets received of
\* the ACK_BITS before ack, for every ascending sequence of numbers that are
\* not about to overflow.
THEOREM AckBitsAreExact ==
    ASSUME NEW data \in Seq(Nat), Ascends(data), NEW ack \in 0..LONG - 1,
           \A i \in DOMAIN data : data[i] < LONG - ACK_BITS
    PROVE  ComputeAckBits(data, ack) = AckBitsOf(ToSet(data), ack)
  <1>1. CASE data = <<>>
    <2>1. ToSet(data) = {}
      BY <1>1, EmptySeq, LenProperties DEF ToSet
    <2>2. QED
      BY <1>1, <2>1 DEF ComputeAckBits, AckBitsOf
  <1>2. CASE data # <<>>
    <2> DEFINE rounds == LookRounds(data, ack)
               T == {k \in 0..ACK_BITS : LookedThrough(data, ack, k, rounds[k])}
    <2>1. /\ ACK_BITS \in Nat /\ LONG \in Nat
          /\ DOMAIN data = 1..Len(data) /\ Len(data) \in Nat \ {0}
          /\ \A i \in DOMAIN data : data[i] \in Nat
      BY <1>2, AckBitsAssumption, LongAssumption, LenProperties, EmptySeq, ElementOfSeq
    <2>2. ACK_BITS <= LONG
      <3>1. 1 \in DOMAIN data
        BY <2>1
      <3>2. QED
        BY <2>1, <3>1
    <2>3. /\ rounds \in [0..ACK_BITS -> LookState(data)]
          /\ rounds[0] = [idx |-> Len(data), ackBits |-> {}]
          /\ \A k \in 1..ACK_BITS :
                rounds[k] = Look(data, ack, rounds[k - 1], ACK_BITS - k)
      BY <1>2, <2>2, LookRoundsIs
    <2> HIDE DEF rounds
    <2>4. 0 \in T
      <3>1. \A bit \in Bits : ~(ACK_BITS - 0 <= bit)
        BY <2>1 DEF Bits
      <3>2. LookedThrough(data, ack, 0, [idx |-> Len(data), ackBits |-> {}])
        BY <2>1, <3>1 DEF LookedThrough
      <3>3. LookedThrough(data, ack, 0, rounds[0])
        BY <2>3, <3>2
      <3>4. QED
        BY <2>1, <3>3
    <2>5. ASSUME NEW k \in 0..ACK_BITS - 1, k \in T PROVE k + 1 \in T
      <3>1. k + 1 \in 1..ACK_BITS /\ k + 1 - 1 = k /\ k + 1 \in 0..ACK_BITS
        BY <2>1
      <3>2. rounds[k] \in LookState(data)
        BY <2>1, <2>3
      <3>3. LookedThrough(data, ack, k + 1 - 1, rounds[k])
        BY <2>5, <3>1
      <3>4. LookedThrough(data, ack, k + 1,
                          Look(data, ack, rounds[k], ACK_BITS - (k + 1)))
        BY <2>2, <3>1, <3>2, <3>3, LookFinds
      <3>5. rounds[k + 1] = Look(data, ack, rounds[k], ACK_BITS - (k + 1))
        BY <2>3, <3>1
      <3>6. QED
        BY <3>1, <3>4, <3>5
    <2>6. \A k \in 0..ACK_BITS : k \in T
      <3> HIDE DEF T
      <3>1. \A k \in 0..ACK_BITS - 1 : k \in T => k + 1 \in T
        BY <2>5
      <3>2. QED
        BY <2>1, <2>4, <3>1, Induction
    <2>7. rounds[ACK_BITS].ackBits = {bit \in Bits :
              ACK_BITS - ACK_BITS <= bit /\ NumberOfBit(ack, bit) \in ToSet(data)}
      BY <2>1, <2>6 DEF LookedThrough
    <2>8. \A bit \in Bits : ACK_BITS - ACK_BITS <= bit
      BY <2>1 DEF Bits
    <2>9. QED
      BY <1>2, <2>7, <2>8 DEF ComputeAckBits, AckBitsOf, rounds
  <1>3. QED
    BY <1>1, <1>2

-----------------------------------------------------------------------------
(* VerifyAck. *)

\* The same packets, whatever was acknowledged of them.
SamePackets(data) ==
    {other \in Seq(PacketInfo) :
        Len(other) = Len(data) /\ NumbersOf(other) = NumbersOf(data)}
MarkState(data) == [idx : 1..Len(data), data : SamePackets(data)]

LEMMA NumbersTyped ==
    ASSUME NEW data \in Seq(PacketInfo)
    PROVE  /\ NumbersOf(data) \in Seq(Nat)
           /\ DOMAIN NumbersOf(data) = DOMAIN data /\ DOMAIN data = 1..Len(data)
           /\ Len(data) \in Nat
           /\ \A i \in DOMAIN data : data[i] \in PacketInfo
           /\ \A i \in DOMAIN data :
                /\ NumbersOf(data)[i] = data[i].seqNum
                /\ data[i].seqNum \in Nat /\ data[i].acknowledged \in BOOLEAN
  <1>1. DOMAIN data = 1..Len(data) /\ Len(data) \in Nat
    BY LenProperties
  <1>2. \A i \in DOMAIN data : data[i] \in PacketInfo
    BY <1>1, ElementOfSeq
  <1>3. \A i \in DOMAIN data : data[i].seqNum \in Nat /\ data[i].acknowledged \in BOOLEAN
    BY <1>2 DEF PacketInfo
  <1> DEFINE n == Len(data)
             number(i) == data[i].seqNum
  <1>4. NumbersOf(data) = [i \in 1..n |-> number(i)] /\ \A i \in 1..n : number(i) \in Nat
    BY <1>1, <1>3 DEF NumbersOf
  <1>5. [i \in 1..n |-> number(i)] \in Seq(Nat)
    <2> HIDE DEF number
    <2>1. [i \in 1..n |-> number(i)] \in [1..n -> Nat]
      BY <1>4
    <2>2. QED
      BY <1>1, <2>1 
  <1>6. QED
    BY <1>1, <1>2, <1>3, <1>4, <1>5 DEF NumbersOf

\* The packets with one of them acknowledged.
Marked(data, i) == [data EXCEPT ![i].acknowledged = TRUE]

\* Where a round of the marking looks, and whether it marks what is there.
MarkAt(data, ack, scan, k) ==
    StepBack(NumbersOf(data), scan.idx, Before(ack, k - 1))
MarksAt(data, ack, ackBits, scan, k) ==
    /\ NumbersOf(data)[MarkAt(data, ack, scan, k)] = Before(ack, k - 1)
    /\ RoundIsAck(ackBits, ACK_BITS - k)

\* Round k of the marking is about the number k - 1 before ack.
LEMMA MarkIs ==
    ASSUME NEW data \in Seq(PacketInfo), NEW ack, NEW ackBits,
           NEW scan \in MarkState(data), NEW k \in 1..ACK_BITS
    PROVE  Mark(ack, ackBits, scan, ACK_BITS - k) =
            [idx |-> MarkAt(data, ack, scan, k),
             data |-> IF MarksAt(data, ack, ackBits, scan, k)
                      THEN Marked(scan.data, MarkAt(data, ack, scan, k))
                      ELSE scan.data]
  <1>1. ACK_BITS \in Nat
    BY AckBitsAssumption
  <1>2. (ack - (ACK_BITS - 1 - (ACK_BITS - k))) % LONG = Before(ack, k - 1)
    <2>1. ACK_BITS - 1 - (ACK_BITS - k) = k - 1
      BY <1>1
    <2>2. QED
      BY <2>1 DEF Before
  <1>3. [i \in DOMAIN scan.data |-> scan.data[i].seqNum] = NumbersOf(data)
    BY DEF MarkState, SamePackets, NumbersOf
  <1>4. QED
    BY <1>2, <1>3 DEF Mark, MarkAt, MarksAt, Marked

\* A packet that is marked stays the same packet.
LEMMA MarkSame ==
    ASSUME NEW data \in Seq(PacketInfo), NEW other \in SamePackets(data),
           NEW i \in 1..Len(data)
    PROVE  Marked(other, i) \in SamePackets(data)
  <1> DEFINE new == [other EXCEPT ![i].acknowledged = TRUE]
  <1>1. /\ other \in Seq(PacketInfo) /\ Len(other) = Len(data)
        /\ NumbersOf(other) = NumbersOf(data)
    BY DEF SamePackets
  <1>2. /\ DOMAIN other = 1..Len(data) /\ other = [j \in 1..Len(data) |-> other[j]]
        /\ \A j \in 1..Len(data) : other[j] \in PacketInfo
    BY <1>1, NumbersTyped
  <1>3. /\ DOMAIN new = 1..Len(data)
        /\ \A j \in 1..Len(data) :
             /\ new[j] = IF j = i THEN [other[i] EXCEPT !.acknowledged = TRUE] ELSE other[j]
             /\ new[j] \in PacketInfo /\ new[j].seqNum = other[j].seqNum
    BY <1>2 DEF PacketInfo
  <1>4. new = [j \in 1..Len(data) |-> new[j]]
    BY <1>2
  <1> HIDE DEF new
  <1>5. Len(data) \in Nat
    BY LenProperties
  <1>6. new \in Seq(PacketInfo) /\ Len(new) = Len(data)
    <2> DEFINE n == Len(data)
    <2>1. new \in [1..n -> PacketInfo]
      BY <1>3, <1>4
    <2> HIDE DEF n
    <2>2. new \in Seq(PacketInfo)
      BY <1>5, <2>1 DEF n
    <2>3. DOMAIN new = 1..Len(new) /\ Len(new) \in Nat
      BY <2>2, LenProperties
    <2>4. QED
      BY <1>3, <1>5, <2>2, <2>3
  <1>7. NumbersOf(new) = NumbersOf(other)
    BY <1>2, <1>3 DEF NumbersOf
  <1>8. QED
    BY <1>1, <1>6, <1>7 DEF SamePackets, new, Marked

LEMMA MarkTyped ==
    ASSUME NEW data \in Seq(PacketInfo), NEW ack \in 0..LONG - 1, ACK_BITS <= LONG,
           NEW ackBits, NEW scan \in MarkState(data), NEW k \in 1..ACK_BITS
    PROVE  /\ Mark(ack, ackBits, scan, ACK_BITS - k) \in MarkState(data)
           /\ MarkAt(data, ack, scan, k) \in 1..scan.idx
           /\ Before(ack, k - 1) \in Nat
  <1> DEFINE back == MarkAt(data, ack, scan, k)
  <1>1. /\ scan.idx \in 1..Len(data) /\ Len(data) \in Nat
        /\ scan.data \in SamePackets(data)
    BY LenProperties DEF MarkState
  <1>2. Before(ack, k - 1) \in Nat
    <2>1. k - 1 \in 0..ACK_BITS
      BY AckBitsAssumption
    <2>2. QED
      BY <2>1, BeforeIs
  <1>3. back \in 1..scan.idx
    BY <1>1, <1>2, NumbersTyped, StepBackIs DEF MarkAt
  <1>4. back \in 1..Len(data)
    BY <1>1, <1>3
  <1>5. Marked(scan.data, back) \in SamePackets(data)
    <2> HIDE DEF back
    <2>1. QED
      BY <1>1, <1>4, MarkSame
  <1>6. PICK d \in SamePackets(data) :
            Mark(ack, ackBits, scan, ACK_BITS - k) = [idx |-> back, data |-> d]
    <2>1. CASE MarksAt(data, ack, ackBits, scan, k)
      BY <1>5, <2>1, MarkIs
    <2>2. CASE ~MarksAt(data, ack, ackBits, scan, k)
      BY <1>1, <2>2, MarkIs
    <2>3. QED
      BY <2>1, <2>2
  <1> HIDE DEF back
  <1>7. Mark(ack, ackBits, scan, ACK_BITS - k) \in MarkState(data)
    BY <1>4, <1>6 DEF MarkState
  <1>8. QED
    BY <1>2, <1>3, <1>7 DEF back

\* The scan is what its rounds make of it.
LEMMA MarkRoundsIs ==
    ASSUME NEW data \in Seq(PacketInfo), data # <<>>, NEW ack \in 0..LONG - 1,
           ACK_BITS <= LONG, NEW ackBits
    PROVE  /\ MarkRounds(data, ack, ackBits) \in [0..ACK_BITS -> MarkState(data)]
           /\ MarkRounds(data, ack, ackBits)[0] = [idx |-> Len(data), data |-> data]
           /\ \A k \in 1..ACK_BITS :
                MarkRounds(data, ack, ackBits)[k] =
                    Mark(ack, ackBits, MarkRounds(data, ack, ackBits)[k - 1], ACK_BITS - k)
  <1> DEFINE State == MarkState(data)
             base == [idx |-> Len(data), data |-> data]
             step == [k \in 1..ACK_BITS |->
                        [scan \in State |-> Mark(ack, ackBits, scan, ACK_BITS - k)]]
  <1>1. base \in State
    <2>1. Len(data) \in 1..Len(data) /\ data \in SamePackets(data)
      BY EmptySeq DEF SamePackets
    <2>2. QED
      BY <2>1 DEF MarkState
  <1>2. step \in [1..ACK_BITS -> [State -> State]]
    BY MarkTyped
  <1>3. ACK_BITS \in Nat
    BY AckBitsAssumption
  <1>4. PICK f : Rounds(ACK_BITS, State, base, step, f)
    <2> HIDE DEF State, base, step
    <2>1. QED
      BY <1>1, <1>2, <1>3, Recursion
  <1>5. /\ f[0] = base
        /\ \A k \in 1..ACK_BITS : f[k] = Mark(ack, ackBits, f[k - 1], ACK_BITS - k)
    <2>1. \A k \in 1..ACK_BITS : f[k - 1] \in State
      BY <1>3, <1>4 DEF Rounds
    <2>2. QED
      BY <1>4, <2>1 DEF Rounds
  <1> HIDE DEF State, base, step
  <1> DEFINE Is(g) == g = [k \in 0..ACK_BITS |->
                IF k = 0 THEN base ELSE Mark(ack, ackBits, g[k - 1], ACK_BITS - k)]
  <1>6. \A k \in 0..ACK_BITS : k = 0 \/ k \in 1..ACK_BITS
    BY <1>3
  <1>7. Is(f)
    <2>1. \A k \in 0..ACK_BITS :
            f[k] = IF k = 0 THEN base ELSE Mark(ack, ackBits, f[k - 1], ACK_BITS - k)
      BY <1>5, <1>6
    <2>2. QED
      BY <1>4, <2>1 DEF Rounds
  <1>8. MarkRounds(data, ack, ackBits) = CHOOSE g : Is(g)
    BY DEF MarkRounds, base
  <1> DEFINE rounds == MarkRounds(data, ack, ackBits)
  <1>9. Is(rounds)
    <2> HIDE DEF Is
    <2>1. QED
      BY <1>7, <1>8
  <1> HIDE DEF rounds
  <1>10. \A k \in 1..ACK_BITS : k \in 0..ACK_BITS /\ k # 0
    BY <1>3
  <1>11. /\ rounds[0] = base
         /\ \A k \in 1..ACK_BITS :
              rounds[k] = Mark(ack, ackBits, rounds[k - 1], ACK_BITS - k)
    BY <1>3, <1>9, <1>10
  <1>12. \A k \in 0..ACK_BITS : rounds[k] \in State
    <2>1. ASSUME NEW k \in 1..ACK_BITS, rounds[k - 1] \in State
          PROVE  rounds[k] \in State
      BY <1>11, <2>1, MarkTyped DEF State
    <2>2. QED
      BY <1>1, <1>3, <1>11, <2>1, RoundsTyped
  <1>13. rounds \in [0..ACK_BITS -> State]
    BY <1>9, <1>12
  <1>14. QED
    BY <1>11, <1>13 DEF rounds, base, State

\* The numbers that the first k rounds acknowledge, and data with these marked.
RoundNames(ack, ackBits, k) ==
    {Before(ack, n - 1) : n \in {m \in 1..k : RoundIsAck(ackBits, ACK_BITS - m)}}
Flagged(data, numbers) ==
    [i \in DOMAIN data |->
        [seqNum |-> data[i].seqNum,
         acknowledged |-> data[i].acknowledged \/ data[i].seqNum \in numbers]]

\* After round k these are marked, and nothing further back is among the data
\* that the scan has passed.
MarkedThrough(data, ack, ackBits, k, scan) ==
    /\ scan.data = Flagged(data, RoundNames(ack, ackBits, k))
    /\ \A i \in DOMAIN data : i > scan.idx =>
            \A n \in k..ACK_BITS : data[i].seqNum # Before(ack, n)

\* A round adds the number that it is about, or nothing.
LEMMA RoundNamesOn ==
    ASSUME NEW ack, NEW ackBits, NEW k \in 1..ACK_BITS
    PROVE  RoundNames(ack, ackBits, k) =
            RoundNames(ack, ackBits, k - 1) \cup
                (IF RoundIsAck(ackBits, ACK_BITS - k) THEN {Before(ack, k - 1)} ELSE {})
  <1>1. \A m : m \in 1..k <=> m \in 1..k - 1 \/ m = k
    BY AckBitsAssumption
  <1>2. QED
    BY <1>1 DEF RoundNames

\* Marking one more packet is naming its number, if no other has that number.
LEMMA MarkedFlagged ==
    ASSUME NEW data \in Seq(PacketInfo), NEW names, NEW number,
           NEW i \in DOMAIN data, data[i].seqNum = number,
           \A j \in DOMAIN data : data[j].seqNum = number => j = i,
           NEW more, more = names \cup {number}
    PROVE  Marked(Flagged(data, names), i) = Flagged(data, more)
  <1> DEFINE D == DOMAIN data
             old == Flagged(data, names)
             new == Flagged(data, more)
             flag(j) == data[j].acknowledged \/ data[j].seqNum \in names
  <1>1. /\ \A j \in D : data[j].seqNum \in Nat /\ flag(j) \in BOOLEAN
        /\ \A j \in D : old[j] = [seqNum |-> data[j].seqNum, acknowledged |-> flag(j)]
        /\ DOMAIN old = D /\ old = [j \in D |-> old[j]]
        /\ DOMAIN new = D /\ new = [j \in D |-> new[j]]
    BY NumbersTyped DEF Flagged
  <1>2. \A j \in D : new[j] = [seqNum |-> data[j].seqNum, acknowledged |-> flag(j) \/ j = i]
    <2> SUFFICES ASSUME NEW j \in D
                 PROVE  new[j] = [seqNum |-> data[j].seqNum, acknowledged |-> flag(j) \/ j = i]
      OBVIOUS
    <2>1. data[j].seqNum \in more <=> data[j].seqNum \in names \/ j = i
      OBVIOUS
    <2>2. (data[j].acknowledged \/ data[j].seqNum \in more) = (flag(j) \/ j = i)
      BY <1>1, <2>1
    <2>3. new[j] = [seqNum |-> data[j].seqNum,
                    acknowledged |-> data[j].acknowledged \/ data[j].seqNum \in more]
      BY DEF Flagged
    <2>4. QED
      BY <2>2, <2>3, Zenon
  <1> HIDE DEF D, old, new, flag
  <1>3. old \in [D -> PacketInfo]
    BY <1>1 DEF PacketInfo
  <1>4. \A j \in D : Marked(old, i)[j] =
          [seqNum |-> old[j].seqNum, acknowledged |-> old[j].acknowledged \/ j = i]
    BY <1>3 DEF Marked, PacketInfo, D
  <1>5. \A j \in D : Marked(old, i)[j] = new[j]
    <2> SUFFICES ASSUME NEW j \in D PROVE Marked(old, i)[j] = new[j]
      OBVIOUS
    <2>1. old[j].seqNum = data[j].seqNum /\ old[j].acknowledged = flag(j)
      BY <1>1
    <2>2. QED
      BY <1>2, <1>4, <2>1, Zenon
  <1>6. Marked(old, i) = [j \in D |-> Marked(old, i)[j]]
    BY <1>1 DEF Marked
  <1>7. QED
    BY <1>1, <1>5, <1>6 DEF old, new

\* A round marks the one packet that it is about, if it is there.
LEMMA MarkFinds ==
    ASSUME NEW data \in Seq(PacketInfo), Ascends(NumbersOf(data)),
           NEW ack \in 0..LONG - 1, NEW ackBits, ACK_BITS <= LONG,
           \A i \in DOMAIN data : data[i].seqNum < LONG - ACK_BITS,
           NEW k \in 1..ACK_BITS, NEW scan \in MarkState(data),
           MarkedThrough(data, ack, ackBits, k - 1, scan)
    PROVE  MarkedThrough(data, ack, ackBits, k,
                         Mark(ack, ackBits, scan, ACK_BITS - k))
  <1> DEFINE numbers == NumbersOf(data)
             expected == Before(ack, k - 1)
             back == MarkAt(data, ack, scan, k)
             names == RoundNames(ack, ackBits, k - 1)
             isAck == RoundIsAck(ackBits, ACK_BITS - k)
  <1>1. /\ LONG \in Nat /\ ACK_BITS \in Nat \ {0}
        /\ DOMAIN data = 1..Len(data) /\ Len(data) \in Nat
        /\ numbers \in Seq(Nat) /\ DOMAIN numbers = DOMAIN data
        /\ \A i \in DOMAIN data :
             numbers[i] = data[i].seqNum /\ data[i].seqNum \in Nat
    BY LongAssumption, AckBitsAssumption, NumbersTyped
  <1>2. /\ expected \in Nat /\ back \in 1..scan.idx
        /\ scan.idx \in DOMAIN numbers
    BY <1>1, MarkTyped DEF MarkState
  <1>3. /\ scan.data = Flagged(data, names)
        /\ \A i \in DOMAIN data : i > scan.idx =>
              \A n \in k - 1..ACK_BITS : data[i].seqNum # Before(ack, n)
    BY DEF MarkedThrough
  <1>4. \A i \in DOMAIN numbers : i > scan.idx => numbers[i] # expected
    <2>1. k - 1 \in k - 1..ACK_BITS
      BY <1>1
    <2>2. QED
      BY <1>1, <1>3, <2>1
  <1>5. back = StepBack(numbers, scan.idx, expected)
    BY DEF MarkAt
  <1>6. MarksAt(data, ack, ackBits, scan, k) <=> numbers[back] = expected /\ isAck
    BY DEF MarksAt
  <1>7. Mark(ack, ackBits, scan, ACK_BITS - k) =
          [idx |-> back,
           data |-> IF MarksAt(data, ack, ackBits, scan, k)
                    THEN Marked(scan.data, back)
                    ELSE scan.data]
    BY MarkIs
  <1>8. RoundNames(ack, ackBits, k) =
            names \cup (IF isAck THEN {expected} ELSE {})
    BY RoundNamesOn
  <1>17. Ascends(numbers)
    OBVIOUS
  <1> HIDE DEF numbers, expected, back, names, isAck
  <1>9. \A i \in 1..scan.idx : i > back => numbers[i] > expected
    BY <1>1, <1>2, <1>5, StepBackIs
  <1>10. \A i \in DOMAIN numbers : numbers[i] = expected => back = i
    BY <1>1, <1>2, <1>4, <1>5, <1>17, StepBackFinds
  <1>11. back \in DOMAIN data
    BY <1>1, <1>2
  <1> DEFINE next == Mark(ack, ackBits, scan, ACK_BITS - k)
  <1>12. next.data = Flagged(data, RoundNames(ack, ackBits, k))
    <2>1. CASE numbers[back] = expected /\ isAck
      <3>1. next.data = Marked(Flagged(data, names), back)
        BY <1>3, <1>6, <1>7, <2>1
      <3>2. \A i \in DOMAIN data : data[i].seqNum = expected => i = back
        BY <1>1, <1>10, <2>1
      <3>3. RoundNames(ack, ackBits, k) = names \cup {expected}
        BY <1>8, <2>1
      <3>4. Marked(Flagged(data, names), back) = Flagged(data, names \cup {expected})
        <4>1. data[back].seqNum = expected
          BY <1>1, <1>11, <2>1
        <4> DEFINE more == names \cup {expected}
        <4> HIDE DEF more
        <4>2. Marked(Flagged(data, names), back) = Flagged(data, more)
          BY <1>11, <3>2, <4>1, MarkedFlagged DEF more
        <4>3. QED
          BY <4>2 DEF more
      <3>5. QED
        BY <3>1, <3>3, <3>4
    <2>2. CASE ~(numbers[back] = expected /\ isAck)
      <3>1. next.data = Flagged(data, names)
        BY <1>3, <1>6, <1>7, <2>2
      <3>2. \A i \in DOMAIN data :
              data[i].seqNum \in RoundNames(ack, ackBits, k)
                <=> data[i].seqNum \in names
        BY <1>1, <1>8, <1>10, <2>2
      <3>3. QED
        BY <3>1, <3>2 DEF Flagged
    <2>3. QED
      BY <2>1, <2>2
  <1>13. next.idx = back
    BY <1>7
  <1> HIDE DEF next
  <1>14. ASSUME NEW i \in DOMAIN data, i > back, NEW n \in k..ACK_BITS
         PROVE  data[i].seqNum # Before(ack, n)
    <2>1. CASE i > scan.idx
      <3>1. n \in k - 1..ACK_BITS
        BY <1>1
      <3>2. QED
        BY <1>3, <2>1, <3>1
    <2>2. CASE ~(i > scan.idx)
      <3>1. data[i].seqNum > Before(ack, k - 1)
        <4>1. i \in 1..scan.idx
          BY <1>1, <1>2, <2>2
        <4>2. numbers[i] > expected /\ numbers[i] = data[i].seqNum
          BY <1>1, <1>9, <1>14, <4>1
        <4>3. QED
          BY <4>2 DEF expected
      <3>2. n \in 0..ACK_BITS /\ k - 1 \in 0..ACK_BITS /\ k - 1 < n
        BY <1>1
      <3>3. QED
        BY <1>1, <3>1, <3>2, BeforeDescends
    <2>3. QED
      BY <2>1, <2>2
  <1>15. MarkedThrough(data, ack, ackBits, k, next)
    BY <1>12, <1>13, <1>14 DEF MarkedThrough
  <1>16. QED
    BY <1>15 DEF next

\* The backward scan of VerifyAck marks exactly the packets that its rounds
\* name, and unmarks none, for every ascending sequence of packets that are not
\* about to overflow.
THEOREM VerifyAckIsExact ==
    ASSUME NEW data \in Seq(PacketInfo), Ascends(NumbersOf(data)),
           NEW ack \in 0..LONG - 1, NEW ackBits,
           \A i \in DOMAIN data : data[i].seqNum < LONG - ACK_BITS
    PROVE  VerifyAck(data, ack, ackBits) = Flagged(data, AckedBy(ack, ackBits))
  <1>1. CASE data = <<>>
    <2>1. DOMAIN data = {}
      BY <1>1, EmptySeq, LenProperties
    <2>2. Flagged(data, AckedBy(ack, ackBits)) = data
      BY <2>1 DEF Flagged
    <2>3. QED
      BY <1>1, <2>2 DEF VerifyAck
  <1>2. CASE data # <<>>
    <2> DEFINE rounds == MarkRounds(data, ack, ackBits)
               T == {k \in 0..ACK_BITS : MarkedThrough(data, ack, ackBits, k, rounds[k])}
    <2>1. /\ ACK_BITS \in Nat /\ LONG \in Nat
          /\ DOMAIN data = 1..Len(data) /\ Len(data) \in Nat \ {0}
          /\ \A i \in DOMAIN data :
               /\ data[i] = [seqNum |-> data[i].seqNum,
                             acknowledged |-> data[i].acknowledged]
               /\ data[i].seqNum \in Nat /\ data[i].acknowledged \in BOOLEAN
      BY <1>2, AckBitsAssumption, LongAssumption, EmptySeq, NumbersTyped DEF PacketInfo
    <2>2. ACK_BITS <= LONG
      <3>1. 1 \in DOMAIN data
        BY <2>1
      <3>2. QED
        BY <2>1, <3>1
    <2>3. /\ rounds \in [0..ACK_BITS -> MarkState(data)]
          /\ rounds[0] = [idx |-> Len(data), data |-> data]
          /\ \A k \in 1..ACK_BITS :
                rounds[k] = Mark(ack, ackBits, rounds[k - 1], ACK_BITS - k)
      BY <1>2, <2>2, MarkRoundsIs
    <2> HIDE DEF rounds
    <2>4. 0 \in T
      <3>1. RoundNames(ack, ackBits, 0) = {}
        BY DEF RoundNames
      <3>2. Flagged(data, {}) = data
        <4>1. data = [i \in DOMAIN data |-> data[i]]
          BY <2>1
        <4>2. QED
          BY <2>1, <4>1 DEF Flagged
      <3>3. MarkedThrough(data, ack, ackBits, 0, rounds[0])
        <4>1. rounds[0].idx = Len(data) /\ rounds[0].data = data
          BY <2>3
        <4>2. \A i \in DOMAIN data : ~(i > Len(data))
          BY <2>1
        <4>3. QED
          BY <3>1, <3>2, <4>1, <4>2, Zenon DEF MarkedThrough
      <3>4. QED
        BY <2>1, <3>3
    <2>5. ASSUME NEW k \in 0..ACK_BITS - 1, k \in T PROVE k + 1 \in T
      <3>1. k + 1 \in 1..ACK_BITS /\ k + 1 - 1 = k /\ k + 1 \in 0..ACK_BITS
        BY <2>1
      <3>2. rounds[k] \in MarkState(data)
        BY <2>1, <2>3
      <3>3. MarkedThrough(data, ack, ackBits, k + 1 - 1, rounds[k])
        BY <2>5, <3>1
      <3>4. MarkedThrough(data, ack, ackBits, k + 1,
                          Mark(ack, ackBits, rounds[k], ACK_BITS - (k + 1)))
        BY <2>2, <3>1, <3>2, <3>3, MarkFinds
      <3>5. rounds[k + 1] = Mark(ack, ackBits, rounds[k], ACK_BITS - (k + 1))
        BY <2>3, <3>1
      <3>6. QED
        BY <3>1, <3>4, <3>5
    <2>6. \A k \in 0..ACK_BITS : k \in T
      <3> HIDE DEF T
      <3>1. \A k \in 0..ACK_BITS - 1 : k \in T => k + 1 \in T
        BY <2>5
      <3>2. QED
        BY <2>1, <2>4, <3>1, Induction
    <2>7. rounds[ACK_BITS].data = Flagged(data, RoundNames(ack, ackBits, ACK_BITS))
      BY <2>1, <2>6 DEF MarkedThrough
    <2>8. RoundNames(ack, ackBits, ACK_BITS) = AckedBy(ack, ackBits)
      <3>1. \A n \in 1..ACK_BITS :
              ACK_BITS - n \in Bits /\ ACK_BITS - 1 - (ACK_BITS - n) = n - 1
        BY <2>1 DEF Bits
      <3>2. \A bit \in Bits :
              ACK_BITS - bit \in 1..ACK_BITS /\ ACK_BITS - (ACK_BITS - bit) = bit
                /\ ACK_BITS - 1 - bit = ACK_BITS - bit - 1
        BY <2>1 DEF Bits
      <3>3. QED
        BY <3>1, <3>2 DEF RoundNames, AckedBy, Before
    <2>9. QED
      BY <1>2, <2>7, <2>8 DEF VerifyAck, rounds
  <1>3. QED
    BY <1>1, <1>2

-----------------------------------------------------------------------------
(* StoreAcks. *)

LEMMA InsertNumberTyped ==
    ASSUME NEW S, NEW stored \in Seq(S), NEW number \in S
    PROVE  InsertNumber(stored, number) \in Seq(S)
  <1>1. Append(stored, number) \in Seq(S)
    BY AppendProperties
  <1>2. QED
    BY <1>1 DEF InsertNumber

\* What StoreAcks has stored is from any set that has what was stored before,
\* ack, and what the mask names.
LEMMA StoreAcksTyped ==
    ASSUME NEW S, NEW data \in Seq(S), NEW ack \in S, NEW isSet,
           \A bit \in Bits \cap isSet : NumberOfBit(ack, bit) \in S
    PROVE  StoreAcks(data, ack, isSet) \in Seq(S)
  <1> DEFINE State == Seq(S)
             base == InsertNumber(data, ack)
             next(stored, k) ==
                IF ACK_BITS - k \in isSet
                THEN InsertNumber(stored, NumberOfBit(ack, ACK_BITS - k)) ELSE stored
             step == [k \in 1..ACK_BITS |-> [stored \in State |-> next(stored, k)]]
  <1>1. ACK_BITS \in Nat
    BY AckBitsAssumption
  <1>2. base \in State
    BY InsertNumberTyped
  <1>3. ASSUME NEW k \in 1..ACK_BITS, NEW stored \in State PROVE next(stored, k) \in State
    <2>1. CASE ACK_BITS - k \in isSet
      <3>1. ACK_BITS - k \in Bits \cap isSet
        BY <2>1, BitsOfRounds
      <3>2. NumberOfBit(ack, ACK_BITS - k) \in S
        BY <3>1
      <3>3. InsertNumber(stored, NumberOfBit(ack, ACK_BITS - k)) \in State
        BY <3>2, InsertNumberTyped
      <3>4. QED
        BY <2>1, <3>3
    <2>2. CASE ACK_BITS - k \notin isSet
      BY <2>2
    <2>3. QED
      BY <2>1, <2>2
  <1> HIDE DEF State, base, next
  <1>4. step \in [1..ACK_BITS -> [State -> State]]
    BY <1>3
  <1>5. PICK f : Rounds(ACK_BITS, State, base, step, f)
    <2> HIDE DEF step
    <2>1. QED
      BY <1>1, <1>2, <1>4, Recursion
  <1>6. \A k \in 1..ACK_BITS : f[k] = next(f[k - 1], k)
    <2>1. \A k \in 1..ACK_BITS : k - 1 \in 0..ACK_BITS
      BY <1>1
    <2>2. \A k \in 1..ACK_BITS : f[k - 1] \in State
      BY <1>5, <2>1 DEF Rounds
    <2>3. QED
      BY <1>5, <2>2 DEF Rounds
  <1> DEFINE Is(g) == g = [k \in 0..ACK_BITS |-> IF k = 0 THEN base ELSE next(g[k - 1], k)]
  <1>7. Is(f)
    <2>1. \A k \in 0..ACK_BITS : k = 0 \/ k \in 1..ACK_BITS
      BY <1>1
    <2>2. \A k \in 0..ACK_BITS : f[k] = IF k = 0 THEN base ELSE next(f[k - 1], k)
      BY <1>5, <1>6, <2>1 DEF Rounds
    <2>3. QED
      BY <1>5, <2>2 DEF Rounds
  <1>8. StoreRounds(data, ack, isSet) = CHOOSE g : Is(g)
    BY DEF StoreRounds, base, next
  <1> DEFINE rounds == StoreRounds(data, ack, isSet)
  <1>9. Is(rounds)
    <2> HIDE DEF Is
    <2>1. QED
      BY <1>7, <1>8
  <1> HIDE DEF rounds
  <1>10. rounds[0] = base /\ \A k \in 1..ACK_BITS : rounds[k] = next(rounds[k - 1], k)
    <2>1. 0 \in 0..ACK_BITS /\ \A k \in 1..ACK_BITS : k \in 0..ACK_BITS /\ k # 0
      BY <1>1
    <2>2. QED
      BY <1>9, <2>1
  <1>11. \A k \in 0..ACK_BITS : rounds[k] \in State
    <2>1. ASSUME NEW k \in 1..ACK_BITS, rounds[k - 1] \in State PROVE rounds[k] \in State
      BY <1>3, <1>10, <2>1
    <2>2. rounds[0] \in State
      BY <1>2, <1>10
    <2>3. QED
      BY <1>1, <2>1, <2>2, RoundsTyped
  <1>12. rounds[ACK_BITS] \in State
    BY <1>1, <1>11
  <1>13. QED
    BY <1>12 DEF StoreAcks, rounds, State

-----------------------------------------------------------------------------
(* Sequences of numbers. *)

\* The last element of an ascending sequence bounds the others.
LEMMA LastIsLargest ==
    ASSUME NEW s \in Seq(Nat), s # <<>>, Ascends(s), NEW k \in DOMAIN s
    PROVE  s[k] <= Last(s)
  <1>1. Len(s) \in Nat \ {0} /\ DOMAIN s = 1..Len(s)
    BY EmptySeq, LenProperties
  <1>2. s[k] \in Nat /\ s[Len(s)] \in Nat
    BY <1>1, ElementOfSeq
  <1>3. QED
    BY <1>1, <1>2 DEF Ascends, Last

\* What Append does to a sequence of numbers.
LEMMA AppendFacts ==
    ASSUME NEW s \in Seq(Nat), NEW e \in Nat
    PROVE  /\ Append(s, e) \in Seq(Nat) /\ Append(s, e) # <<>>
           /\ Len(Append(s, e)) = Len(s) + 1
           /\ \A k \in 1..Len(s) : Append(s, e)[k] = s[k]
           /\ Append(s, e)[Len(s) + 1] = e
  BY AppendProperties

\* A number above the last one keeps the sequence ascending.
LEMMA AppendAscends ==
    ASSUME NEW s \in Seq(Nat), Ascends(s), NEW e \in Nat,
           s # <<>> => Last(s) < e
    PROVE  /\ Append(s, e) \in Seq(Nat) /\ Append(s, e) # <<>>
           /\ Ascends(Append(s, e)) /\ Last(Append(s, e)) = e
  <1> DEFINE new == Append(s, e)
  <1>1. /\ new \in Seq(Nat) /\ new # <<>> /\ Len(new) = Len(s) + 1
        /\ \A k \in 1..Len(s) : new[k] = s[k]
        /\ new[Len(s) + 1] = e
    BY AppendFacts
  <1>2. /\ Len(s) \in Nat /\ DOMAIN s = 1..Len(s)
        /\ DOMAIN new = 1..Len(s) + 1
    BY <1>1, LenProperties
  <1> HIDE DEF new
  <1>3. \A k \in DOMAIN s : s[k] \in Nat /\ s[k] < e
    <2> SUFFICES ASSUME NEW k \in DOMAIN s PROVE s[k] \in Nat /\ s[k] < e
      OBVIOUS
    <2>1. s # <<>> /\ s[k] \in Nat /\ s[k] <= Last(s) /\ Last(s) \in Nat
      BY <1>2, LastIsLargest, ElementOfSeq, EmptySeq DEF Last
    <2>2. QED
      BY <2>1
  <1>4. ASSUME NEW i \in DOMAIN new, NEW j \in DOMAIN new, i < j
        PROVE  new[i] < new[j]
    <2>1. i \in DOMAIN s
      BY <1>2, <1>4
    <2>2. CASE j = Len(s) + 1
      BY <1>1, <1>2, <1>3, <2>1, <2>2
    <2>3. CASE j \in DOMAIN s
      BY <1>1, <1>2, <1>4, <2>1, <2>3 DEF Ascends
    <2>4. QED
      BY <1>2, <2>2, <2>3
  <1>5. QED
    BY <1>1, <1>4 DEF Ascends, Last, new
=============================================================================
