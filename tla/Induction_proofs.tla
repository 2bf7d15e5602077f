-------------------------- MODULE Induction_proofs --------------------------
(***************************************************************************)
(* Induction over the natural numbers, and functions defined by recursion  *)
(* over them, for the proofs about loops.  The library states both with an *)
(* operator as a parameter; here the parameters are a set (of the numbers  *)
(* for which something holds) and a function (what each round does), which *)
(* the provers can instantiate.                                            *)
(***************************************************************************)
EXTENDS FiniteSetTheorems, TLAPS

\* A set of natural numbers has a least element.
LEMMA LeastNat ==
    ASSUME NEW T \in SUBSET Nat, T # {}
    PROVE  \E n \in T : \A m \in T : n <= m
  <1> DEFINE UpTo == {0..n : n \in T}
  <1>1. UpTo \subseteq FiniteSubsetsOf(Nat) /\ UpTo # {}
    <2>1. \A n \in T : 0..n \in SUBSET Nat /\ IsFiniteSet(0..n)
      BY FS_Interval
    <2>2. QED
      BY <2>1 DEF FiniteSubsetsOf
  <1>2. PICK s \in UpTo : \A r \in UpTo : <<r, s>> \notin StrictSubsetOrdering(Nat)
    BY <1>1, FS_StrictSubsetOrderingWellFounded, WFMin
  <1>3. PICK n \in T : s = 0..n
    OBVIOUS
  <1>4. ASSUME NEW m \in T, m < n PROVE FALSE
    <2>1. 0..m \subseteq 0..n /\ n \in 0..n /\ n \notin 0..m
      BY <1>4
    <2>2. 0..m # 0..n
      BY <2>1
    <2>3. <<0..m, 0..n>> \in StrictSubsetOrdering(Nat)
      <3> DEFINE lower == 0..m
                 upper == 0..n
      <3>1. lower \in SUBSET Nat /\ upper \in SUBSET Nat
        OBVIOUS
      <3>2. lower \subseteq upper /\ lower # upper
        BY <2>1, <2>2
      <3> HIDE DEF lower, upper
      <3>3. <<lower, upper>> \in StrictSubsetOrdering(Nat)
        BY <3>1, <3>2 DEF StrictSubsetOrdering
      <3>4. QED
        BY <3>3 DEF lower, upper
    <2>4. 0..m \in UpTo
      OBVIOUS
    <2>5. QED
      BY <1>2, <1>3, <2>3, <2>4
  <1>5. QED
    BY <1>4

\* A bounded one has a largest.
LEMMA LargestNat ==
    ASSUME NEW bound \in Nat, NEW T \in SUBSET (0..bound), T # {}
    PROVE  \E n \in T : \A m \in T : m <= n
  <1> DEFINE Below == {bound - n : n \in T}
  <1>1. Below \in SUBSET Nat /\ Below # {}
    <2>1. \A n \in T : bound - n \in Nat
      OBVIOUS
    <2>2. PICK n \in T : TRUE
      OBVIOUS
    <2>3. bound - n \in Below
      OBVIOUS
    <2>4. QED
      BY <2>1, <2>3
  <1> HIDE DEF Below
  <1>2. PICK d \in Below : \A e \in Below : d <= e
    BY <1>1, LeastNat
  <1>3. PICK n \in T : d = bound - n
    BY DEF Below
  <1>4. ASSUME NEW m \in T PROVE m <= n
    <2>1. bound - m \in Below
      BY DEF Below
    <2>2. QED
      BY <1>2, <1>3, <2>1
  <1>5. QED
    BY <1>4

\* Induction up to n: what holds of 0, and of k + 1 if it holds of k.
LEMMA Induction ==
    ASSUME NEW n \in Nat, NEW T, 0 \in T,
           \A k \in 0..n - 1 : k \in T => k + 1 \in T
    PROVE  \A k \in 0..n : k \in T
  <1> DEFINE Missing == {k \in 0..n : k \notin T}
  <1> SUFFICES ASSUME Missing # {} PROVE FALSE
    OBVIOUS
  <1>1. Missing \in SUBSET Nat
    OBVIOUS
  <1> HIDE DEF Missing
  <1>2. PICK k \in Missing : \A m \in Missing : k <= m
    BY <1>1, LeastNat
  <1>3. k \in 0..n /\ k \notin T /\ k # 0
    BY DEF Missing
  <1>4. k - 1 \in 0..n - 1 /\ k - 1 + 1 = k /\ k - 1 \in 0..n /\ ~(k <= k - 1)
    BY <1>3
  <1>5. k - 1 \in T
    BY <1>2, <1>4 DEF Missing
  <1>6. QED
    BY <1>3, <1>4, <1>5

\* f starts with base, and does in each of the rounds 1..n what step says.
Rounds(n, X, base, step, f) ==
    /\ f \in [0..n -> X]
    /\ f[0] = base /\ \A k \in 1..n : f[k] = step[k][f[k - 1]]

\* There is such a function: a recursion over the rounds defines something.
LEMMA Recursion ==
    ASSUME NEW n \in Nat, NEW X, NEW base \in X, NEW step \in [1..n -> [X -> X]]
    PROVE  \E f : Rounds(n, X, base, step, f)
  <1> DEFINE Done(m, f) == Rounds(m, X, base, step, f)
             T == {m \in 0..n : \E f : Done(m, f)}
  <1>1. 0 \in T
    <2>1. Done(0, [k \in 0..0 |-> base])
      BY DEF Rounds
    <2>2. 0 \in 0..n
      OBVIOUS
    <2> HIDE DEF Done
    <2>3. \E f : Done(0, f)
      BY <2>1
    <2>4. QED
      BY <2>2, <2>3
  <1>2. ASSUME NEW m \in 0..n - 1, m \in T PROVE m + 1 \in T
    <2>1. PICK f : Done(m, f)
      BY <1>2
    <2> DEFINE g == [k \in 0..m + 1 |-> IF k = m + 1 THEN step[k][f[m]] ELSE f[k]]
    <2>2. step[m + 1] \in [X -> X] /\ f[m] \in X
      BY <2>1 DEF Rounds
    <2>3. g \in [0..m + 1 -> X]
      BY <2>1, <2>2 DEF Rounds
    <2>4. g[0] = base /\ \A k \in 1..m + 1 : g[k] = step[k][g[k - 1]]
      BY <2>1 DEF Rounds
    <2> HIDE DEF g
    <2>5. Done(m + 1, g)
      BY <2>3, <2>4 DEF Rounds
    <2>6. m + 1 \in 0..n
      OBVIOUS
    <2> HIDE DEF Done
    <2>7. \E h : Done(m + 1, h)
      BY <2>5
    <2>8. QED
      BY <2>6, <2>7
  <1>3. n \in T
    <2> HIDE DEF T
    <2>1. \A k \in 0..n - 1 : k \in T => k + 1 \in T
      BY <1>2
    <2>2. \A k \in 0..n : k \in T
      BY <1>1, <2>1, Induction
    <2>3. QED
      BY <2>2
  <1>4. QED
    BY <1>3

\* What starts in X and is kept in X by each round, is in X after every round.
LEMMA RoundsTyped ==
    ASSUME NEW n \in Nat, NEW X, NEW f, f[0] \in X,
           \A k \in 1..n : f[k - 1] \in X => f[k] \in X
    PROVE  \A k \in 0..n : f[k] \in X
  <1> DEFINE T == {k \in 0..n : f[k] \in X}
  <1>1. 0 \in T
    OBVIOUS
  <1>2. ASSUME NEW k \in 0..n - 1, k \in T PROVE k + 1 \in T
    <2>1. k + 1 \in 1..n /\ k + 1 - 1 = k /\ k + 1 \in 0..n
      OBVIOUS
    <2>2. f[k] \in X
      BY <1>2
    <2>3. f[k + 1] \in X
      BY <2>1, <2>2
    <2>4. QED
      BY <2>1, <2>3
  <1> HIDE DEF T
  <1>3. \A k \in 0..n - 1 : k \in T => k + 1 \in T
    BY <1>2
  <1>4. \A k \in 0..n : k \in T
    BY <1>1, <1>3, Induction
  <1>5. QED
    BY <1>4 DEF T
=============================================================================
