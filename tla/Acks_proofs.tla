----------------------------- MODULE Acks_proofs -----------------------------
(***************************************************************************)
(* The acknowledgement scheme, for every number of packets, every width of *)
(* the mask that a packet has room for, and every damage to a byte: what a *)
(* packet says is what was written into it, and a damaged one is never     *)
(* taken as valid.  Packets may arrive in any order.  What is acknowledged *)
(* has arrived if the window of the mask came in order and the answer is   *)
(* not too old; the number of ack has arrived in any case.                 *)
(***************************************************************************)
EXTENDS Acks, NetworkUtilities_proofs

-----------------------------------------------------------------------------
(* The checksum: what its rounds do to a word. *)

\* What is in an exclusive or.
LEMMA XorIs ==
    ASSUME NEW x, NEW y, NEW e
    PROVE  e \in Xor(x, y) <=> ~(e \in x <=> e \in y)
  BY DEF Xor

\* A shift moves the bits down.
LEMMA ShiftRightIs ==
    ASSUME NEW x \in SUBSET Word, NEW n \in Nat, NEW e \in Nat
    PROVE  e \in ShiftRight(x, n) <=> e + n \in x
  <1>1. ASSUME e \in ShiftRight(x, n) PROVE e + n \in x
    <2>1. PICK bit \in x \ 0..n - 1 : e = bit - n
      BY <1>1 DEF ShiftRight
    <2>2. bit \in Int
      BY DEF Word
    <2>3. bit = e + n
      BY <2>1, <2>2
    <2>4. QED
      BY <2>1, <2>3
  <1>2. ASSUME e + n \in x PROVE e \in ShiftRight(x, n)
    <2>1. e + n \in x \ 0..n - 1 /\ e = e + n - n
      BY <1>2
    <2>2. QED
      BY <2>1 DEF ShiftRight
  <1>3. QED
    BY <1>1, <1>2

\* A word stays one when it is shifted, and when words are added.
LEMMA ShiftRightTyped ==
    ASSUME NEW x \in SUBSET Word, NEW n \in Nat
    PROVE  ShiftRight(x, n) \in SUBSET Word
  <1> SUFFICES ASSUME NEW e \in ShiftRight(x, n) PROVE e \in Word
    OBVIOUS
  <1>1. PICK bit \in x \ 0..n - 1 : e = bit - n
    BY DEF ShiftRight
  <1>2. bit \in 0..31 /\ bit >= n
    BY DEF Word
  <1>3. QED
    BY <1>1, <1>2 DEF Word

\* Exclusive or stays among the words.
LEMMA XorTyped ==
    ASSUME NEW x \in SUBSET Word, NEW y \in SUBSET Word
    PROVE  Xor(x, y) \in SUBSET Word
  BY DEF Xor

\* What is in a word after a round: the next bits, and the polynomial if the
\* lowest bit was set.
LEMMA ShiftedIs ==
    ASSUME NEW c \in SUBSET Word
    PROVE  /\ Shifted(c) \in SUBSET Word
           /\ \A e \in Word :
                e \in Shifted(c) <=>
                    IF 0 \in c THEN ~(e \in CRC32_POLY <=> e + 1 \in c) ELSE e + 1 \in c
  <1>1. CRC32_POLY \in SUBSET Word
    BY DEF CRC32_POLY, Word
  <1>2. ShiftRight(c, 1) \in SUBSET Word
    BY ShiftRightTyped
  <1>3. \A e \in Word : e \in Nat
    BY DEF Word
  <1>4. \A e \in Word : e \in ShiftRight(c, 1) <=> e + 1 \in c
    BY <1>3, ShiftRightIs
  <1>5. CASE 0 \in c
    <2>1. Shifted(c) = Xor(CRC32_POLY, ShiftRight(c, 1))
      BY <1>5 DEF Shifted
    <2>2. QED
      BY <1>1, <1>2, <1>4, <1>5, <2>1, XorIs, XorTyped
  <1>6. CASE 0 \notin c
    BY <1>2, <1>4, <1>6 DEF Shifted
  <1>7. QED
    BY <1>5, <1>6

\* A round loses nothing: the highest bit tells whether the polynomial was
\* added, and with it what was shifted.
LEMMA ShiftedInjective ==
    ASSUME NEW c \in SUBSET Word, NEW d \in SUBSET Word, Shifted(c) = Shifted(d)
    PROVE  c = d
  <1>1. 31 \in Word /\ 31 \in CRC32_POLY /\ 31 + 1 \notin c /\ 31 + 1 \notin d
    BY DEF Word, CRC32_POLY
  <1>2. 31 \in Shifted(c) <=> 0 \in c
    BY <1>1, ShiftedIs
  <1>3. 31 \in Shifted(d) <=> 0 \in d
    BY <1>1, ShiftedIs
  <1>4. \A e \in Word : e + 1 \in c <=> e + 1 \in d
    BY <1>2, <1>3, ShiftedIs
  <1>5. \A bit \in Word : bit = 0 \/ (bit - 1 \in Word /\ bit - 1 + 1 = bit)
    BY DEF Word
  <1>6. \A bit \in Word : bit \in c <=> bit \in d
    BY <1>2, <1>3, <1>4, <1>5
  <1>7. QED
    BY <1>6

\* The rounds of generate_table on a word.
IsShiftedRounds(c, r) ==
    r = [j \in 0..8 |-> IF j = 0 THEN c ELSE Shifted(r[j - 1])]
ShiftedRounds(c) == CHOOSE r : IsShiftedRounds(c, r)

\* They are eight, and each gives a word.
LEMMA ShiftedRoundsIs ==
    ASSUME NEW c \in SUBSET Word
    PROVE  /\ ShiftedRounds(c) \in [0..8 -> SUBSET Word]
           /\ ShiftedRounds(c)[0] = c
           /\ \A j \in 1..8 : ShiftedRounds(c)[j] = Shifted(ShiftedRounds(c)[j - 1])
  <1> DEFINE State == SUBSET Word
             step == [j \in 1..8 |-> [d \in State |-> Shifted(d)]]
  <1>1. step \in [1..8 -> [State -> State]]
    BY ShiftedIs
  <1>2. PICK f : Rounds(8, State, c, step, f)
    <2> HIDE DEF State, step
    <2>1. c \in State
      BY DEF State
    <2>2. QED
      BY <1>1, <2>1, Recursion
  <1>3. \A j \in 1..8 : f[j - 1] \in State /\ f[j] = Shifted(f[j - 1])
    <2>1. \A j \in 1..8 : j - 1 \in 0..8
      OBVIOUS
    <2>2. \A j \in 1..8 : f[j - 1] \in State
      BY <1>2, <2>1 DEF Rounds
    <2>3. QED
      BY <1>2, <2>2 DEF Rounds
  <1>4. IsShiftedRounds(c, f)
    <2>1. \A j \in 0..8 : j = 0 \/ j \in 1..8
      OBVIOUS
    <2>2. \A j \in 0..8 : f[j] = IF j = 0 THEN c ELSE Shifted(f[j - 1])
      BY <1>2, <1>3, <2>1 DEF Rounds
    <2>3. QED
      BY <1>2, <2>2 DEF Rounds, IsShiftedRounds
  <1> DEFINE r == ShiftedRounds(c)
  <1>5. IsShiftedRounds(c, r)
    BY <1>4 DEF ShiftedRounds
  <1> HIDE DEF r
  <1>6. r[0] = c /\ \A j \in 1..8 : r[j] = Shifted(r[j - 1])
    <2>1. \A j \in 1..8 : j \in 0..8 /\ j # 0
      OBVIOUS
    <2>2. QED
      BY <1>5, <2>1 DEF IsShiftedRounds
  <1>7. \A j \in 0..8 : r[j] \in State
    <2> HIDE DEF State, step
    <2>1. ASSUME NEW j \in 1..8, r[j - 1] \in State PROVE r[j] \in State
      BY <1>6, <2>1, ShiftedIs DEF State
    <2>2. r[0] \in State
      BY <1>6 DEF State
    <2>3. QED
      BY <2>1, <2>2, RoundsTyped
  <1>8. r \in [0..8 -> SUBSET Word]
    BY <1>5, <1>7 DEF IsShiftedRounds
  <1>9. QED
    BY <1>6, <1>8 DEF r

\* Eight rounds lose nothing either.
LEMMA ShiftedRoundsInjective ==
    ASSUME NEW c \in SUBSET Word, NEW d \in SUBSET Word,
           ShiftedRounds(c)[8] = ShiftedRounds(d)[8]
    PROVE  c = d
  <1> DEFINE r == ShiftedRounds(c)
             s == ShiftedRounds(d)
             T == {k \in 0..8 : r[k] = s[k] => c = d}
  <1>1. /\ \A k \in 0..8 : r[k] \in SUBSET Word /\ s[k] \in SUBSET Word
        /\ r[0] = c /\ s[0] = d
        /\ \A k \in 1..8 : r[k] = Shifted(r[k - 1]) /\ s[k] = Shifted(s[k - 1])
    BY ShiftedRoundsIs
  <1>2. r[8] = s[8]
    OBVIOUS
  <1> HIDE DEF r, s
  <1>3. 0 \in T
    BY <1>1
  <1>4. ASSUME NEW k \in 0..7, k \in T PROVE k + 1 \in T
    <2>1. k + 1 \in 1..8 /\ k + 1 - 1 = k /\ k \in 0..8 /\ k + 1 \in 0..8
      OBVIOUS
    <2>2. r[k + 1] = Shifted(r[k]) /\ s[k + 1] = Shifted(s[k])
      BY <1>1, <2>1
    <2>3. r[k + 1] = s[k + 1] => r[k] = s[k]
      BY <1>1, <2>1, <2>2, ShiftedInjective
    <2>4. QED
      BY <1>4, <2>1, <2>3
  <1>5. \A k \in 0..8 : k \in T
    <2> HIDE DEF T
    <2>1. \A k \in 0..8 - 1 : k \in T => k + 1 \in T
      BY <1>4
    <2>2. QED
      BY <1>3, <2>1, Induction
  <1>6. QED
    BY <1>2, <1>5

\* Bits that have not come to position 0 only move.
LEMMA ShiftedXor ==
    ASSUME NEW c \in SUBSET Word, NEW h \in SUBSET Word, 0 \notin h
    PROVE  Shifted(Xor(c, h)) = Xor(Shifted(c), ShiftRight(h, 1))
  <1>1. /\ Xor(c, h) \in SUBSET Word /\ Shifted(c) \in SUBSET Word
        /\ Shifted(Xor(c, h)) \in SUBSET Word
        /\ ShiftRight(h, 1) \in SUBSET Word
        /\ Xor(Shifted(c), ShiftRight(h, 1)) \in SUBSET Word
    BY XorTyped, ShiftedIs, ShiftRightTyped
  <1>2. 0 \in Xor(c, h) <=> 0 \in c
    BY XorIs
  <1>3. ASSUME NEW e \in Word
        PROVE  e \in Shifted(Xor(c, h)) <=> e \in Xor(Shifted(c), ShiftRight(h, 1))
    <2>1. e \in Nat
      BY DEF Word
    <2>2. e \in ShiftRight(h, 1) <=> e + 1 \in h
      BY <2>1, ShiftRightIs
    <2>3. e + 1 \in Xor(c, h) <=> ~(e + 1 \in c <=> e + 1 \in h)
      BY XorIs
    <2>4. e \in Shifted(c) <=>
            IF 0 \in c THEN ~(e \in CRC32_POLY <=> e + 1 \in c) ELSE e + 1 \in c
      BY ShiftedIs
    <2>5. e \in Shifted(Xor(c, h)) <=>
            IF 0 \in c THEN ~(e \in CRC32_POLY <=> e + 1 \in Xor(c, h))
            ELSE e + 1 \in Xor(c, h)
      BY <1>1, <1>2, ShiftedIs
    <2>6. e \in Xor(Shifted(c), ShiftRight(h, 1)) <=>
            ~(e \in Shifted(c) <=> e \in ShiftRight(h, 1))
      BY XorIs
    <2>7. QED
      BY <2>2, <2>3, <2>4, <2>5, <2>6
  <1>4. QED
    BY <1>1, <1>3

\* What eight rounds do to a word: the table's entry for the low byte, and the
\* rest moved.
LEMMA TableRounds ==
    ASSUME NEW c \in SUBSET Word
    PROVE  /\ c \cap 0..7 \in Byte
           /\ ShiftedRounds(c)[8] = Xor(table[c \cap 0..7], ShiftRight(c, 8))
  <1> DEFINE low == c \cap 0..7
             high == c \ 0..7
             r == ShiftedRounds(c)
             s == ShiftedRounds(low)
             T == {k \in 0..8 : r[k] = Xor(s[k], ShiftRight(high, k))}
  <1>1. low \in SUBSET Word /\ high \in SUBSET Word /\ low \in Byte
    BY DEF Byte, Word
  <1>2. /\ \A k \in 0..8 : r[k] \in SUBSET Word /\ s[k] \in SUBSET Word
        /\ r[0] = c /\ s[0] = low
        /\ \A k \in 1..8 : r[k] = Shifted(r[k - 1]) /\ s[k] = Shifted(s[k - 1])
    <2> HIDE DEF low
    <2>1. QED
      BY <1>1, ShiftedRoundsIs
  <1>3. table[low] = s[8]
    <2>1. s = ShiftedRounds(low)
      OBVIOUS
    <2>2. table[low] = (LET t[j \in 0..8] == IF j = 0 THEN low ELSE Shifted(t[j - 1]) IN t[8])
      BY <1>1 DEF table
    <2>3. QED
      BY <2>1, <2>2 DEF ShiftedRounds, IsShiftedRounds
  <1>4. \A e : e \in low <=> e \in c /\ e \in 0..7
    OBVIOUS
  <1>5. \A e : e \in high <=> e \in c /\ e \notin 0..7
    OBVIOUS
  <1>6. \A e : e \in Word => e \in Nat
    BY DEF Word
  <1> HIDE DEF r, s, low, high
  <1>7. 0 \in T
    <2>1. ShiftRight(high, 0) \in SUBSET Word
      BY <1>1, ShiftRightTyped
    <2>2. \A e \in Word : e \in ShiftRight(high, 0) <=> e \in high
      BY <1>1, <1>6, ShiftRightIs
    <2>3. \A e \in Word : e \in c <=> e \in Xor(low, ShiftRight(high, 0))
      BY <1>4, <1>5, <2>2, XorIs
    <2>4. Xor(low, ShiftRight(high, 0)) \in SUBSET Word
      BY <1>1, <2>1, XorTyped
    <2>5. c = Xor(low, ShiftRight(high, 0))
      BY <2>3, <2>4
    <2>6. QED
      BY <1>2, <2>5
  <1>8. ASSUME NEW k \in 0..7, k \in T PROVE k + 1 \in T
    <2>1. /\ k + 1 \in 1..8 /\ k + 1 - 1 = k /\ k \in 0..8 /\ k + 1 \in 0..8
          /\ k \in Nat /\ k + 1 \in Nat
      OBVIOUS
    <2>2. /\ r[k + 1] = Shifted(r[k]) /\ s[k + 1] = Shifted(s[k])
          /\ r[k] = Xor(s[k], ShiftRight(high, k))
      BY <1>2, <1>8, <2>1
    <2> DEFINE h == ShiftRight(high, k)
    <2>3. h \in SUBSET Word
      BY <1>1, <2>1, ShiftRightTyped
    <2>4. 0 \notin h
      <3>1. 0 \in h <=> 0 + k \in high
        BY <1>1, <2>1, ShiftRightIs
      <3>2. 0 + k \in 0..7
        OBVIOUS
      <3>3. QED
        BY <1>5, <3>1, <3>2
    <2>5. ShiftRight(h, 1) = ShiftRight(high, k + 1)
      <3>1. ShiftRight(h, 1) \in SUBSET Word /\ ShiftRight(high, k + 1) \in SUBSET Word
        BY <1>1, <2>1, <2>3, ShiftRightTyped
      <3>2. ASSUME NEW e \in Word
            PROVE  e \in ShiftRight(h, 1) <=> e \in ShiftRight(high, k + 1)
        <4>1. e \in Nat /\ e + 1 \in Nat /\ e + 1 + k = e + (k + 1)
          BY <1>6, <2>1
        <4>2. e \in ShiftRight(h, 1) <=> e + 1 \in h
          BY <2>3, <4>1, ShiftRightIs
        <4>3. e + 1 \in h <=> e + 1 + k \in high
          BY <1>1, <2>1, <4>1, ShiftRightIs
        <4>4. e \in ShiftRight(high, k + 1) <=> e + (k + 1) \in high
          BY <1>1, <2>1, <4>1, ShiftRightIs
        <4>5. QED
          BY <4>1, <4>2, <4>3, <4>4
      <3>3. QED
        BY <3>1, <3>2
    <2>6. r[k + 1] = Xor(s[k + 1], ShiftRight(h, 1))
      <3> HIDE DEF h
      <3>1. Shifted(Xor(s[k], h)) = Xor(Shifted(s[k]), ShiftRight(h, 1))
        BY <1>2, <2>1, <2>3, <2>4, ShiftedXor
      <3>2. QED
        BY <2>2, <3>1 DEF h
    <2>7. QED
      BY <2>1, <2>5, <2>6
  <1>9. 8 \in T
    <2> HIDE DEF T
    <2>1. \A k \in 0..8 - 1 : k \in T => k + 1 \in T
      BY <1>8
    <2>2. QED
      BY <1>7, <2>1, Induction
  <1>10. ShiftRight(high, 8) = ShiftRight(c, 8)
    <2>1. ShiftRight(high, 8) \in SUBSET Word /\ ShiftRight(c, 8) \in SUBSET Word
      BY <1>1, ShiftRightTyped
    <2>2. \A e \in Word : e + 8 \notin 0..7
      BY <1>6
    <2>3. \A e \in Word : e \in ShiftRight(high, 8) <=> e + 8 \in high
      BY <1>1, <1>6, ShiftRightIs
    <2>4. \A e \in Word : e \in ShiftRight(c, 8) <=> e + 8 \in c
      BY <1>6, ShiftRightIs
    <2>5. QED
      BY <1>5, <2>1, <2>2, <2>3, <2>4
  <1>11. QED
    BY <1>1, <1>3, <1>9, <1>10 DEF r, low

-----------------------------------------------------------------------------
(* The checksum of a message. *)

\* A byte enters the word, and eight rounds follow.
LEMMA UpdatedIs ==
    ASSUME NEW crc \in SUBSET Word, NEW byte \in Byte
    PROVE  /\ Xor(crc, byte) \in SUBSET Word
           /\ Updated(crc, byte) = ShiftedRounds(Xor(crc, byte))[8]
  <1> DEFINE c == Xor(crc, byte)
  <1>1. c \in SUBSET Word /\ byte \in SUBSET Word /\ byte \in SUBSET (0..7)
    BY XorTyped DEF Byte, Word
  <1>2. \A e : e \in c <=> ~(e \in crc <=> e \in byte)
    BY XorIs
  <1> HIDE DEF c
  <1>3. ShiftRight(crc, 8) = ShiftRight(c, 8)
    <2>1. ShiftRight(crc, 8) \in SUBSET Word /\ ShiftRight(c, 8) \in SUBSET Word
      BY <1>1, ShiftRightTyped
    <2>2. \A e \in Word : e \in Nat /\ e + 8 \notin 0..7
      BY DEF Word
    <2>3. \A e \in Word : e \in ShiftRight(crc, 8) <=> e + 8 \in crc
      BY <2>2, ShiftRightIs
    <2>4. \A e \in Word : e \in ShiftRight(c, 8) <=> e + 8 \in c
      BY <1>1, <2>2, ShiftRightIs
    <2>5. QED
      BY <1>1, <1>2, <2>1, <2>2, <2>3, <2>4
  <1>4. ShiftedRounds(c)[8] = Xor(table[c \cap 0..7], ShiftRight(c, 8))
    BY <1>1, TableRounds
  <1>5. QED
    BY <1>1, <1>3, <1>4 DEF Updated, c

\* The checksum stays a word, whatever enters it.
LEMMA UpdatedTyped ==
    ASSUME NEW crc \in SUBSET Word, NEW byte \in SUBSET Word
    PROVE  Updated(crc, byte) \in SUBSET Word
  <1> DEFINE c == Xor(crc, byte)
  <1>1. c \in SUBSET Word
    BY XorTyped
  <1> HIDE DEF c
  <1>2. c \cap 0..7 \in SUBSET Word /\ c \cap 0..7 \in Byte
    BY <1>1 DEF Byte
  <1>3. table[c \cap 0..7] \in SUBSET Word
    <2> DEFINE low == c \cap 0..7
    <2>1. table[low] = ShiftedRounds(low)[8]
      <3>1. table[low] = (LET t[j \in 0..8] == IF j = 0 THEN low ELSE Shifted(t[j - 1]) IN t[8])
        BY <1>2 DEF table
      <3>2. QED
        BY <3>1 DEF ShiftedRounds, IsShiftedRounds
    <2> HIDE DEF low
    <2>2. ShiftedRounds(low) \in [0..8 -> SUBSET Word]
      BY <1>2, ShiftedRoundsIs DEF low
    <2>3. QED
      BY <2>1, <2>2 DEF low
  <1>4. ShiftRight(crc, 8) \in SUBSET Word
    BY ShiftRightTyped
  <1>5. QED
    BY <1>3, <1>4, XorTyped DEF Updated, c

\* Of a byte and the word that it enters, each determines the outcome if the
\* other is given.
LEMMA UpdatedInjective ==
    ASSUME NEW crc \in SUBSET Word, NEW byte \in Byte,
           NEW crc2 \in SUBSET Word, NEW byte2 \in Byte,
           Updated(crc, byte) = Updated(crc2, byte2)
    PROVE  crc = crc2 <=> byte = byte2
  <1>1. Xor(crc, byte) = Xor(crc2, byte2)
    BY UpdatedIs, ShiftedRoundsInjective
  <1>2. \A e : (e \in crc <=> e \in byte) <=> (e \in crc2 <=> e \in byte2)
    BY <1>1, XorIs
  <1>3. ASSUME crc = crc2 PROVE byte = byte2
    <2>1. \A e : e \in byte <=> e \in byte2
      BY <1>2, <1>3
    <2>2. QED
      BY <2>1
  <1>4. ASSUME byte = byte2 PROVE crc = crc2
    <2>1. \A e : e \in crc <=> e \in crc2
      BY <1>2, <1>4
    <2>2. QED
      BY <2>1
  <1>5. QED
    BY <1>3, <1>4

\* The checksum of the first bytes of a message, before the last inversion.
IsChecksumRounds(bytes, r) ==
    r = [i \in 0..Len(bytes) |-> IF i = 0 THEN Word ELSE Updated(r[i - 1], bytes[i])]
ChecksumRounds(bytes) == CHOOSE r : IsChecksumRounds(bytes, r)

\* Each byte updates the checksum of those before it.
LEMMA ChecksumRoundsIs ==
    ASSUME NEW bytes \in Seq(SUBSET Word)
    PROVE  /\ ChecksumRounds(bytes) \in [0..Len(bytes) -> SUBSET Word]
           /\ ChecksumRounds(bytes)[0] = Word
           /\ \A i \in 1..Len(bytes) :
                ChecksumRounds(bytes)[i] = Updated(ChecksumRounds(bytes)[i - 1], bytes[i])
           /\ crc32(bytes) = Xor(ChecksumRounds(bytes)[Len(bytes)], Word)
           /\ crc32(bytes) \in SUBSET Word
  <1> DEFINE State == SUBSET Word
             n == Len(bytes)
             step == [i \in 1..n |-> [crc \in State |-> Updated(crc, bytes[i])]]
  <1>1. n \in Nat /\ \A i \in 1..n : bytes[i] \in SUBSET Word
    BY LenProperties, ElementOfSeq
  <1>2. step \in [1..n -> [State -> State]]
    BY <1>1, UpdatedTyped
  <1>3. PICK f : Rounds(n, State, Word, step, f)
    <2> HIDE DEF State, step, n
    <2>1. Word \in State
      BY DEF State
    <2>2. QED
      BY <1>1, <1>2, <2>1, Recursion
  <1>4. \A i \in 1..n : f[i - 1] \in State /\ f[i] = Updated(f[i - 1], bytes[i])
    <2>1. \A i \in 1..n : i - 1 \in 0..n
      BY <1>1
    <2>2. \A i \in 1..n : f[i - 1] \in State
      BY <1>3, <2>1 DEF Rounds
    <2>3. QED
      BY <1>3, <2>2 DEF Rounds
  <1>5. IsChecksumRounds(bytes, f)
    <2>1. \A i \in 0..n : i = 0 \/ i \in 1..n
      BY <1>1
    <2>2. \A i \in 0..n : f[i] = IF i = 0 THEN Word ELSE Updated(f[i - 1], bytes[i])
      BY <1>3, <1>4, <2>1 DEF Rounds
    <2>3. QED
      BY <1>3, <2>2 DEF Rounds, IsChecksumRounds
  <1> DEFINE r == ChecksumRounds(bytes)
  <1>6. IsChecksumRounds(bytes, r)
    BY <1>5 DEF ChecksumRounds
  <1>7. crc32(bytes) = Xor(r[Len(bytes)], Word)
    BY DEF crc32, ChecksumRounds, IsChecksumRounds
  <1> HIDE DEF r
  <1>8. r[0] = Word /\ \A i \in 1..n : r[i] = Updated(r[i - 1], bytes[i])
    <2>1. 0 \in 0..n /\ \A i \in 1..n : i \in 0..n /\ i # 0
      BY <1>1
    <2>2. QED
      BY <1>6, <2>1 DEF IsChecksumRounds
  <1>9. \A i \in 0..n : r[i] \in State
    <2>1. ASSUME NEW i \in 1..n, r[i - 1] \in State PROVE r[i] \in State
      BY <1>1, <1>8, <2>1, UpdatedTyped
    <2> HIDE DEF State, step, n
    <2>2. r[0] \in State
      BY <1>8 DEF State
    <2>3. QED
      BY <1>1, <2>1, <2>2, RoundsTyped
  <1>10. r \in [0..n -> SUBSET Word]
    BY <1>6, <1>9 DEF IsChecksumRounds
  <1>11. r[n] \in SUBSET Word
    BY <1>1, <1>9
  <1>12. crc32(bytes) \in SUBSET Word
    BY <1>7, <1>11, XorTyped
  <1>13. QED
    BY <1>7, <1>8, <1>10, <1>12 DEF r

\* A message that differs in one byte has another checksum.
LEMMA ChecksumTells ==
    ASSUME NEW s \in Seq(SUBSET Word), NEW t \in Seq(SUBSET Word), Len(s) = Len(t),
           NEW i \in 1..Len(s), s[i] # t[i],
           \A k \in 1..Len(s) : k # i => s[k] = t[k],
           \A k \in 1..Len(s) : k >= i => s[k] \in Byte /\ t[k] \in Byte
    PROVE  crc32(s) # crc32(t)
  <1> DEFINE n == Len(s)
             c == ChecksumRounds(s)
             d == ChecksumRounds(t)
             T == {k \in 0..n : c[k] = d[k] <=> k < i}
  <1>1. n \in Nat
    BY LenProperties
  <1>2. /\ \A k \in 0..n : c[k] \in SUBSET Word /\ d[k] \in SUBSET Word
        /\ c[0] = d[0]
        /\ \A k \in 1..n : c[k] = Updated(c[k - 1], s[k]) /\ d[k] = Updated(d[k - 1], t[k])
        /\ crc32(s) = Xor(c[n], Word) /\ crc32(t) = Xor(d[n], Word)
    BY ChecksumRoundsIs
  <1> HIDE DEF c, d, n
  <1>3. 0 \in T
    BY <1>1, <1>2 DEF n
  <1>4. ASSUME NEW k \in 0..n - 1, k \in T PROVE k + 1 \in T
    <2>1. k + 1 \in 1..n /\ k + 1 - 1 = k /\ k \in 0..n /\ k + 1 \in 0..n
      BY <1>1
    <2>2. /\ c[k + 1] = Updated(c[k], s[k + 1]) /\ d[k + 1] = Updated(d[k], t[k + 1])
          /\ c[k] \in SUBSET Word /\ d[k] \in SUBSET Word
      BY <1>2, <2>1
    <2>3. CASE k + 1 < i
      <3>1. k < i /\ k + 1 # i
        BY <1>1, <2>3 DEF n
      <3>2. s[k + 1] = t[k + 1] /\ c[k] = d[k]
        BY <1>4, <2>1, <3>1 DEF n
      <3>3. QED
        BY <2>1, <2>2, <2>3, <3>2
    <2>4. CASE k + 1 = i
      <3>1. k < i /\ k + 1 >= i /\ ~(k + 1 < i)
        BY <1>1, <2>4 DEF n
      <3>2. c[k] = d[k] /\ s[k + 1] # t[k + 1] /\ s[k + 1] \in Byte /\ t[k + 1] \in Byte
        BY <1>4, <2>1, <2>4, <3>1 DEF n
      <3>3. c[k + 1] # d[k + 1]
        BY <2>2, <3>2, UpdatedInjective
      <3>4. QED
        BY <2>1, <3>1, <3>3
    <2>5. CASE k + 1 > i
      <3>1. ~(k < i) /\ k + 1 >= i /\ ~(k + 1 < i) /\ k + 1 # i
        BY <1>1, <2>5 DEF n
      <3>2. c[k] # d[k] /\ s[k + 1] = t[k + 1] /\ s[k + 1] \in Byte
        BY <1>4, <2>1, <3>1 DEF n
      <3>3. c[k + 1] # d[k + 1]
        BY <2>2, <3>2, UpdatedInjective
      <3>4. QED
        BY <2>1, <3>1, <3>3
    <2>6. QED
      BY <1>1, <2>3, <2>4, <2>5 DEF n
  <1>5. n \in T
    <2> HIDE DEF T
    <2>1. \A k \in 0..n - 1 : k \in T => k + 1 \in T
      BY <1>4
    <2>2. \A k \in 0..n : k \in T
      BY <1>1, <1>3, <2>1, Induction
    <2>3. QED
      BY <1>1, <2>2
  <1>6. c[n] # d[n]
    BY <1>1, <1>5 DEF n
  <1>7. c[n] \in SUBSET Word /\ d[n] \in SUBSET Word
    BY <1>1, <1>2
  <1>8. PICK e \in Word : ~(e \in c[n] <=> e \in d[n])
    BY <1>6, <1>7
  <1>9. ~(e \in crc32(s) <=> e \in crc32(t))
    BY <1>2, <1>8, XorIs
  <1>10. QED
    BY <1>9

-----------------------------------------------------------------------------
(* Numbers written and read, and what the checksum of a packet is of. *)

\* The bits of a number that is read are those of its bytes.
LEMMA ReadIs ==
    ASSUME NEW bytes \in Seq(Byte)
    PROVE  /\ Read(bytes) \in SUBSET (0..8 * Len(bytes) - 1)
           /\ \A k \in 1..Len(bytes), bit \in 0..7 :
                bit + 8 * (Len(bytes) - k) \in Read(bytes) <=> bit \in bytes[k]
  <1> DEFINE n == Len(bytes)
  <1>1. n \in Nat /\ DOMAIN bytes = 1..n /\ \A k \in 1..n : bytes[k] \subseteq 0..7
    BY LenProperties, ElementOfSeq DEF Byte
  <1>2. \A e : e \in Read(bytes) <=>
            \E k \in 1..n : \E bit \in bytes[k] : e = bit + 8 * (n - k)
    BY <1>1 DEF Read
  <1> HIDE DEF n
  <1>3. Read(bytes) \in SUBSET (0..8 * n - 1)
    <2> SUFFICES ASSUME NEW e \in Read(bytes) PROVE e \in 0..8 * n - 1
      OBVIOUS
    <2>1. PICK k \in 1..n : \E bit \in bytes[k] : e = bit + 8 * (n - k)
      BY <1>2
    <2>2. PICK bit \in bytes[k] : e = bit + 8 * (n - k)
      BY <2>1
    <2>3. bit \in 0..7
      BY <1>1
    <2>4. QED
      BY <1>1, <2>2, <2>3
  <1>4. ASSUME NEW k \in 1..n, NEW bit \in 0..7
        PROVE  bit + 8 * (n - k) \in Read(bytes) <=> bit \in bytes[k]
    <2>1. ASSUME NEW m \in 1..n, NEW other \in bytes[m],
                 bit + 8 * (n - k) = other + 8 * (n - m)
          PROVE  m = k /\ other = bit
      <3> DEFINE a == n - k
                 b == n - m
      <3>1. other \in 0..7 /\ bit \in 0..7
        BY <1>1
      <3>2. a \in Int /\ b \in Int /\ (a = b => k = m)
        BY <1>1
      <3>3. bit + 8 * a = other + 8 * b
        BY <2>1
      <3> HIDE DEF a, b
      <3>4. a = b /\ bit = other
        BY <3>1, <3>2, <3>3
      <3>5. QED
        BY <3>2, <3>4
    <2>2. QED
      BY <1>2, <2>1
  <1>5. QED
    BY <1>3, <1>4 DEF n

\* Bytes are told by the number that is read from them.
LEMMA ReadInjective ==
    ASSUME NEW s \in Seq(Byte), NEW t \in Seq(Byte), Len(s) = Len(t), Read(s) = Read(t)
    PROVE  s = t
  <1>1. \A k \in 1..Len(s) : \A bit \in 0..7 : bit \in s[k] <=> bit \in t[k]
    BY ReadIs
  <1>2. \A k \in 1..Len(s) : s[k] \in SUBSET (0..7) /\ t[k] \in SUBSET (0..7)
    BY ElementOfSeq DEF Byte
  <1>3. \A k \in 1..Len(s) : s[k] = t[k]
    BY <1>1, <1>2
  <1>4. QED
    BY <1>3, SeqEqual

\* A field that is written has its size, and is read as what fits into it.
LEMMA WrittenIs ==
    ASSUME NEW size \in Nat, NEW bits
    PROVE  /\ Written([size |-> size, bits |-> bits]) \in Seq(Byte)
           /\ Len(Written([size |-> size, bits |-> bits])) = size
           /\ Read(Written([size |-> size, bits |-> bits])) = bits \cap 0..8 * size - 1
  <1> DEFINE w == Written([size |-> size, bits |-> bits])
             byte(k) == {bit \in 0..7 : bit + 8 * (size - k) \in bits}
  <1>1. w = [k \in 1..size |-> byte(k)]
    BY DEF Written
  <1>2. \A k \in 1..size : byte(k) \in Byte
    BY DEF Byte
  <1>3. \A k \in 1..size, bit \in 0..7 : bit \in byte(k) <=> bit + 8 * (size - k) \in bits
    OBVIOUS
  <1> HIDE DEF w, byte
  <1>4. w \in Seq(Byte) /\ Len(w) = size
    <2>1. [k \in 1..size |-> byte(k)] \in [1..size -> Byte]
      BY <1>2
    <2>2. w \in Seq(Byte)
      BY <1>1, <2>1
    <2>3. DOMAIN w = 1..Len(w) /\ Len(w) \in Nat /\ DOMAIN w = 1..size
      BY <1>1, <2>2, LenProperties
    <2> DEFINE m == Len(w)
    <2>4. m \in Nat /\ 1..m = 1..size
      BY <2>3
    <2> HIDE DEF m
    <2>5. m = size
      <3>1. m \in 1..m => m \in 1..size
        BY <2>4
      <3>2. size \in 1..size => size \in 1..m
        BY <2>4
      <3>3. QED
        BY <2>4, <3>1, <3>2
    <2>6. QED
      BY <2>2, <2>5 DEF m
  <1>5. /\ Read(w) \in SUBSET (0..8 * size - 1)
        /\ \A k \in 1..size, bit \in 0..7 :
             bit + 8 * (size - k) \in Read(w) <=> bit + 8 * (size - k) \in bits
    BY <1>1, <1>3, <1>4, ReadIs
  <1>6. ASSUME NEW e \in 0..8 * size - 1 PROVE e \in Read(w) <=> e \in bits
    <2> DEFINE k == size - e \div 8
               bit == e % 8
    <2>1. k \in 1..size /\ bit \in 0..7 /\ bit + 8 * (size - k) = e
      OBVIOUS
    <2> HIDE DEF k, bit
    <2>2. QED
      BY <1>5, <2>1
  <1>7. Read(w) = bits \cap 0..8 * size - 1
    BY <1>5, <1>6
  <1>8. QED
    BY <1>4, <1>7 DEF w

\* What the checksum is of: the magic number, and the bytes behind the checksum.
LEMMA MessageIs ==
    ASSUME NEW buffer \in Seq(Byte), Len(buffer) >= CRC_SIZE
    PROVE  /\ Payload(buffer) \in Seq(Byte)
           /\ Len(Payload(buffer)) = Len(buffer) - CRC_SIZE
           /\ \A k \in 1..Len(buffer) - CRC_SIZE :
                Payload(buffer)[k] = buffer[CRC_SIZE + k]
           /\ <<PROTOCOL_MAGIC_NUMBER>> \o Payload(buffer) \in Seq(SUBSET Word)
           /\ Len(<<PROTOCOL_MAGIC_NUMBER>> \o Payload(buffer)) = Len(buffer) - 3
           /\ \A k \in 2..Len(buffer) - 3 :
                (<<PROTOCOL_MAGIC_NUMBER>> \o Payload(buffer))[k] = buffer[k + 3]
           /\ (<<PROTOCOL_MAGIC_NUMBER>> \o Payload(buffer))[1] = PROTOCOL_MAGIC_NUMBER
  <1> DEFINE n == Len(buffer)
             payload == Payload(buffer)
             magic == PROTOCOL_MAGIC_NUMBER
  <1>1. n \in Nat /\ n >= 4 /\ \A k \in 1..n : buffer[k] \in Byte
    BY LenProperties, ElementOfSeq DEF CRC_SIZE
  <1>2. /\ payload \in Seq(Byte) /\ Len(payload) = n - 4
        /\ \A k \in 1..n - 4 : payload[k] = buffer[4 + k]
    <2>1. payload = SubSeq(buffer, 5, n)
      BY DEF Payload, CRC_SIZE
    <2>2. \A k \in 5..n : buffer[k] \in Byte
      BY <1>1
    <2> HIDE DEF payload, n
    <2> DEFINE part == SubSeq(buffer, 5, n)
    <2>3. /\ part \in Seq(Byte)
          /\ Len(part) = IF 5 <= n THEN n - 5 + 1 ELSE 0
          /\ \A k \in 1..n - 5 + 1 : part[k] = buffer[5 + k - 1]
      BY <1>1, <2>2, SubSeqProperties
    <2> HIDE DEF part
    <2>4. Len(part) = n - 4 /\ \A k \in 1..n - 4 : part[k] = buffer[4 + k]
      BY <1>1, <2>3
    <2>5. QED
      BY <2>1, <2>3, <2>4 DEF part
  <1>3. magic \in SUBSET Word
    BY DEF PROTOCOL_MAGIC_NUMBER, BitsOf, Word
  <1>4. payload \in Seq(SUBSET Word)
    <2>1. Byte \subseteq SUBSET Word
      BY DEF Byte, Word
    <2> HIDE DEF payload
    <2>2. QED
      BY <1>2, <2>1, SeqMonotonic
  <1> HIDE DEF n, payload, magic
  <1> DEFINE first == <<magic>>
  <1>5. first \in Seq(SUBSET Word) /\ Len(first) = 1 /\ first[1] = magic
    BY <1>3
  <1> HIDE DEF first
  <1>6. /\ first \o payload \in Seq(SUBSET Word)
        /\ Len(first \o payload) = Len(first) + Len(payload)
        /\ \A k \in 1..Len(first) + Len(payload) :
             (first \o payload)[k] =
                IF k <= Len(first) THEN first[k] ELSE payload[k - Len(first)]
    BY <1>4, <1>5, ConcatProperties
  <1> DEFINE message == first \o payload
  <1> HIDE DEF message
  <1>7. /\ message \in Seq(SUBSET Word) /\ Len(message) = n - 3
        /\ \A k \in 1..n - 3 : message[k] = IF k <= 1 THEN first[k] ELSE payload[k - 1]
    BY <1>1, <1>2, <1>5, <1>6 DEF message
  <1>8. \A k \in 2..n - 3 : k \in 1..n - 3 /\ ~(k <= 1) /\ k - 1 \in 1..n - 4 /\ 4 + (k - 1) = k + 3
    BY <1>1
  <1>9. /\ \A k \in 2..n - 3 : message[k] = buffer[k + 3]
        /\ message[1] = magic
    <2>1. ASSUME NEW k \in 2..n - 3 PROVE message[k] = buffer[k + 3]
      <3>1. message[k] = payload[k - 1]
        BY <1>7, <1>8
      <3>2. payload[k - 1] = buffer[4 + (k - 1)]
        BY <1>2, <1>8
      <3>3. QED
        BY <1>8, <3>1, <3>2
    <2>2. 1 \in 1..n - 3 /\ 1 <= 1
      BY <1>1
    <2>3. message[1] = magic
      BY <1>5, <1>7, <2>2
    <2>4. QED
      BY <2>1, <2>3
  <1>10. QED
    BY <1>2, <1>7, <1>9 DEF message, first, n, payload, magic, CRC_SIZE

\* The checksum in front of a packet, and the one of the bytes behind it.
LEMMA HeadIs ==
    ASSUME NEW buffer \in Seq(Byte), Len(buffer) >= CRC_SIZE
    PROVE  /\ SubSeq(buffer, 1, CRC_SIZE) \in Seq(Byte)
           /\ Len(SubSeq(buffer, 1, CRC_SIZE)) = CRC_SIZE
           /\ \A k \in 1..CRC_SIZE : SubSeq(buffer, 1, CRC_SIZE)[k] = buffer[k]
           /\ Checksum(buffer) \in SUBSET Word
  <1> DEFINE head == SubSeq(buffer, 1, 4)
  <1>1. \A k \in 1..4 : buffer[k] \in Byte
    BY LenProperties, ElementOfSeq DEF CRC_SIZE
  <1>2. /\ head \in Seq(Byte) /\ Len(head) = IF 1 <= 4 THEN 4 - 1 + 1 ELSE 0
        /\ \A k \in 1..4 - 1 + 1 : head[k] = buffer[1 + k - 1]
    BY <1>1, SubSeqProperties
  <1> HIDE DEF head
  <1>3. Len(head) = 4 /\ \A k \in 1..4 : head[k] = buffer[k]
    BY <1>2
  <1>4. Checksum(buffer) \in SUBSET Word
    BY MessageIs, ChecksumRoundsIs DEF Checksum
  <1>5. QED
    BY <1>2, <1>3, <1>4 DEF head, CRC_SIZE

\* Whatever bits of one byte of a valid packet are turned, one of the
\* checksum's own four included, the receiver notices: NetworkPacket's
\* ReadAndValidateCRC does not return 0.
THEOREM DamageIsNoticed ==
    ASSUME NEW buffer \in Seq(Byte), Len(buffer) >= CRC_SIZE, IsValid(buffer),
           NEW i \in 1..Len(buffer), NEW flipped \in Byte, flipped # {}
    PROVE  ~IsValid([buffer EXCEPT ![i] = Xor(@, flipped)])
  <1> DEFINE new == [buffer EXCEPT ![i] = Xor(@, flipped)]
             n == Len(buffer)
  <1>1. n \in Nat /\ n >= 4 /\ \A k \in 1..n : buffer[k] \in Byte
    BY LenProperties, ElementOfSeq DEF CRC_SIZE
  <1>2. Xor(buffer[i], flipped) \in Byte /\ Xor(buffer[i], flipped) # buffer[i]
    <2>1. Xor(buffer[i], flipped) \in Byte
      BY <1>1 DEF Xor, Byte
    <2>2. PICK bit \in flipped : TRUE
      OBVIOUS
    <2>3. bit \in Xor(buffer[i], flipped) <=> ~(bit \in buffer[i])
      BY <2>2, XorIs
    <2>4. QED
      BY <2>1, <2>3
  <1>3. /\ new \in Seq(Byte) /\ Len(new) = n /\ new[i] # buffer[i]
        /\ \A k \in 1..n : k # i => new[k] = buffer[k]
    <2> DEFINE byte == Xor(buffer[i], flipped)
    <2>1. new = [buffer EXCEPT ![i] = byte]
      OBVIOUS
    <2>2. byte \in Byte /\ byte # buffer[i]
      BY <1>2
    <2> HIDE DEF byte, new
    <2>3. /\ [buffer EXCEPT ![i] = byte] \in Seq(Byte)
          /\ Len([buffer EXCEPT ![i] = byte]) = Len(buffer)
          /\ \A k \in 1..Len(buffer) :
               [buffer EXCEPT ![i] = byte][k] = IF k = i THEN byte ELSE buffer[k]
      BY <2>2, ExceptSeq
    <2>4. QED
      BY <2>1, <2>2, <2>3
  <1>4. \A k \in 1..n : new[k] \in Byte
    BY <1>3, ElementOfSeq
  <1> HIDE DEF new, n
  <1>5. Len(new) >= CRC_SIZE /\ Len(buffer) >= CRC_SIZE
    BY <1>1, <1>3 DEF n, CRC_SIZE
  <1> DEFINE head == SubSeq(buffer, 1, CRC_SIZE)
             newHead == SubSeq(new, 1, CRC_SIZE)
             message == <<PROTOCOL_MAGIC_NUMBER>> \o Payload(buffer)
             newMessage == <<PROTOCOL_MAGIC_NUMBER>> \o Payload(new)
  <1>6. /\ head \in Seq(Byte) /\ newHead \in Seq(Byte)
        /\ Len(head) = 4 /\ Len(newHead) = 4
        /\ \A k \in 1..4 : head[k] = buffer[k] /\ newHead[k] = new[k]
    BY <1>3, <1>5, HeadIs DEF CRC_SIZE
  <1>7. /\ message \in Seq(SUBSET Word) /\ newMessage \in Seq(SUBSET Word)
        /\ Len(message) = n - 3 /\ Len(newMessage) = n - 3
        /\ \A k \in 2..n - 3 : message[k] = buffer[k + 3] /\ newMessage[k] = new[k + 3]
        /\ message[1] = newMessage[1]
    BY <1>3, <1>5, MessageIs DEF n
  <1>8. Read(head) = crc32(message)
    BY DEF IsValid, Checksum
  <1>9. IsValid(new) <=> Read(newHead) = crc32(newMessage)
    BY DEF IsValid, Checksum
  <1> HIDE DEF head, newHead, message, newMessage
  <1>10. CASE i <= 4
    <2>1. i \in 1..4 /\ \A k \in 5..n : k \in 1..n /\ k # i
      BY <1>1, <1>10 DEF n
    <2>2. newHead # head
      BY <1>3, <1>6, <2>1
    <2>3. Read(newHead) # Read(head)
      BY <1>6, <2>2, ReadInjective
    <2>4. \A k \in 1..n - 3 : newMessage[k] = message[k]
      <3>1. \A k \in 1..n - 3 : k = 1 \/ (k \in 2..n - 3 /\ k + 3 \in 5..n)
        BY <1>1
      <3>2. QED
        BY <1>3, <1>7, <2>1, <3>1
    <2>5. newMessage = message
      <3>1. Len(newMessage) = Len(message) /\ \A k \in 1..Len(newMessage) : newMessage[k] = message[k]
        BY <1>7, <2>4
      <3>2. QED
        BY <1>7, <3>1, SeqEqual
    <2>6. QED
      BY <1>8, <1>9, <2>3, <2>5 DEF new
  <1>11. CASE i > 4
    <2>1. /\ i - 3 \in 2..n - 3 /\ i - 3 \in 1..Len(message) /\ i - 3 + 3 = i
          /\ Len(message) = Len(newMessage)
      BY <1>1, <1>7, <1>11 DEF n
    <2>2. newHead = head
      <3>1. \A k \in 1..4 : k \in 1..n /\ k # i
        BY <1>1, <1>11 DEF n
      <3>2. Len(newHead) = Len(head) /\ \A k \in 1..Len(newHead) : newHead[k] = head[k]
        BY <1>3, <1>6, <3>1
      <3>3. QED
        BY <1>6, <3>2, SeqEqual
    <2>3. message[i - 3] # newMessage[i - 3]
      BY <1>3, <1>7, <2>1
    <2>4. ASSUME NEW k \in 1..Len(message), k # i - 3 PROVE message[k] = newMessage[k]
      <3>1. CASE k = 1
        BY <1>7, <3>1
      <3>2. CASE k # 1
        <4>1. k \in 2..n - 3 /\ k + 3 \in 1..n /\ k + 3 # i
          BY <1>1, <1>7, <1>11, <2>4, <3>2 DEF n
        <4>2. QED
          BY <1>3, <1>7, <4>1
      <3>3. QED
        BY <3>1, <3>2
    <2>5. ASSUME NEW k \in 1..Len(message), k >= i - 3
          PROVE  message[k] \in Byte /\ newMessage[k] \in Byte
      <3>1. k \in 2..n - 3 /\ k + 3 \in 1..n
        BY <1>1, <1>7, <1>11, <2>5 DEF n
      <3>2. QED
        BY <1>1, <1>4, <1>7, <3>1
    <2> DEFINE m == i - 3
    <2>6. crc32(message) # crc32(newMessage)
      <3>1. /\ m \in 1..Len(message) /\ message[m] # newMessage[m]
            /\ \A k \in 1..Len(message) : k # m => message[k] = newMessage[k]
            /\ \A k \in 1..Len(message) : k >= m => message[k] \in Byte /\ newMessage[k] \in Byte
        BY <2>1, <2>3, <2>4, <2>5
      <3> HIDE DEF m
      <3>2. QED
        BY <1>7, <2>1, <3>1, ChecksumTells
    <2>7. QED
      BY <1>8, <1>9, <2>2, <2>6 DEF new
  <1>12. QED
    BY <1>1, <1>10, <1>11 DEF n, new

-----------------------------------------------------------------------------
(* Numbers and their bits. *)

\* A number, its half, and the bit between them.
LEMMA HalfIs ==
    ASSUME NEW n \in Nat
    PROVE  /\ n \div 2 \in Nat /\ n % 2 \in 0..1
           /\ n = (2 * (n \div 2)) + (n % 2)
  OBVIOUS

\* The halves of a number.
IsHalves(number, h) ==
    h = [k \in 0..30 |-> IF k = 0 THEN number ELSE h[k - 1] \div 2]
Halves(number) == CHOOSE h : IsHalves(number, h)

\* The bit at a position, as a number.
One(bit, bits) == IF bit \in bits THEN 1 ELSE 0

\* A number is twice its half and the bit that BitsOf has between them.
LEMMA HalvesIs ==
    ASSUME NEW number \in Nat
    PROVE  /\ BitsOf(number) \in SUBSET (0..30)
           /\ Halves(number)[0] = number
           /\ \A k \in 0..30 : Halves(number)[k] \in Nat
           /\ \A k \in 0..29 :
                Halves(number)[k] = 2 * Halves(number)[k + 1] + One(k, BitsOf(number))
           /\ Halves(number)[30] = 0 => 30 \notin BitsOf(number)
  <1> DEFINE half(m) == m \div 2
             step == [k \in 1..30 |-> [m \in Nat |-> half(m)]]
  <1>0. \A m \in Nat : half(m) \in Nat
    BY HalfIs
  <1> HIDE DEF half
  <1>1. step \in [1..30 -> [Nat -> Nat]]
    BY <1>0
  <1>2. PICK f : Rounds(30, Nat, number, step, f)
    <2> HIDE DEF step
    <2>1. QED
      BY <1>1, Recursion
  <1>3. \A k \in 1..30 : f[k] = half(f[k - 1])
    <2>1. \A k \in 1..30 : k - 1 \in 0..30
      OBVIOUS
    <2>2. \A k \in 1..30 : f[k - 1] \in Nat
      BY <1>2, <2>1 DEF Rounds
    <2>3. QED
      BY <1>2, <2>2 DEF Rounds
  <1>4. IsHalves(number, f)
    <2>1. \A k \in 0..30 : k = 0 \/ k \in 1..30
      OBVIOUS
    <2>2. \A k \in 0..30 : f[k] = IF k = 0 THEN number ELSE half(f[k - 1])
      BY <1>2, <1>3, <2>1 DEF Rounds
    <2>3. f = [k \in 0..30 |-> IF k = 0 THEN number ELSE half(f[k - 1])]
      BY <1>2, <2>2 DEF Rounds
    <2>4. QED
      BY <2>3 DEF IsHalves, half
  <1> DEFINE h == Halves(number)
             bits == BitsOf(number)
  <1>5. h = [k \in 0..30 |-> IF k = 0 THEN number ELSE half(h[k - 1])]
    BY <1>4 DEF Halves, IsHalves, half
  <1>6. bits = {bit \in 0..30 : h[bit] % 2 = 1}
    BY DEF BitsOf, Halves, IsHalves
  <1> HIDE DEF h, bits
  <1>7. h[0] = number /\ \A k \in 1..30 : h[k] = half(h[k - 1])
    <2>1. \A k \in 1..30 : k \in 0..30 /\ k # 0
      OBVIOUS
    <2>2. QED
      BY <1>5, <2>1
  <1>8. \A k \in 0..30 : h[k] \in Nat
    <2>1. ASSUME NEW k \in 1..30, h[k - 1] \in Nat PROVE h[k] \in Nat
      BY <1>0, <1>7, <2>1
    <2>2. h[0] \in Nat
      BY <1>7
    <2>3. QED
      BY <2>1, <2>2, RoundsTyped
  <1>9. ASSUME NEW k \in 0..29 PROVE h[k] = 2 * h[k + 1] + One(k, bits)
    <2>1. k \in 0..30 /\ k + 1 \in 1..30 /\ k + 1 - 1 = k
      OBVIOUS
    <2> DEFINE n == h[k]
    <2>2. n \in Nat /\ h[k + 1] = half(n) /\ (k \in bits <=> n % 2 = 1)
      BY <1>6, <1>7, <1>8, <2>1
    <2> HIDE DEF n
    <2>3. n = (2 * half(n)) + (n % 2) /\ n % 2 \in 0..1 /\ half(n) \in Nat
      BY <2>2, HalfIs DEF half
    <2>4. n % 2 = One(k, bits)
      BY <2>2, <2>3 DEF One
    <2>5. n = 2 * h[k + 1] + One(k, bits)
      BY <2>2, <2>3, <2>4
    <2>6. QED
      BY <2>5 DEF n
  <1>10. h[30] = 0 => 30 \notin bits
    <2>1. 0 % 2 # 1
      OBVIOUS
    <2>2. QED
      BY <1>6, <2>1
  <1>11. QED
    BY <1>6, <1>7, <1>8, <1>9, <1>10 DEF h, bits

\* A number of 16 bits has no half left after 16 rounds.
LEMMA HalvesEnd ==
    ASSUME NEW number \in Nat, number < 256 * 256, NEW k \in 16..30
    PROVE  Halves(number)[k] = 0
  <1> DEFINE h == Halves(number)
  <1>1. /\ h[0] = number /\ \A j \in 0..30 : h[j] \in Nat
        /\ \A j \in 0..29 : h[j] = 2 * h[j + 1] + One(j, BitsOf(number))
    BY HalvesIs
  <1> HIDE DEF h
  <1>2. ASSUME NEW j \in 0..29 PROVE 2 * h[j + 1] <= h[j] /\ h[j + 1] \in Nat /\ h[j] \in Nat
    <2>1. j \in 0..30 /\ j + 1 \in 0..30
      OBVIOUS
    <2>2. QED
      BY <1>1, <2>1 DEF One
  <1>3. h[4] < 256 * 16
    <2>1. 2 * h[1] <= h[0] /\ 2 * h[0 + 1 + 1] <= h[1] /\ 2 * h[2 + 1] <= h[2]
          /\ 2 * h[3 + 1] <= h[3] /\ h[0] \in Nat
      BY <1>2
    <2>2. QED
      BY <1>1, <1>2, <2>1
  <1>4. h[8] < 256
    BY <1>2, <1>3
  <1>5. h[12] < 16
    BY <1>2, <1>4
  <1>6. h[16] = 0
    BY <1>2, <1>5
  <1> DEFINE T == {j \in 0..14 : h[16 + j] = 0}
  <1>7. 0 \in T
    BY <1>6
  <1>8. ASSUME NEW j \in 0..13, j \in T PROVE j + 1 \in T
    <2>1. 16 + j \in 0..29 /\ 16 + (j + 1) = 16 + j + 1 /\ j + 1 \in 0..14
      OBVIOUS
    <2>2. 2 * h[16 + j + 1] <= h[16 + j] /\ h[16 + j + 1] \in Nat /\ h[16 + j] = 0
      BY <1>2, <1>8, <2>1
    <2>3. QED
      BY <2>1, <2>2
  <1>9. \A j \in 0..14 : j \in T
    <2> HIDE DEF T
    <2>1. \A j \in 0..14 - 1 : j \in T => j + 1 \in T
      BY <1>8
    <2>2. QED
      BY <1>7, <2>1, Induction
  <1>10. k - 16 \in 0..14 /\ 16 + (k - 16) = k
    OBVIOUS
  <1>11. QED
    BY <1>9, <1>10 DEF h

\* The value of the highest bits.
IsValues(bits, v) ==
    v = [k \in 0..31 |->
            IF k = 0 THEN 0 ELSE 2 * v[k - 1] + (IF 31 - k \in bits THEN 1 ELSE 0)]
Values(bits) == CHOOSE v : IsValues(bits, v)

\* Each further bit is added to twice the value of those above it.
LEMMA ValuesIs ==
    ASSUME NEW bits
    PROVE  /\ Values(bits)[0] = 0
           /\ \A k \in 1..31 :
                Values(bits)[k] = 2 * Values(bits)[k - 1] + One(31 - k, bits)
           /\ NumberOf(bits) = Values(bits)[31]
  <1> DEFINE one(k) == One(31 - k, bits)
             step == [k \in 1..31 |-> [m \in Nat |-> 2 * m + one(k)]]
  <1>1. step \in [1..31 -> [Nat -> Nat]]
    BY DEF One
  <1>2. PICK f : Rounds(31, Nat, 0, step, f)
    <2> HIDE DEF step
    <2>1. QED
      BY <1>1, Recursion
  <1> HIDE DEF one
  <1>3. \A k \in 1..31 : f[k] = 2 * f[k - 1] + one(k)
    <2>1. \A k \in 1..31 : k - 1 \in 0..31
      OBVIOUS
    <2>2. \A k \in 1..31 : f[k - 1] \in Nat
      BY <1>2, <2>1 DEF Rounds
    <2>3. QED
      BY <1>2, <2>2 DEF Rounds
  <1>4. IsValues(bits, f)
    <2>1. \A k \in 0..31 : k = 0 \/ k \in 1..31
      OBVIOUS
    <2>2. \A k \in 0..31 : f[k] = IF k = 0 THEN 0 ELSE 2 * f[k - 1] + one(k)
      BY <1>2, <1>3, <2>1 DEF Rounds
    <2>3. f = [k \in 0..31 |-> IF k = 0 THEN 0 ELSE 2 * f[k - 1] + one(k)]
      BY <1>2, <2>2 DEF Rounds
    <2>4. QED
      BY <2>3 DEF IsValues, one, One
  <1> DEFINE v == Values(bits)
  <1>5. v = [k \in 0..31 |-> IF k = 0 THEN 0 ELSE 2 * v[k - 1] + one(k)]
    BY <1>4 DEF Values, IsValues, one, One
  <1>6. NumberOf(bits) = v[31]
    BY DEF NumberOf, Values, IsValues
  <1> HIDE DEF v
  <1>7. v[0] = 0 /\ \A k \in 1..31 : v[k] = 2 * v[k - 1] + one(k)
    <2>1. \A k \in 1..31 : k \in 0..31 /\ k # 0
      OBVIOUS
    <2>2. QED
      BY <1>5, <2>1
  <1>8. QED
    BY <1>6, <1>7 DEF v, one

\* A number of 16 bits is the number of its bits, and they are below 16.
LEMMA NumberOfBits ==
    ASSUME NEW number \in Nat, number < 256 * 256
    PROVE  BitsOf(number) \in SUBSET (0..15) /\ NumberOf(BitsOf(number)) = number
  <1> DEFINE h == Halves(number)
             bits == BitsOf(number)
             v == Values(bits)
  <1>1. /\ bits \in SUBSET (0..30)
        /\ h[0] = number
        /\ \A k \in 0..29 : h[k] = 2 * h[k + 1] + One(k, bits)
        /\ h[30] = 0 => 30 \notin bits
    BY HalvesIs
  <1>2. \A k \in 16..30 : h[k] = 0
    BY HalvesEnd
  <1>3. /\ v[0] = 0 /\ NumberOf(bits) = v[31]
        /\ \A k \in 1..31 : v[k] = 2 * v[k - 1] + One(31 - k, bits)
    BY ValuesIs
  <1> HIDE DEF h, bits, v
  <1>4. ASSUME NEW bit \in bits PROVE bit \in 0..15
    <2>1. bit \in 0..30 /\ bit # 30
      BY <1>1, <1>2
    <2>2. CASE bit \in 16..29
      <3>1. h[bit] = 0 /\ h[bit + 1] = 0 /\ h[bit] = 2 * h[bit + 1] + One(bit, bits)
        <4>1. bit \in 16..30 /\ bit + 1 \in 16..30 /\ bit \in 0..29
          BY <2>2
        <4>2. QED
          BY <1>1, <1>2, <4>1
      <3>2. One(bit, bits) = 1
        BY DEF One
      <3>3. QED
        BY <3>1, <3>2
    <2>3. QED
      BY <2>1, <2>2
  <1> DEFINE T == {k \in 0..30 : v[k + 1] = h[30 - k]}
  <1>5. 0 \in T
    <2>1. v[1] = 2 * v[0] + One(30, bits)
      BY <1>3
    <2>2. One(30, bits) = 0 /\ h[30] = 0
      BY <1>1, <1>2 DEF One
    <2>3. QED
      BY <1>3, <2>1, <2>2
  <1>6. ASSUME NEW k \in 0..29, k \in T PROVE k + 1 \in T
    <2> DEFINE bit == 29 - k
    <2>1. /\ k + 1 + 1 \in 1..31 /\ k + 1 + 1 - 1 = k + 1 /\ 31 - (k + 1 + 1) = bit
          /\ bit \in 0..29 /\ bit + 1 = 30 - k /\ 30 - (k + 1) = bit
          /\ k + 1 \in 0..30
      OBVIOUS
    <2> HIDE DEF bit
    <2>2. v[k + 1 + 1] = 2 * v[k + 1] + One(bit, bits)
      BY <1>3, <2>1
    <2>3. v[k + 1] = h[bit + 1] /\ h[bit] = 2 * h[bit + 1] + One(bit, bits)
      BY <1>1, <1>6, <2>1
    <2>4. QED
      BY <2>1, <2>2, <2>3
  <1>7. \A k \in 0..30 : k \in T
    <2> HIDE DEF T
    <2>1. \A k \in 0..30 - 1 : k \in T => k + 1 \in T
      BY <1>6
    <2>2. QED
      BY <1>5, <2>1, Induction
  <1>8. v[31] = h[0]
    <2>1. 30 \in 0..30 /\ 30 + 1 = 31 /\ 30 - 30 = 0
      OBVIOUS
    <2>2. v[30 + 1] = h[30 - 30]
      BY <1>7, <2>1
    <2>3. QED
      BY <2>1, <2>2
  <1>9. QED
    BY <1>1, <1>3, <1>4, <1>8 DEF bits

-----------------------------------------------------------------------------
(* A packet of two fields. *)

\* One part of m bytes, and another of n bytes behind it.
IsJoined(s, m, t, n, st) ==
    /\ st \in Seq(Byte) /\ Len(st) = m + n
    /\ \A i \in 1..n : st[m + i] = t[i]
    /\ SubSeq(st, 1, m) = s
    /\ SubSeq(st, m + 1, m + n) = t

\* That is what joins them.
LEMMA JoinIs ==
    ASSUME NEW s \in Seq(Byte), NEW t \in Seq(Byte), NEW m, m = Len(s), NEW n, n = Len(t)
    PROVE  IsJoined(s, m, t, n, s \o t)
  <1> DEFINE st == s \o t
             S == Byte
  <1>1. /\ m \in Nat /\ n \in Nat /\ st \in Seq(S) /\ Len(st) = m + n
        /\ \A i \in 1..m + n : st[i] = IF i <= m THEN s[i] ELSE t[i - m]
        /\ \A i \in 1..m + n : st[i] \in S
    <2>1. /\ st \in Seq(S) /\ Len(st) = m + n
          /\ \A i \in 1..m + n : st[i] = IF i <= m THEN s[i] ELSE t[i - m]
      BY ConcatProperties
    <2>2. \A i \in 1..Len(st) : st[i] \in S
      BY <2>1, ElementOfSeq
    <2>3. QED
      BY <2>1, <2>2, LenProperties
  <1> HIDE DEF st
  <1>2. \A i \in 1..m : st[i] = s[i]
    BY <1>1
  <1>3. ASSUME NEW i \in 1..n PROVE st[m + i] = t[i]
    <2> DEFINE k == m + i
    <2>1. k \in 1..m + n /\ ~(k <= m) /\ k - m = i
      BY <1>1
    <2> HIDE DEF k
    <2>2. st[k] = IF k <= m THEN s[k] ELSE t[k - m]
      BY <1>1, <2>1
    <2>3. QED
      BY <2>1, <2>2 DEF k
  <1> DEFINE front == SubSeq(st, 1, m)
             low == m + 1
             high == m + n
             back == SubSeq(st, low, high)
  <1>4. front = s
    <2>1. \A i \in 1..m : st[i] \in S
      BY <1>1
    <2>2. /\ front \in Seq(S) /\ Len(front) = IF 1 <= m THEN m - 1 + 1 ELSE 0
          /\ \A i \in 1..m - 1 + 1 : front[i] = st[1 + i - 1]
      BY <1>1, <2>1, SubSeqProperties
    <2> HIDE DEF front
    <2>3. Len(front) = m /\ \A i \in 1..m : front[i] = s[i]
      BY <1>1, <1>2, <2>2
    <2>4. QED
      BY <2>2, <2>3, SeqEqual
  <1>5. back = t
    <2>1. /\ \A i \in low..high : st[i] \in S
          /\ low \in Int /\ high \in Int /\ high - low + 1 = n /\ (low <= high <=> n # 0)
          /\ \A i \in 1..n : low + i - 1 = m + i
      BY <1>1
    <2> HIDE DEF low, high
    <2>2. /\ back \in Seq(S) /\ Len(back) = IF low <= high THEN high - low + 1 ELSE 0
          /\ \A i \in 1..high - low + 1 : back[i] = st[low + i - 1]
      BY <2>1, SubSeqProperties
    <2> HIDE DEF back
    <2>3. Len(back) = n /\ \A i \in 1..n : back[i] = t[i]
      BY <1>3, <2>1, <2>2
    <2>4. QED
      BY <2>2, <2>3, SeqEqual
  <1>6. QED
    BY <1>1, <1>3, <1>4, <1>5 DEF IsJoined, st

\* Two parts, one after the other.
LEMMA FlattenTwo ==
    ASSUME NEW S, NEW s \in Seq(S), NEW t \in Seq(S)
    PROVE  FlattenSeq(<<s, t>>) = s \o t
  <1> DEFINE seqs == <<s, t>>
             Is(g) == g = [i \in 1..Len(seqs) |-> IF i = 1 THEN seqs[i] ELSE g[i - 1] \o seqs[i]]
             f == [i \in 1..2 |-> IF i = 1 THEN s ELSE s \o t]
  <1>1. Len(seqs) = 2 /\ seqs[1] = s /\ seqs[2] = t
    OBVIOUS
  <1>2. f[1] = s /\ f[2] = s \o t /\ DOMAIN f = 1..2
    OBVIOUS
  <1>3. FlattenSeq(seqs) = (CHOOSE g : Is(g))[Len(seqs)]
    BY <1>1 DEF FlattenSeq
  <1> HIDE DEF seqs
  <1>4. Is(f)
    <2>1. \A i \in 1..2 : i = 1 \/ i = 2
      OBVIOUS
    <2>2. \A i \in 1..2 : f[i] = IF i = 1 THEN seqs[i] ELSE f[i - 1] \o seqs[i]
      BY <1>1, <1>2, <2>1
    <2>3. f = [i \in 1..2 |-> f[i]]
      OBVIOUS
    <2> HIDE DEF f
    <2>4. f = [i \in 1..2 |-> IF i = 1 THEN seqs[i] ELSE f[i - 1] \o seqs[i]]
      BY <2>2, <2>3
    <2>5. QED
      BY <1>1, <2>4
  <1> DEFINE g == CHOOSE r : Is(r)
  <1>5. Is(g)
    <2> HIDE DEF Is, f
    <2>1. QED
      BY <1>4
  <1>6. g = [i \in 1..2 |-> IF i = 1 THEN seqs[i] ELSE g[i - 1] \o seqs[i]]
    BY <1>1, <1>5
  <1>7. FlattenSeq(seqs) = g[2]
    BY <1>1, <1>3
  <1> HIDE DEF g
  <1>8. g[1] = s
    <2>1. 1 \in 1..2
      OBVIOUS
    <2>2. QED
      BY <1>1, <1>6, <2>1
  <1>9. g[2] = g[1] \o t
    <2>1. 2 \in 1..2 /\ 2 # 1 /\ 2 - 1 = 1
      OBVIOUS
    <2>2. QED
      BY <1>1, <1>6, <2>1
  <1>10. QED
    BY <1>7, <1>8, <1>9 DEF seqs

\* A packet of two fields: its bytes, that the receiver takes them as valid, and
\* that it reads of each field what fits into its size.
IsPacketOf(packet, p, x, q, y) ==
    /\ packet \in Seq(Byte) /\ Len(packet) = CRC_SIZE + p + q
    /\ IsValid(packet)
    /\ Fields(packet, <<p, q>>)[1] = x \cap 0..8 * p - 1
    /\ Fields(packet, <<p, q>>)[2] = y \cap 0..8 * q - 1

\* That is what ToBytes makes of two fields.
LEMMA PacketOfTwo ==
    ASSUME NEW p \in Nat, NEW x, NEW q \in Nat, NEW y,
           NEW packet, packet = ToBytes(<<[size |-> p, bits |-> x], [size |-> q, bits |-> y]>>)
    PROVE  IsPacketOf(packet, p, x, q, y)
  <1> DEFINE a == [size |-> p, bits |-> x]
             b == [size |-> q, bits |-> y]
             wa == Written(a)
             wb == Written(b)
             body == wa \o wb
             place == Written([size |-> 4, bits |-> {}])
             buffer == place \o body
             head == Written([size |-> 4, bits |-> Checksum(buffer)])
  <1>1. /\ wa \in Seq(Byte) /\ Len(wa) = p /\ Read(wa) = x \cap 0..8 * p - 1
        /\ wb \in Seq(Byte) /\ Len(wb) = q /\ Read(wb) = y \cap 0..8 * q - 1
        /\ place \in Seq(Byte) /\ Len(place) = 4
    BY WrittenIs
  <1>2. head \in Seq(Byte) /\ Len(head) = 4 /\ Read(head) = Checksum(buffer) \cap 0..8 * 4 - 1
    <2> HIDE DEF buffer
    <2>1. QED
      BY WrittenIs
  <1>3. FlattenSeq([i \in DOMAIN <<a, b>> |-> Written(<<a, b>>[i])]) = body
    <2>1. [i \in DOMAIN <<a, b>> |-> Written(<<a, b>>[i])] = <<wa, wb>>
      OBVIOUS
    <2> HIDE DEF wa, wb, a, b
    <2>2. QED
      BY <1>1, <2>1, FlattenTwo
  <1>4. packet = head \o Payload(buffer)
    BY <1>3 DEF ToBytes, CRC_SIZE
  <1> HIDE DEF a, b, wa, wb, place, head
  <1>5. IsJoined(wa, p, wb, q, body)
    BY <1>1, JoinIs
  <1> HIDE DEF body
  <1>6. /\ body \in Seq(Byte) /\ Len(body) = p + q
        /\ SubSeq(body, 1, p) = wa /\ SubSeq(body, p + 1, p + q) = wb
    BY <1>5 DEF IsJoined
  <1>7. Payload(buffer) = body /\ buffer \in Seq(Byte) /\ Len(buffer) = 4 + (p + q)
    <2>1. IsJoined(place, 4, body, p + q, buffer)
      BY <1>1, <1>6, JoinIs
    <2> HIDE DEF buffer
    <2>2. QED
      BY <2>1 DEF IsJoined, Payload, CRC_SIZE
  <1>8. packet = head \o body
    BY <1>4, <1>7
  <1> HIDE DEF buffer
  <1>9. /\ packet \in Seq(Byte) /\ Len(packet) = 4 + (p + q)
        /\ SubSeq(packet, 1, 4) = head
        /\ SubSeq(packet, 4 + 1, 4 + (p + q)) = body
        /\ \A k \in 1..p + q : packet[4 + k] = body[k]
    <2>1. IsJoined(head, 4, body, p + q, packet)
      BY <1>2, <1>6, <1>8, JoinIs
    <2>2. QED
      BY <2>1 DEF IsJoined
  <1>10. Payload(packet) = body
    BY <1>9 DEF Payload, CRC_SIZE
  <1>11. IsValid(packet)
    <2>1. Checksum(packet) = Checksum(buffer)
      BY <1>7, <1>10 DEF Checksum
    <2>2. Checksum(buffer) \in SUBSET Word
      <3>1. Len(buffer) >= CRC_SIZE
        BY <1>7 DEF CRC_SIZE
      <3>2. QED
        BY <1>7, <3>1, HeadIs
    <2>3. Read(head) = Checksum(buffer)
      <3>1. 0..8 * 4 - 1 = Word
        BY DEF Word
      <3>2. QED
        BY <1>2, <2>2, <3>1
    <2>4. QED
      BY <1>9, <2>1, <2>3 DEF IsValid, CRC_SIZE
  <1>12. SubSeq(packet, 4 + 1, 4 + p) = wa /\ SubSeq(packet, 4 + p + 1, 4 + p + q) = wb
    <2>1. ASSUME NEW from \in 1..p + q + 1, NEW to \in 0..p + q, from <= to + 1
          PROVE  SubSeq(packet, 4 + from, 4 + to) = SubSeq(body, from, to)
      <3> DEFINE low == 4 + from
                 high == 4 + to
                 part == SubSeq(packet, low, high)
                 other == SubSeq(body, from, to)
      <3>2. /\ low \in Int /\ high \in Int /\ from \in Int /\ to \in Int
            /\ \A i \in low..high : packet[i] \in Byte
            /\ \A i \in from..to : body[i] \in Byte /\ i \in 1..p + q
        <4>1. \A i \in low..high : i \in 1..4 + (p + q)
          OBVIOUS
        <4>2. \A i \in from..to : i \in 1..p + q
          OBVIOUS
        <4>3. \A i \in 1..4 + (p + q) : packet[i] \in Byte
          BY <1>9, ElementOfSeq
        <4>4. \A i \in 1..p + q : body[i] \in Byte
          BY <1>6, ElementOfSeq
        <4>5. low \in Int /\ high \in Int /\ from \in Int /\ to \in Int
          OBVIOUS
        <4> HIDE DEF low, high
        <4>6. QED
          BY <4>1, <4>2, <4>3, <4>4, <4>5
      <3>3. high - low + 1 = to - from + 1 /\ (low <= high <=> from <= to)
        OBVIOUS
      <3>4. \A i \in 1..to - from + 1 :
              low + i - 1 = 4 + (from + i - 1) /\ from + i - 1 \in 1..p + q
        OBVIOUS
      <3> HIDE DEF low, high
      <3>5. /\ part \in Seq(Byte) /\ Len(part) = IF low <= high THEN high - low + 1 ELSE 0
            /\ \A i \in 1..high - low + 1 : part[i] = packet[low + i - 1]
        BY <3>2, SubSeqProperties
      <3>6. /\ other \in Seq(Byte) /\ Len(other) = IF from <= to THEN to - from + 1 ELSE 0
            /\ \A i \in 1..to - from + 1 : other[i] = body[from + i - 1]
        BY <3>2, SubSeqProperties
      <3> HIDE DEF part, other
      <3>7. Len(part) = Len(other) /\ \A i \in 1..Len(part) : i \in 1..to - from + 1
        BY <3>3, <3>5, <3>6
      <3>8. ASSUME NEW i \in 1..Len(part) PROVE part[i] = other[i]
        <4>1. i \in 1..to - from + 1 /\ i \in 1..high - low + 1
          BY <3>3, <3>7
        <4>2. /\ part[i] = packet[low + i - 1] /\ other[i] = body[from + i - 1]
              /\ low + i - 1 = 4 + (from + i - 1) /\ from + i - 1 \in 1..p + q
          BY <3>4, <3>5, <3>6, <4>1
        <4>3. packet[4 + (from + i - 1)] = body[from + i - 1]
          BY <1>9, <4>2
        <4>4. QED
          BY <4>2, <4>3
      <3>9. part = other
        BY <3>5, <3>6, <3>7, <3>8, SeqEqual
      <3>10. QED
        BY <3>9 DEF part, other, low, high
    <2>2. SubSeq(packet, 4 + 1, 4 + p) = SubSeq(body, 1, p)
      <3>1. 1 \in 1..p + q + 1 /\ p \in 0..p + q /\ 1 <= p + 1
        OBVIOUS
      <3>2. QED
        BY <2>1, <3>1
    <2>3. SubSeq(packet, 4 + (p + 1), 4 + (p + q)) = SubSeq(body, p + 1, p + q)
      <3> DEFINE from == p + 1
                 to == p + q
      <3>1. from \in 1..p + q + 1 /\ to \in 0..p + q /\ from <= to + 1
        OBVIOUS
      <3> HIDE DEF from, to
      <3>2. SubSeq(packet, 4 + from, 4 + to) = SubSeq(body, from, to)
        BY <2>1, <3>1
      <3>3. QED
        BY <3>2 DEF from, to
    <2>4. 4 + (p + 1) = 4 + p + 1 /\ 4 + (p + q) = 4 + p + q
      OBVIOUS
    <2>5. QED
      BY <1>6, <2>2, <2>3, <2>4
  <1>13. /\ Fields(packet, <<p, q>>)[1] = Read(SubSeq(packet, 4 + 1, 4 + p))
         /\ Fields(packet, <<p, q>>)[2] = Read(SubSeq(packet, 4 + p + 1, 4 + p + q))
    <2> DEFINE sizes == <<p, q>>
               Is(g) == g = [i \in 1..Len(sizes) |->
                                IF i = 1 THEN CRC_SIZE ELSE g[i - 1] + sizes[i - 1]]
               f == [i \in 1..2 |-> IF i = 1 THEN 4 ELSE 4 + p]
               g == CHOOSE r : Is(r)
    <2>1. Len(sizes) = 2 /\ sizes[1] = p /\ sizes[2] = q
      OBVIOUS
    <2>2. Fields(packet, sizes) =
            [i \in 1..Len(sizes) |-> Read(SubSeq(packet, g[i] + 1, g[i] + sizes[i]))]
      BY DEF Fields
    <2> HIDE DEF sizes
    <2>3. Is(f)
      <3>1. f[1] = 4 /\ f[2] = 4 + p
        OBVIOUS
      <3>2. \A i \in 1..2 : i = 1 \/ (i = 2 /\ i # 1 /\ i - 1 = 1)
        OBVIOUS
      <3>3. \A i \in 1..2 : f[i] = IF i = 1 THEN CRC_SIZE ELSE f[i - 1] + sizes[i - 1]
        BY <2>1, <3>1, <3>2 DEF CRC_SIZE
      <3>4. f = [i \in 1..2 |-> f[i]]
        OBVIOUS
      <3> HIDE DEF f
      <3>5. QED
        BY <2>1, <3>3, <3>4
    <2>4. Is(g)
      <3> HIDE DEF Is, f
      <3>1. QED
        BY <2>3
    <2>5. g = [i \in 1..2 |-> IF i = 1 THEN 4 ELSE g[i - 1] + sizes[i - 1]]
      BY <2>1, <2>4 DEF CRC_SIZE
    <2> HIDE DEF g
    <2>6. 1 \in 1..2 /\ 2 \in 1..2 /\ 2 # 1 /\ 2 - 1 = 1
      OBVIOUS
    <2>7. g[1] = 4 /\ g[2] = 4 + p
      BY <2>1, <2>5, <2>6
    <2>8. /\ Fields(packet, sizes)[1] = Read(SubSeq(packet, g[1] + 1, g[1] + sizes[1]))
          /\ Fields(packet, sizes)[2] = Read(SubSeq(packet, g[2] + 1, g[2] + sizes[2]))
      BY <2>1, <2>2, <2>6
    <2>9. QED
      BY <2>1, <2>7, <2>8 DEF sizes
  <1>14. 4 + (p + q) = CRC_SIZE + p + q
    BY DEF CRC_SIZE
  <1>15. QED
    BY <1>1, <1>9, <1>11, <1>12, <1>13, <1>14 DEF IsPacketOf

-----------------------------------------------------------------------------
(* Numbers and their numbers on the wire. *)

\* The elements of a sequence, its last one among them.
LEMMA ToSetIs ==
    ASSUME NEW S, NEW s \in Seq(S)
    PROVE  /\ ToSet(s) \subseteq S
           /\ \A i \in DOMAIN s : s[i] \in ToSet(s)
           /\ s # <<>> => Last(s) \in ToSet(s)
  <1>1. DOMAIN s = 1..Len(s) /\ Len(s) \in Nat /\ \A i \in 1..Len(s) : s[i] \in S
    BY LenProperties, ElementOfSeq
  <1>2. \A x : x \in ToSet(s) <=> \E i \in DOMAIN s : s[i] = x
    BY DEF ToSet
  <1>3. s # <<>> => Len(s) \in DOMAIN s
    BY <1>1, EmptySeq
  <1>4. QED
    BY <1>1, <1>2, <1>3 DEF Last

\* A number is what its run of the wire numbers and its wire number make it.
LEMMA SmallIs ==
    ASSUME NEW number \in Nat
    PROVE  /\ number = Lap(number) * SEQUENCE_NUMBER_MAX + Small(number)
           /\ Lap(number) \in Nat /\ Small(number) \in Nat
           /\ Small(number) < SEQUENCE_NUMBER_MAX
  <1> DEFINE S == SEQUENCE_NUMBER_MAX
  <1>1. S \in Nat /\ S > 0
    BY WordAssumption DEF SEQUENCE_NUMBER_MAX
  <1> HIDE DEF S
  <1>2. /\ number = (number \div S) * S + (number % S)
        /\ number % S \in 0..S - 1 /\ number \div S \in Nat
    BY <1>1
  <1>3. QED
    BY <1>1, <1>2 DEF Small, Lap, S

\* Within a run, numbers are as far apart as their wire numbers.
LEMMA SameLap ==
    ASSUME NEW a \in Nat, NEW b \in Nat, Lap(a) = Lap(b)
    PROVE  /\ Small(b) - Small(a) = b - a
           /\ Small(a) \in Nat /\ Small(b) \in Nat
           /\ Small(a) < WORD /\ Small(b) < WORD /\ WORD \in Nat
  <1> DEFINE S == SEQUENCE_NUMBER_MAX
             base == Lap(a) * S
  <1>1. S \in Nat /\ S < WORD /\ WORD \in Nat
    BY WordAssumption DEF SEQUENCE_NUMBER_MAX
  <1> HIDE DEF S
  <1>2. /\ a = base + Small(a) /\ b = base + Small(b) /\ base \in Nat
        /\ Small(a) \in Nat /\ Small(b) \in Nat /\ Small(a) < S /\ Small(b) < S
    <2>1. /\ a = Lap(a) * S + Small(a) /\ Lap(a) \in Nat
          /\ Small(a) \in Nat /\ Small(a) < S
      BY SmallIs DEF S
    <2>2. b = Lap(b) * S + Small(b) /\ Small(b) \in Nat /\ Small(b) < S
      BY SmallIs DEF S
    <2>3. base \in Nat
      BY <1>1, <2>1
    <2>4. QED
      BY <2>1, <2>2, <2>3
  <1> HIDE DEF base
  <1>3. QED
    BY <1>1, <1>2

\* Then SequenceNumberDiff counts a later number by the distance.
LEMMA StepAhead ==
    ASSUME NEW a \in Nat, NEW b \in Nat, Lap(a) = Lap(b), a < b
    PROVE  SequenceNumberDiff(Small(a), Small(b)) = b - a
  <1> DEFINE x == Small(a)
             y == Small(b)
  <1>1. /\ y - x = b - a /\ x \in Nat /\ y \in Nat /\ x < WORD /\ y < WORD
        /\ WORD \in Nat
    BY SameLap
  <1> HIDE DEF x, y
  <1>2. y - x \in 0..WORD - 1 /\ ~(x > y) /\ y - x \in Nat /\ y - x < WORD
    BY <1>1
  <1>3. (y - x) % WORD = y - x
    BY <1>1, <1>2
  <1>4. SequenceNumberDiff(x, y) = y - x
    BY <1>2, <1>3 DEF SequenceNumberDiff
  <1>5. QED
    BY <1>1, <1>4 DEF x, y

\* And an earlier one, at most half the range behind, by the same.
LEMMA StepBehind ==
    ASSUME NEW a \in Nat, NEW b \in Nat, Lap(a) = Lap(b), a <= b,
           b - a <= SEQUENCE_NUMBER_HALF
    PROVE  SequenceNumberDiff(Small(b), Small(a)) = b - a
  <1> DEFINE x == Small(a)
             y == Small(b)
  <1>1. /\ y - x = b - a /\ x \in Nat /\ y \in Nat /\ x < WORD /\ y < WORD
        /\ WORD \in Nat /\ WORD > 0
    BY SameLap
  <1> HIDE DEF x, y
  <1>2. CASE a < b
    <2>1. y > x /\ y - x <= SEQUENCE_NUMBER_HALF
      BY <1>1, <1>2
    <2>2. SequenceNumberDiff(y, x) = y - x
      BY <2>1 DEF SequenceNumberDiff
    <2>3. QED
      BY <1>1, <2>2 DEF x, y
  <1>3. CASE a = b
    <2>1. x = y /\ x - y = 0 /\ 0 % WORD = 0 /\ ~(y > x) /\ b - a = 0
      BY <1>1, <1>3
    <2>2. SequenceNumberDiff(y, x) = 0
      BY <2>1 DEF SequenceNumberDiff
    <2>3. QED
      BY <2>1, <2>2 DEF x, y
  <1>4. QED
    BY <1>2, <1>3

\* The distance of two wire numbers is a number, and 0 only between equal ones.
LEMMA DiffIs ==
    ASSUME NEW a \in Nat, NEW b \in Nat
    PROVE  /\ SequenceNumberDiff(Small(a), Small(b)) \in Nat
           /\ ~(SequenceNumberDiff(Small(a), Small(b)) > 0) => Small(a) = Small(b)
  <1> DEFINE x == Small(a)
             y == Small(b)
             diff == SequenceNumberDiff(x, y)
  <1>1. /\ x \in Nat /\ y \in Nat /\ x < WORD /\ y < WORD /\ WORD \in Nat /\ WORD > 0
    BY SmallIs, WordAssumption DEF SEQUENCE_NUMBER_MAX
  <1> HIDE DEF x, y
  <1>2. (y - x) % WORD = IF x <= y THEN y - x ELSE y - x + WORD
    <2>1. CASE x <= y
      BY <1>1, <2>1
    <2>2. CASE x > y
      BY <1>1, <2>2
    <2>3. QED
      BY <1>1, <2>1, <2>2
  <1> DEFINE around == (y - x) % WORD
  <1>3. diff = IF x > y /\ x - y <= SEQUENCE_NUMBER_HALF THEN x - y ELSE around
    BY DEF SequenceNumberDiff
  <1>4. around = IF x <= y THEN y - x ELSE y - x + WORD
    BY <1>2
  <1> HIDE DEF around, diff
  <1>5. diff \in Nat /\ (~(diff > 0) => x = y)
    BY <1>1, <1>3, <1>4
  <1>6. QED
    BY <1>5 DEF x, y, diff

-----------------------------------------------------------------------------
(* The invariant of the scheme. *)

\* What a packet says.
AckIn(packet) == NumberOf(Fields(packet, AckSizes)[1])
AckBitsIn(packet) == Fields(packet, AckSizes)[2]

\* A packet says what it was sent to say; and that is that packets of numbers
\* arrived, if those of the window had come in order.
Tells(packet, numbers) ==
    /\ told.number \in numbers /\ told.ackBits \subseteq Bits
    /\ AckIn(packet) = Small(told.number)
    /\ AckBitsIn(packet) = told.ackBits
    /\ told.tidy =>
        \A bit \in told.ackBits : told.number - (ACK_BITS - bit) \in numbers

\* The numbers recorded ascend and end with large; each is as far ahead of the
\* one before it as the distance of the wire numbers of the packets in packets
\* behind the two; and small is the wire number of the last of these.
Recorded(numbers, packets, large, small, A) ==
    /\ numbers \in Seq(1..MaxCounted) /\ Ascends(numbers)
    /\ Len(numbers) <= KEEP_RECEIVED
    /\ packets \in Seq(A) /\ Len(packets) = Len(numbers)
    /\ numbers = <<>> => large = 0
    /\ numbers # <<>> =>
        /\ numbers[Len(numbers)] = large
        /\ Small(packets[Len(numbers)]) = small
    /\ \A i \in 1..Len(numbers) - 1 :
        numbers[i + 1] - numbers[i] =
            SequenceNumberDiff(Small(packets[i]), Small(packets[i + 1]))

SentInv ==
    /\ sent \in Seq(PacketInfo) /\ Len(sent) <= MaxNumber
    /\ \A i \in DOMAIN sent : sent[i].seqNum = i

ReceivedInv ==
    /\ arrived \subseteq 1..Len(sent)
    /\ newest \in arrived \cup {0} /\ (arrived # {} => newest \in arrived)
    /\ remoteSequenceNumberLarge \in 0..MaxCounted
    /\ remoteSequenceNumberSmall = Small(newest)
    /\ Recorded(received, handled, remoteSequenceNumberLarge,
                remoteSequenceNumberSmall, arrived)

AnswerInv ==
    /\ damaged \in BOOLEAN
    /\ answer # NoAnswer =>
        /\ answer \in Seq(Byte) /\ Len(answer) = 10
        /\ ~damaged => IsValid(answer)
        /\ IsValid(answer) => Tells(answer, arrived)

AcksInv == SentInv /\ ReceivedInv /\ AnswerInv

\* How many numbers KeepLast takes away.
Dropped(n) == IF n > KEEP_RECEIVED THEN n - KEEP_RECEIVED ELSE 0

\* What KeepLast leaves are the last ones.
LEMMA KeepLastIs ==
    ASSUME NEW S, NEW s \in Seq(S)
    PROVE  /\ KeepLast(s) \in Seq(S)
           /\ Len(KeepLast(s)) = Len(s) - Dropped(Len(s))
           /\ \A i \in 1..Len(KeepLast(s)) : KeepLast(s)[i] = s[i + Dropped(Len(s))]
  <1> DEFINE n == Len(s)
             first == n - KEEP_RECEIVED + 1
             kept == SubSeq(s, first, n)
  <1>1. n \in Nat /\ DOMAIN s = 1..n /\ KEEP_RECEIVED \in Nat \ {0}
    BY LenProperties, AcksAssumption
  <1>2. CASE n <= KEEP_RECEIVED
    <2>1. KeepLast(s) = s /\ Dropped(n) = 0
      <3>1. ~(n > KEEP_RECEIVED)
        BY <1>1, <1>2
      <3>2. QED
        BY <3>1 DEF KeepLast, Dropped
    <2> HIDE DEF n
    <2>2. n - 0 = n /\ \A i \in 1..n : i + 0 = i
      BY <1>1
    <2>3. QED
      BY <2>1, <2>2 DEF n
  <1>3. CASE n > KEEP_RECEIVED
    <2>1. KeepLast(s) = kept /\ Dropped(n) = n - KEEP_RECEIVED
      BY <1>3 DEF KeepLast, Dropped
    <2>2. /\ first \in 1..n /\ first \in Int /\ n \in Int /\ first <= n
          /\ n - first + 1 = KEEP_RECEIVED /\ n - (n - KEEP_RECEIVED) = KEEP_RECEIVED
      BY <1>1, <1>3
    <2>3. \A k \in first..n : s[k] \in S
      BY <1>1, <2>2, ElementOfSeq
    <2>4. \A i \in 1..KEEP_RECEIVED : first + i - 1 = i + (n - KEEP_RECEIVED)
      BY <1>1
    <2> HIDE DEF first
    <2>5. /\ kept \in Seq(S)
          /\ Len(kept) = IF first <= n THEN n - first + 1 ELSE 0
          /\ \A k \in 1..n - first + 1 : kept[k] = s[first + k - 1]
      BY <2>2, <2>3, SubSeqProperties
    <2> HIDE DEF kept, n
    <2>6. Len(kept) = KEEP_RECEIVED
      BY <2>2, <2>5
    <2>7. \A i \in 1..KEEP_RECEIVED : kept[i] = s[i + (n - KEEP_RECEIVED)]
      BY <2>2, <2>4, <2>5
    <2>8. QED
      BY <2>1, <2>2, <2>5, <2>6, <2>7 DEF n
  <1>4. QED
    BY <1>1, <1>2, <1>3

\* The numbers stay recorded when one more is added, and the oldest go.
LEMMA RecordedMore ==
    ASSUME NEW numbers, NEW packets, NEW large \in Nat, NEW small, NEW A, NEW B,
           A \subseteq B, Recorded(numbers, packets, large, small, A),
           NEW number \in B, NEW diff \in Nat, diff > 0, large + diff <= MaxCounted,
           diff = SequenceNumberDiff(small, Small(number))
    PROVE  Recorded(KeepLast(Append(numbers, large + diff)),
                    KeepLast(Append(packets, number)),
                    large + diff, Small(number), B)
  <1> DEFINE n == Len(numbers)
             d == Dropped(n + 1)
             new == large + diff
             r == Append(numbers, new)
             h == Append(packets, number)
             R == KeepLast(r)
             H == KeepLast(h)
             m == (n + 1) - d
  <1>1. /\ numbers \in Seq(1..MaxCounted) /\ Ascends(numbers) /\ n \in Nat
        /\ DOMAIN numbers = 1..n /\ n <= KEEP_RECEIVED
        /\ packets \in Seq(A) /\ Len(packets) = n
        /\ KEEP_RECEIVED \in Nat \ {0} /\ MaxCounted \in Nat
    BY LenProperties, AcksAssumption DEF Recorded
  <1>2. /\ packets \in Seq(B) /\ numbers \in Seq(Nat) /\ new \in Nat
        /\ new \in 1..MaxCounted /\ large < new /\ new - large = diff
    <2>1. 1..MaxCounted \subseteq Nat
      OBVIOUS
    <2>2. packets \in Seq(B) /\ numbers \in Seq(Nat)
      BY <1>1, <2>1, SeqMonotonic
    <2>3. QED
      BY <1>1, <2>2
  <1>3. n > 0 => numbers[n] = large /\ Small(packets[n]) = small
    BY <1>1, EmptySeq DEF Recorded
  <1> HIDE DEF new
  <1>4. /\ r \in Seq(1..MaxCounted) /\ Len(r) = n + 1 /\ r[n + 1] = new
        /\ \A i \in 1..n : r[i] = numbers[i]
    BY <1>1, <1>2, AppendProperties
  <1>5. /\ h \in Seq(B) /\ Len(h) = n + 1 /\ h[n + 1] = number
        /\ \A i \in 1..n : h[i] = packets[i]
    BY <1>1, <1>2, AppendProperties
  <1>6. Ascends(r)
    <2>1. numbers # <<>> => Last(numbers) < new
      BY <1>1, <1>2, <1>3, EmptySeq DEF Last
    <2>2. QED
      BY <1>1, <1>2, <2>1, AppendAscends
  <1>7. \A i \in 1..n : r[i + 1] - r[i] = SequenceNumberDiff(Small(h[i]), Small(h[i + 1]))
    <2> SUFFICES ASSUME NEW i \in 1..n
                 PROVE  r[i + 1] - r[i] = SequenceNumberDiff(Small(h[i]), Small(h[i + 1]))
      OBVIOUS
    <2> HIDE DEF r, h, n
    <2>1. CASE i = n
      <3>1. n > 0 /\ i + 1 = n + 1
        BY <1>1, <2>1
      <3>2. r[i + 1] = new /\ r[i] = large /\ h[i + 1] = number /\ h[i] = packets[n]
        BY <1>3, <1>4, <1>5, <2>1, <3>1
      <3>3. Small(h[i]) = small /\ r[i + 1] - r[i] = diff
        BY <1>2, <1>3, <3>1, <3>2
      <3>4. QED
        BY <3>2, <3>3
    <2>2. CASE i # n
      <3>1. i \in 1..n - 1 /\ i + 1 \in 1..n
        BY <1>1, <2>2
      <3>2. numbers[i + 1] - numbers[i] =
                SequenceNumberDiff(Small(packets[i]), Small(packets[i + 1]))
        BY <3>1 DEF Recorded, n
      <3>3. QED
        BY <1>4, <1>5, <3>1, <3>2
    <2>3. QED
      BY <2>1, <2>2
  <1>8. DOMAIN r = 1..n + 1
    BY <1>4, LenProperties
  <1> HIDE DEF r, h
  <1>9. d \in Nat /\ m \in 1..KEEP_RECEIVED /\ m + d = n + 1 /\ m \in Nat
    <2> HIDE DEF n
    <2>1. QED
      BY <1>1 DEF Dropped
  <1>10. /\ R \in Seq(1..MaxCounted) /\ Len(R) = m
         /\ \A i \in 1..m : R[i] = r[i + d]
    <2>1. KeepLast(r) \in Seq(1..MaxCounted)
      BY <1>4, KeepLastIs
    <2>2. /\ Len(KeepLast(r)) = Len(r) - Dropped(Len(r))
          /\ \A i \in 1..Len(KeepLast(r)) : KeepLast(r)[i] = r[i + Dropped(Len(r))]
      BY <1>4, KeepLastIs
    <2> DEFINE k == n + 1
    <2>3. Len(r) = k /\ d = Dropped(k) /\ m = k - d
      <3>1. Len(r) = k
        BY <1>4
      <3>2. d = Dropped(k)
        OBVIOUS
      <3>3. m = k - d
        OBVIOUS
      <3> HIDE DEF k, d, m
      <3>4. QED
        BY <3>1, <3>2, <3>3
    <2> HIDE DEF R, d, m, k, n
    <2>4. Len(R) = m
      BY <2>2, <2>3 DEF R
    <2>5. QED
      BY <2>1, <2>2, <2>3, <2>4 DEF R
  <1>11. /\ H \in Seq(B) /\ Len(H) = m
         /\ \A i \in 1..m : H[i] = h[i + d]
    <2>1. KeepLast(h) \in Seq(B)
      BY <1>5, KeepLastIs
    <2>2. /\ Len(KeepLast(h)) = Len(h) - Dropped(Len(h))
          /\ \A i \in 1..Len(KeepLast(h)) : KeepLast(h)[i] = h[i + Dropped(Len(h))]
      BY <1>5, KeepLastIs
    <2> DEFINE k == n + 1
    <2>3. Len(h) = k /\ d = Dropped(k) /\ m = k - d
      <3>1. Len(h) = k
        BY <1>5
      <3>2. d = Dropped(k)
        OBVIOUS
      <3>3. m = k - d
        OBVIOUS
      <3> HIDE DEF k, d, m
      <3>4. QED
        BY <3>1, <3>2, <3>3
    <2> HIDE DEF H, d, m, k, n
    <2>4. Len(H) = m
      BY <2>2, <2>3 DEF H
    <2>5. QED
      BY <2>1, <2>2, <2>3, <2>4 DEF H
  <1>12. DOMAIN R = 1..m
    BY <1>10, LenProperties
  <1> HIDE DEF R, H, d, m, n
  <1>13. \A i \in 1..m : i + d \in 1..n + 1
    BY <1>1, <1>9
  <1>14. Ascends(R)
    <2> SUFFICES ASSUME NEW i \in 1..m, NEW j \in 1..m, i < j PROVE R[i] < R[j]
      BY <1>12 DEF Ascends
    <2>1. i + d \in DOMAIN r /\ j + d \in DOMAIN r /\ i + d < j + d
      BY <1>8, <1>9, <1>13
    <2>2. r[i + d] < r[j + d]
      BY <1>6, <2>1 DEF Ascends
    <2>3. QED
      BY <1>10, <2>2
  <1>15. R # <<>> /\ R[m] = new /\ H[m] = number
    <2>1. m \in 1..m /\ m # 0
      BY <1>9
    <2>2. R # <<>>
      BY <1>10, <2>1, EmptySeq
    <2>3. QED
      BY <1>4, <1>5, <1>9, <1>10, <1>11, <2>1, <2>2
  <1>16. \A i \in 1..m - 1 :
            R[i + 1] - R[i] = SequenceNumberDiff(Small(H[i]), Small(H[i + 1]))
    <2> SUFFICES ASSUME NEW i \in 1..m - 1
                 PROVE  R[i + 1] - R[i] = SequenceNumberDiff(Small(H[i]), Small(H[i + 1]))
      OBVIOUS
    <2> DEFINE k == i + d
    <2>1. i \in 1..m /\ i + 1 \in 1..m /\ k \in 1..n /\ i + 1 + d = k + 1
      BY <1>1, <1>9
    <2> HIDE DEF k
    <2>2. R[i] = r[k] /\ H[i] = h[k]
      BY <1>10, <1>11, <2>1 DEF k
    <2>3. R[i + 1] = r[k + 1] /\ H[i + 1] = h[k + 1]
      BY <1>10, <1>11, <2>1
    <2>4. QED
      BY <1>7, <2>1, <2>2, <2>3
  <1>17. Recorded(R, H, new, Small(number), B)
    BY <1>9, <1>10, <1>11, <1>14, <1>15, <1>16 DEF Recorded
  <1>18. QED
    BY <1>17 DEF R, H, r, h, new

\* What is recorded of some packets is recorded of more.
LEMMA RecordedOf ==
    ASSUME NEW numbers, NEW packets, NEW large, NEW small, NEW A, NEW B,
           A \subseteq B, Recorded(numbers, packets, large, small, A)
    PROVE  Recorded(numbers, packets, large, small, B)
  <1>1. packets \in Seq(B)
    BY SeqMonotonic DEF Recorded
  <1>2. QED
    BY <1>1 DEF Recorded

-----------------------------------------------------------------------------
(* The steps. *)

\* Nothing that arrived is affected by a packet that is sent.
LEMMA SendPacketKeeps ==
    ASSUME AcksInv, SendPacket
    PROVE  AcksInv'
  <1> DEFINE number == Len(sent) + 1
             packet == [seqNum |-> number, acknowledged |-> FALSE]
  <1>1. /\ sent \in Seq(PacketInfo) /\ Len(sent) \in Nat /\ DOMAIN sent = 1..Len(sent)
        /\ Len(sent) < MaxNumber /\ MaxNumber \in Nat
        /\ \A i \in DOMAIN sent : sent[i].seqNum = i
    BY LenProperties, AcksAssumption DEF AcksInv, SentInv, SendPacket
  <1>2. packet \in PacketInfo /\ packet.seqNum = number
    BY <1>1 DEF PacketInfo
  <1>3. /\ sent' = Append(sent, packet)
        /\ UNCHANGED <<received, remoteSequenceNumberLarge, remoteSequenceNumberSmall,
                       arrived, newest, handled, answer, damaged, told>>
    BY DEF SendPacket, receiverVars, arrivalVars, answerVars
  <1> HIDE DEF packet
  <1>4. /\ sent' \in Seq(PacketInfo) /\ Len(sent') = Len(sent) + 1
        /\ \A i \in 1..Len(sent) : sent'[i] = sent[i]
        /\ sent'[number] = packet
    BY <1>1, <1>2, <1>3, AppendProperties
  <1>5. DOMAIN sent' = 1..number
    BY <1>4, LenProperties
  <1>6. SentInv'
    <2>1. \A i \in 1..number : i \in 1..Len(sent) \/ i = number
      BY <1>1
    <2>2. \A i \in DOMAIN sent' : sent'[i].seqNum = i
      BY <1>1, <1>2, <1>4, <1>5, <2>1
    <2>3. Len(sent') <= MaxNumber
      BY <1>1, <1>4
    <2>4. QED
      BY <1>4, <2>2, <2>3 DEF SentInv
  <1>7. ReceivedInv'
    <2>1. arrived \subseteq 1..Len(sent')
      BY <1>1, <1>4 DEF AcksInv, ReceivedInv
    <2>2. QED
      BY <1>3, <2>1 DEF AcksInv, ReceivedInv
  <1>8. AnswerInv'
    BY <1>3 DEF AcksInv, AnswerInv, Tells
  <1>9. QED
    BY <1>6, <1>7, <1>8 DEF AcksInv

\* What an answer tells stays true when more packets arrive.
LEMMA ReceivePacketKeeps ==
    ASSUME AcksInv, NEW number \in 1..Len(sent), ReceivePacket(number)
    PROVE  AcksInv'
  <1> DEFINE small == Small(number)
             diff == SequenceNumberDiff(remoteSequenceNumberSmall, small)
             large == remoteSequenceNumberLarge + diff
  <1>1. /\ arrived' = arrived \cup {number} /\ newest' = number
        /\ UNCHANGED <<sent, answer, damaged, told>>
    BY DEF ReceivePacket, answerVars
  <1>2. /\ arrived \subseteq 1..Len(sent) /\ newest \in arrived \cup {0} /\ newest \in Nat
        /\ Len(sent) \in Nat /\ number \in Nat /\ number \in arrived'
        /\ remoteSequenceNumberLarge \in 0..MaxCounted /\ MaxCounted \in Nat
        /\ remoteSequenceNumberLarge \in Nat
        /\ remoteSequenceNumberSmall = Small(newest)
        /\ Recorded(received, handled, remoteSequenceNumberLarge,
                    remoteSequenceNumberSmall, arrived)
        /\ arrived \subseteq arrived'
    <2>1. Len(sent) \in Nat
      BY LenProperties DEF AcksInv, SentInv
    <2>2. QED
      BY <1>1, <2>1, AcksAssumption DEF AcksInv, ReceivedInv
  <1>3. diff \in Nat /\ (~(diff > 0) => remoteSequenceNumberSmall = small)
    BY <1>2, DiffIs
  <1>4. ReceivedInv'
    <2>1. arrived' \subseteq 1..Len(sent') /\ newest' \in arrived'
      BY <1>1, <1>2
    <2>2. CASE diff > 0
      <3>1. /\ large <= MaxCounted
            /\ remoteSequenceNumberLarge' = large
            /\ remoteSequenceNumberSmall' = small
            /\ received' = KeepLast(Append(received, large))
            /\ handled' = KeepLast(Append(handled, number))
        BY <2>2 DEF ReceivePacket
      <3> HIDE DEF diff, small
      <3>2. large \in 0..MaxCounted
        BY <1>2, <1>3, <3>1
      <3>3. Recorded(KeepLast(Append(received, remoteSequenceNumberLarge + diff)),
                     KeepLast(Append(handled, number)),
                     remoteSequenceNumberLarge + diff, small, arrived')
        BY <1>2, <1>3, <2>2, <3>1, RecordedMore DEF diff, small
      <3>4. QED
        BY <1>1, <2>1, <3>1, <3>2, <3>3 DEF ReceivedInv, small
    <2>3. CASE ~(diff > 0)
      <3>1. UNCHANGED <<received, remoteSequenceNumberLarge, remoteSequenceNumberSmall,
                        handled>>
        BY <2>3 DEF ReceivePacket, receiverVars
      <3>2. Recorded(received, handled, remoteSequenceNumberLarge,
                     remoteSequenceNumberSmall, arrived')
        BY <1>2, RecordedOf
      <3>3. QED
        BY <1>1, <1>2, <1>3, <2>1, <2>3, <3>1, <3>2 DEF ReceivedInv
    <2>4. QED
      BY <2>2, <2>3
  <1>5. SentInv'
    BY <1>1 DEF AcksInv, SentInv
  <1>6. AnswerInv'
    <2>1. ASSUME answer # NoAnswer, IsValid(answer) PROVE Tells(answer, arrived')
      BY <1>2, <2>1 DEF AcksInv, AnswerInv, Tells
    <2>2. QED
      BY <1>1, <2>1 DEF AcksInv, AnswerInv, Tells
  <1>7. QED
    BY <1>4, <1>5, <1>6 DEF AcksInv

\* In a window whose numbers came in order, they are as far apart as recorded.
LEMMA TidyDistance ==
    ASSUME AcksInv, Tidy, NEW j \in 1..Len(received),
           received[j] + ACK_BITS >= remoteSequenceNumberLarge
    PROVE  /\ remoteSequenceNumberLarge - received[j] = newest - handled[j]
           /\ handled[j] \in arrived
  <1> DEFINE n == Len(received)
             large == remoteSequenceNumberLarge
             apart(k) == received[j + k] - received[j] = handled[j + k] - handled[j]
             T == {k \in 0..n - j : apart(k)}
  <1>1. /\ n \in Nat /\ j \in Nat /\ j <= n /\ n - j \in Nat /\ n \in 1..n
        /\ received # <<>> /\ received[n] = large /\ Last(handled) = handled[n]
        /\ DOMAIN received = 1..n /\ Ascends(received)
        /\ ACK_BITS \in Nat /\ large \in Nat
    <2>1. n \in Nat /\ DOMAIN received = 1..n
      BY LenProperties DEF AcksInv, ReceivedInv, Recorded
    <2>2. received # <<>>
      <3>1. n # 0
        BY <2>1
      <3>2. QED
        BY <3>1, EmptySeq
    <2>3. large \in Nat /\ received[n] = large /\ Len(handled) = n /\ Ascends(received)
      BY <2>2, AcksAssumption DEF AcksInv, ReceivedInv, Recorded
    <2>4. QED
      BY <2>1, <2>2, <2>3, AckBitsAssumption DEF Last
  <1>2. /\ \A i \in 1..n : received[i] \in Nat /\ handled[i] \in Nat
        /\ \A i \in 1..n : handled[i] \in arrived
    <2>1. received \in Seq(1..MaxCounted) /\ handled \in Seq(arrived) /\ Len(handled) = n
      BY DEF AcksInv, ReceivedInv, Recorded
    <2>2. arrived \subseteq Nat
      <3>1. Len(sent) \in Nat /\ arrived \subseteq 1..Len(sent)
        BY LenProperties DEF AcksInv, SentInv, ReceivedInv
      <3>2. QED
        BY <3>1
    <2>3. \A i \in 1..n : received[i] \in 1..MaxCounted /\ handled[i] \in arrived
      BY <2>1, ElementOfSeq
    <2> HIDE DEF n
    <2>4. \A x \in 1..MaxCounted : x \in Nat
      OBVIOUS
    <2>5. QED
      BY <2>2, <2>3, <2>4
  <1>3. \A i \in j..n - 1 : received[i + 1] - received[i] = handled[i + 1] - handled[i]
    <2> SUFFICES ASSUME NEW i \in j..n - 1
                 PROVE  received[i + 1] - received[i] = handled[i + 1] - handled[i]
      OBVIOUS
    <2> HIDE DEF n, large
    <2>1. i \in 1..n - 1 /\ i \in 1..n /\ i + 1 \in 1..n
      BY <1>1
    <2>2. received[j] <= received[i]
      <3>1. i = j \/ j < i
        BY <1>1
      <3>2. j < i => received[j] < received[i]
        BY <1>1, <2>1 DEF Ascends, n
      <3>3. QED
        BY <1>2, <2>1, <3>1, <3>2 DEF n
    <2>3. received[i] + ACK_BITS >= large
      BY <1>1, <1>2, <2>1, <2>2 DEF n, large
    <2>4. handled[i] < handled[i + 1] /\ Lap(handled[i]) = Lap(handled[i + 1])
      BY <2>1, <2>3 DEF Tidy, n, large
    <2>5. SequenceNumberDiff(Small(handled[i]), Small(handled[i + 1]))
            = handled[i + 1] - handled[i]
      BY <1>2, <2>1, <2>4, StepAhead
    <2>6. QED
      BY <2>1, <2>5 DEF AcksInv, ReceivedInv, Recorded, n
  <1>4. 0 \in T
    <2>1. 0 \in 0..n - j /\ j + 0 = j
      BY <1>1
    <2>2. received[j] - received[j] = 0 /\ handled[j] - handled[j] = 0
      BY <1>2
    <2>3. QED
      BY <2>1, <2>2
  <1>5. ASSUME NEW k \in 0..n - j - 1, k \in T PROVE k + 1 \in T
    <2> DEFINE i == j + k
    <2> HIDE DEF n
    <2>1. i \in j..n - 1 /\ i \in 1..n /\ i + 1 \in 1..n /\ j \in 1..n
          /\ j + (k + 1) = i + 1 /\ k + 1 \in 0..n - j
      BY <1>1
    <2>2. received[i] - received[j] = handled[i] - handled[j]
      BY <1>5
    <2> HIDE DEF i, T
    <2>3. received[i + 1] - received[i] = handled[i + 1] - handled[i]
      BY <1>3, <2>1
    <2>4. received[i + 1] - received[j] = handled[i + 1] - handled[j]
      <3>1. /\ received[i] \in Nat /\ received[j] \in Nat /\ received[i + 1] \in Nat
            /\ handled[i] \in Nat /\ handled[j] \in Nat /\ handled[i + 1] \in Nat
        BY <1>2, <2>1
      <3> DEFINE a == received[j]
                 b == received[i]
                 c == received[i + 1]
                 x == handled[j]
                 y == handled[i]
                 z == handled[i + 1]
      <3>2. b - a = y - x /\ c - b = z - y
        BY <2>2, <2>3
      <3> HIDE DEF a, b, c, x, y, z
      <3>3. c - a = z - x
        <4>1. /\ a \in Nat /\ b \in Nat /\ c \in Nat
              /\ x \in Nat /\ y \in Nat /\ z \in Nat
          BY <3>1 DEF a, b, c, x, y, z
        <4>2. QED
          BY <3>2, <4>1
      <3>4. QED
        BY <3>3 DEF a, c, x, z
    <2>5. QED
      BY <2>1, <2>4 DEF T
  <1>6. n - j \in T
    <2> DEFINE m == n - j
    <2>1. m \in Nat
      BY <1>1
    <2>2. \A k \in 0..m - 1 : k \in T => k + 1 \in T
      BY <1>5
    <2> HIDE DEF T, m
    <2>3. \A k \in 0..m : k \in T
      BY <1>4, <2>1, <2>2, Induction
    <2>4. QED
      BY <2>1, <2>3 DEF m
  <1>7. received[n] - received[j] = handled[n] - handled[j]
    <2>1. j + (n - j) = n
      BY <1>1
    <2>2. QED
      BY <1>6, <2>1
  <1>8. handled[n] = newest
    BY <1>1 DEF Tidy
  <1>9. QED
    BY <1>1, <1>2, <1>7, <1>8

\* What is computed for an answer names packets that arrived, if those of the
\* window came in order.
LEMMA MaskTells ==
    ASSUME AcksInv, Tidy,
           NEW bit \in AckBitsOf(ToSet(received), remoteSequenceNumberLarge)
    PROVE  newest - (ACK_BITS - bit) \in arrived
  <1> DEFINE large == remoteSequenceNumberLarge
             n == ACK_BITS - bit
  <1>1. bit \in Bits /\ NumberOfBit(large, bit) \in ToSet(received)
    BY DEF AckBitsOf
  <1>2. /\ ACK_BITS \in Nat /\ LONG \in Nat /\ MaxCounted \in Nat
        /\ MaxCounted + ACK_BITS < LONG
        /\ large \in 0..MaxCounted /\ large \in Nat /\ newest \in Nat
        /\ received \in Seq(1..MaxCounted)
    <2>1. newest \in Nat
      <3>1. Len(sent) \in Nat /\ arrived \subseteq 1..Len(sent) /\ newest \in arrived \cup {0}
        BY LenProperties DEF AcksInv, SentInv, ReceivedInv
      <3>2. QED
        BY <3>1
    <2>2. QED
      BY <2>1, AckBitsAssumption, LongAssumption, AcksAssumption
         DEF AcksInv, ReceivedInv, Recorded
  <1>3. n \in 1..ACK_BITS /\ n \in 0..ACK_BITS
    BY <1>1, <1>2 DEF Bits
  <1>4. Before(large, n) = IF n <= large THEN large - n ELSE LONG + large - n
    <2> HIDE DEF n
    <2>1. large \in 0..LONG - 1 /\ ACK_BITS <= LONG
      BY <1>2
    <2> HIDE DEF large
    <2>2. QED
      BY <1>3, <2>1, BeforeIs
  <1>5. PICK j \in DOMAIN received : received[j] = Before(large, n)
    BY <1>1 DEF ToSet, NumberOfBit, Before
  <1>6. j \in 1..Len(received) /\ received[j] \in 1..MaxCounted
    BY <1>2, LenProperties, ElementOfSeq
  <1> HIDE DEF n, large
  <1>7. received[j] = large - n
    BY <1>2, <1>3, <1>4, <1>5, <1>6
  <1>8. received[j] + ACK_BITS >= large /\ large - received[j] = n
    BY <1>2, <1>3, <1>7
  <1>9. large - received[j] = newest - handled[j] /\ handled[j] \in arrived
    BY <1>6, <1>8, TidyDistance DEF large
  <1>10. handled[j] \in Nat
    <2>1. Len(sent) \in Nat /\ arrived \subseteq 1..Len(sent)
      BY LenProperties DEF AcksInv, SentInv, ReceivedInv
    <2>2. QED
      BY <1>9, <2>1
  <1>11. newest - n = handled[j]
    <2>1. n = newest - handled[j]
      BY <1>8, <1>9
    <2>2. newest \in Nat
      BY <1>2
    <2>3. QED
      BY <1>10, <2>1, <2>2
  <1>12. QED
    BY <1>9, <1>11 DEF n

\* The answer says what was computed: both fields fit into their bytes.
LEMMA SendAnswerKeeps ==
    ASSUME AcksInv, SendAnswer
    PROVE  AcksInv'
  <1> DEFINE large == remoteSequenceNumberLarge
             ack == remoteSequenceNumberSmall
             bits == ComputeAckBits(received, large)
             numbers == ToSet(received)
  <1>1. /\ received \in Seq(1..MaxCounted) /\ Ascends(received)
        /\ large \in 0..MaxCounted /\ ack = Small(newest)
        /\ newest \in arrived /\ newest \in Nat
    <2>1. newest \in arrived /\ arrived \subseteq 1..Len(sent) /\ Len(sent) \in Nat
      BY LenProperties DEF AcksInv, SentInv, ReceivedInv, SendAnswer
    <2>2. QED
      BY <2>1 DEF AcksInv, ReceivedInv, Recorded
  <1>2. /\ MaxCounted \in Nat /\ MaxCounted + ACK_BITS < LONG
        /\ ACK_BITS \in Nat /\ ACK_BITS <= 32 /\ LONG \in Nat
        /\ WORD <= 256 * 256 /\ WORD \in Nat
    BY AcksAssumption, AckBitsAssumption, LongAssumption, WordAssumption
  <1>3. ack \in Nat /\ ack < 256 * 256
    <2>1. ack \in Nat /\ ack < SEQUENCE_NUMBER_MAX
      BY <1>1, SmallIs
    <2> HIDE DEF ack
    <2>2. QED
      BY <1>2, <2>1 DEF SEQUENCE_NUMBER_MAX
  <1>4. bits = AckBitsOf(numbers, large)
    <2>1. large \in 0..LONG - 1
      BY <1>1, <1>2
    <2>2. \A i \in DOMAIN received : received[i] < LONG - ACK_BITS
      <3>1. \A i \in DOMAIN received : received[i] \in 1..MaxCounted
        BY <1>1, ElementOfSeq, LenProperties
      <3>2. QED
        BY <1>2, <3>1
    <2>3. received \in Seq(Nat)
      <3>1. 1..MaxCounted \subseteq Nat
        OBVIOUS
      <3>2. QED
        BY <1>1, <3>1, SeqMonotonic
    <2> HIDE DEF large
    <2>4. QED
      BY <1>1, <2>1, <2>2, <2>3, AckBitsAreExact
  <1>5. bits \in SUBSET (0..31) /\ bits \subseteq Bits
    <2>1. \A bit \in Bits : bit \in 0..31
      BY <1>2 DEF Bits
    <2>2. QED
      BY <1>4, <2>1 DEF AckBitsOf
  <1>6. /\ answer' = ToBytes(<<[size |-> 2, bits |-> BitsOf(ack)], [size |-> 4, bits |-> bits]>>)
        /\ damaged' = FALSE
        /\ told' = [number |-> newest, tidy |-> Tidy, ackBits |-> AckBitsOf(numbers, large)]
        /\ UNCHANGED <<sent, received, remoteSequenceNumberLarge,
                       remoteSequenceNumberSmall, arrived, newest, handled>>
    BY DEF SendAnswer, receiverVars, arrivalVars
  <1>7. Tidy => \A bit \in AckBitsOf(numbers, large) : newest - (ACK_BITS - bit) \in arrived
    BY MaskTells
  <1> HIDE DEF ack, bits, numbers, large
  <1>8. BitsOf(ack) \in SUBSET (0..15) /\ NumberOf(BitsOf(ack)) = ack
    BY <1>3, NumberOfBits
  <1>9. /\ answer' \in Seq(Byte) /\ Len(answer') = 10 /\ IsValid(answer')
        /\ Fields(answer', <<2, 4>>)[1] = BitsOf(ack)
        /\ Fields(answer', <<2, 4>>)[2] = bits
    <2> DEFINE x == BitsOf(ack)
               packet == ToBytes(<<[size |-> 2, bits |-> x], [size |-> 4, bits |-> bits]>>)
    <2>1. answer' = packet
      BY <1>6
    <2> HIDE DEF x
    <2>2. IsPacketOf(packet, 2, x, 4, bits)
      BY PacketOfTwo
    <2> HIDE DEF packet
    <2>3. 0..8 * 2 - 1 = 0..15 /\ 0..8 * 4 - 1 = 0..31 /\ CRC_SIZE + 2 + 4 = 10
      BY DEF CRC_SIZE
    <2>4. x \cap 0..15 = x /\ bits \cap 0..31 = bits
      BY <1>5, <1>8 DEF x
    <2>5. QED
      BY <2>1, <2>2, <2>3, <2>4 DEF x, IsPacketOf
  <1>10. /\ told'.number = newest /\ told'.tidy = Tidy
         /\ told'.ackBits = AckBitsOf(numbers, large)
    BY <1>6
  <1>11. AckIn(answer') = Small(newest) /\ AckBitsIn(answer') = bits
    BY <1>1, <1>8, <1>9 DEF AckIn, AckBitsIn, AckSizes, ack
  <1>12. Tells(answer, arrived)'
    BY <1>1, <1>4, <1>5, <1>6, <1>7, <1>10, <1>11 DEF Tells, AckIn, AckBitsIn
  <1>13. AnswerInv'
    BY <1>6, <1>9, <1>12 DEF AnswerInv
  <1>14. SentInv' /\ ReceivedInv'
    BY <1>6 DEF AcksInv, SentInv, ReceivedInv
  <1>15. QED
    BY <1>13, <1>14 DEF AcksInv

\* A damaged answer says nothing, unless the damage turned no bit.
LEMMA DamageKeeps ==
    ASSUME AcksInv, Damage
    PROVE  AcksInv'
  <1>1. /\ answer # NoAnswer /\ damaged = FALSE /\ damaged' = TRUE
        /\ answer \in Seq(Byte) /\ Len(answer) = 10 /\ IsValid(answer)
        /\ Tells(answer, arrived)
        /\ UNCHANGED <<sent, received, remoteSequenceNumberLarge,
                       remoteSequenceNumberSmall, arrived, newest, handled, told>>
    BY DEF AcksInv, AnswerInv, Damage, receiverVars, arrivalVars
  <1>2. PICK i \in Damageable : answer' = [answer EXCEPT ![i] = Xor(@, Flipped)]
    BY DEF Damage
  <1>3. i \in 1..Len(answer) /\ answer[i] \in Byte /\ Flipped \in Byte
    BY <1>1, ElementOfSeq, AcksAssumption
  <1>4. SentInv' /\ ReceivedInv'
    BY <1>1 DEF AcksInv, SentInv, ReceivedInv
  <1>5. answer' \in Seq(Byte) /\ Len(answer') = 10
    <2> DEFINE byte == Xor(answer[i], Flipped)
    <2>1. byte \in Byte
      BY <1>3 DEF Xor, Byte
    <2>2. answer' = [answer EXCEPT ![i] = byte]
      BY <1>2
    <2> HIDE DEF byte
    <2>3. /\ [answer EXCEPT ![i] = byte] \in Seq(Byte)
          /\ Len([answer EXCEPT ![i] = byte]) = Len(answer)
      <3>1. answer \in Seq(Byte) /\ i \in 1..Len(answer)
        BY <1>1, <1>3
      <3> HIDE DEF Byte
      <3>2. QED
        BY ONLY <2>1, <3>1, ExceptSeq
    <2>4. QED
      BY <1>1, <2>2, <2>3
  <1>6. CASE Flipped = {}
    <2>1. Xor(answer[i], Flipped) = answer[i]
      BY <1>6 DEF Xor
    <2>2. answer' = answer
      <3>1. answer = [k \in DOMAIN answer |-> answer[k]]
        BY <1>1, LenProperties
      <3>2. QED
        BY <1>2, <2>1, <3>1
    <2>3. AnswerInv'
      BY <1>1, <2>2 DEF AnswerInv, Tells
    <2>4. QED
      BY <1>4, <2>3 DEF AcksInv
  <1>7. CASE Flipped # {}
    <2>1. Len(answer) >= CRC_SIZE
      BY <1>1 DEF CRC_SIZE
    <2>2. ~IsValid(answer')
      BY <1>1, <1>2, <1>3, <1>7, <2>1, DamageIsNoticed
    <2>3. AnswerInv'
      BY <1>1, <1>5, <2>2 DEF AnswerInv
    <2>4. QED
      BY <1>4, <2>3 DEF AcksInv
  <1>8. QED
    BY <1>6, <1>7

\* What VerifyAck acknowledges of an answer that tells is the answered packet or
\* one of the mask.
LEMMA AckedWasTold ==
    ASSUME NEW ack \in Nat, ack < LONG, NEW numbers, ack \in numbers, NEW ackBits,
           \A bit \in ackBits : NumberOfBit(ack, bit) \in numbers
    PROVE  AckedBy(ack, ackBits) \subseteq numbers
  <1>1. ACK_BITS \in Nat \ {0} /\ LONG \in Nat
    BY AckBitsAssumption, LongAssumption
  <1> SUFFICES ASSUME NEW bit \in Bits, RoundIsAck(ackBits, bit)
               PROVE  (ack - (ACK_BITS - 1 - bit)) % LONG \in numbers
    BY DEF AckedBy
  <1>2. CASE bit = ACK_BITS - 1
    <2>1. ACK_BITS - 1 - bit = 0
      BY <1>1, <1>2
    <2>2. (ack - 0) % LONG = ack
      BY <1>1
    <2>3. QED
      BY <2>1, <2>2
  <1>3. CASE bit + 1 \in ackBits
    <2>1. NumberOfBit(ack, bit + 1) \in numbers
      BY <1>3
    <2>2. ACK_BITS - (bit + 1) = ACK_BITS - 1 - bit
      BY <1>1 DEF Bits
    <2>3. QED
      BY <2>1, <2>2 DEF NumberOfBit
  <1>4. QED
    BY <1>2, <1>3 DEF RoundIsAck

\* What an answer does to the packets sent, if it is taken: VerifyAck's scan is
\* exact for them.
LEMMA AnswerMarks ==
    ASSUME SentInv, NEW ack \in 0..LONG - 1, NEW ackBits
    PROVE  /\ VerifyAck(sent, ack, ackBits) \in Seq(PacketInfo)
           /\ Len(VerifyAck(sent, ack, ackBits)) = Len(sent)
           /\ \A i \in 1..Len(sent) : VerifyAck(sent, ack, ackBits)[i].seqNum = i
           /\ AcknowledgedIn(VerifyAck(sent, ack, ackBits)) =
                AcknowledgedIn(sent) \cup (AckedBy(ack, ackBits) \cap 1..Len(sent))
  <1> DEFINE n == Len(sent)
             names == AckedBy(ack, ackBits)
             flag(i) == sent[i].acknowledged \/ sent[i].seqNum \in names
             new == Flagged(sent, names)
  <1>1. /\ n \in Nat /\ DOMAIN sent = 1..n /\ n <= MaxNumber /\ MaxNumber \in Nat
        /\ sent \in Seq(PacketInfo)
        /\ \A i \in 1..n : sent[i].seqNum = i /\ sent[i].acknowledged \in BOOLEAN
    BY NumbersTyped, AcksAssumption DEF SentInv
  <1>2. VerifyAck(sent, ack, ackBits) = new
    <2>1. Ascends(NumbersOf(sent))
      BY <1>1 DEF Ascends, NumbersOf
    <2>2. \A i \in DOMAIN sent : sent[i].seqNum < LONG - ACK_BITS
      BY <1>1, AcksAssumption, LongAssumption, AckBitsAssumption
    <2>3. QED
      BY <1>1, <2>1, <2>2, VerifyAckIsExact
  <1> HIDE DEF names
  <1>3. /\ DOMAIN new = 1..n
        /\ \A i \in 1..n : new[i] = [seqNum |-> sent[i].seqNum, acknowledged |-> flag(i)]
        /\ \A i \in 1..n : flag(i) \in BOOLEAN
        /\ \A i \in 1..n : flag(i) <=> sent[i].acknowledged \/ i \in names
    BY <1>1 DEF Flagged
  <1>4. new = [i \in 1..n |-> new[i]]
    BY <1>1 DEF Flagged
  <1> HIDE DEF flag
  <1> HIDE DEF new, n
  <1>5. new \in Seq(PacketInfo) /\ Len(new) = n
    <2>1. \A i \in 1..n : new[i] \in PacketInfo
      <3> SUFFICES ASSUME NEW i \in 1..n PROVE new[i] \in PacketInfo
        OBVIOUS
      <3>1. sent[i].seqNum \in Nat /\ flag(i) \in BOOLEAN
        BY <1>1, <1>3
      <3>2. QED
        BY <1>3, <3>1 DEF PacketInfo
    <2>2. new \in [1..n -> PacketInfo]
      BY <1>4, <2>1
    <2>3. new \in Seq(PacketInfo)
      BY <1>1, <2>2
    <2> DEFINE m == Len(new)
    <2>4. m \in Nat /\ 1..m = 1..n
      BY <1>3, <2>3, LenProperties
    <2> HIDE DEF m
    <2>5. m = n
      <3>1. m \in 1..m => m \in 1..n
        BY <2>4
      <3>2. n \in 1..n => n \in 1..m
        BY <2>4
      <3>3. QED
        BY <1>1, <2>4, <3>1, <3>2
    <2>6. QED
      BY <2>3, <2>5 DEF m
  <1>6. \A i \in 1..n :
            new[i].seqNum = i /\ (new[i].acknowledged <=> sent[i].acknowledged \/ i \in names)
    <2> SUFFICES ASSUME NEW i \in 1..n
                 PROVE  /\ new[i].seqNum = i
                        /\ new[i].acknowledged <=> sent[i].acknowledged \/ i \in names
      OBVIOUS
    <2>1. new[i].seqNum = sent[i].seqNum /\ new[i].acknowledged = flag(i)
      BY <1>3
    <2>2. QED
      BY <1>1, <1>3, <2>1
  <1>7. AcknowledgedIn(new) = AcknowledgedIn(sent) \cup (names \cap 1..n)
    <2>1. \A x : x \in AcknowledgedIn(new) <=> x \in 1..n /\ (sent[x].acknowledged \/ x \in names)
      BY <1>3, <1>6 DEF AcknowledgedIn
    <2>2. \A x : x \in AcknowledgedIn(sent) <=> x \in 1..n /\ sent[x].acknowledged
      BY <1>1 DEF AcknowledgedIn
    <2>3. QED
      BY <2>1, <2>2
  <1>8. QED
    BY <1>2, <1>5, <1>6, <1>7 DEF n, names

\* The number that an answer acknowledges is a number of 64 bits.
LEMMA AckedNumberTyped ==
    ASSUME AcksInv, AnswerIsValid
    PROVE  AckedNumber \in 0..LONG - 1
  <1>1. /\ Len(sent) \in Nat /\ LONG \in Nat /\ LONG > 0
        /\ arrived \subseteq 1..Len(sent)
    BY LenProperties, LongAssumption, WordAssumption DEF AcksInv, SentInv, ReceivedInv
  <1>2. AnswerAck = Small(told.number) /\ told.number \in arrived
    BY DEF AcksInv, AnswerInv, AnswerIsValid, Tells, AnswerAck, AckIn
  <1> DEFINE diff == SequenceNumberDiff(Small(Len(sent)), AnswerAck)
             number == Len(sent) - diff
  <1>3. diff \in Nat
    <2>1. \A x \in 1..Len(sent) : x \in Nat
      BY <1>1
    <2>2. told.number \in 1..Len(sent)
      BY <1>1, <1>2
    <2>3. told.number \in Nat
      BY <2>1, <2>2
    <2>4. QED
      BY <1>1, <1>2, <2>3, DiffIs
  <1> HIDE DEF diff
  <1>4. number \in Int
    BY <1>1, <1>3
  <1> HIDE DEF number
  <1>5. number % LONG \in 0..LONG - 1
    BY <1>1, <1>4
  <1>6. QED
    BY <1>5 DEF AckedNumber, number, diff

\* An answer that is taken changes no number.
LEMMA ReceiveAnswerKeeps ==
    ASSUME AcksInv, ReceiveAnswer
    PROVE  AcksInv'
  <1> DEFINE ack == AckedNumber
             ackBits == AnswerAckBits
  <1>1. ack \in 0..LONG - 1
    BY AckedNumberTyped DEF ReceiveAnswer
  <1>2. /\ sent' = VerifyAck(sent, ack, ackBits)
        /\ UNCHANGED <<received, remoteSequenceNumberLarge, remoteSequenceNumberSmall,
                       arrived, newest, handled, answer, damaged, told>>
    BY DEF ReceiveAnswer, Verified, receiverVars, arrivalVars, answerVars
  <1> HIDE DEF ack, ackBits
  <1>3. /\ sent' \in Seq(PacketInfo) /\ Len(sent') = Len(sent)
        /\ \A i \in 1..Len(sent) : sent'[i].seqNum = i
    BY <1>1, <1>2, AnswerMarks DEF AcksInv
  <1>4. SentInv'
    <2>1. DOMAIN sent' = 1..Len(sent)
      BY <1>3, LenProperties
    <2>2. Len(sent') <= MaxNumber
      BY <1>3 DEF AcksInv, SentInv
    <2>3. QED
      BY <1>3, <2>1, <2>2 DEF SentInv
  <1>5. ReceivedInv'
    BY <1>2, <1>3 DEF AcksInv, ReceivedInv
  <1>6. AnswerInv'
    BY <1>2 DEF AcksInv, AnswerInv, Tells
  <1>7. QED
    BY <1>4, <1>5, <1>6 DEF AcksInv

\* Before the first packet there is nothing to keep.
LEMMA InitEstablishes == Init => AcksInv
  <1> SUFFICES ASSUME Init PROVE AcksInv
    OBVIOUS
  <1>1. /\ DOMAIN <<>> = {} /\ Len(<<>>) = 0
        /\ MaxNumber \in Nat /\ MaxCounted \in Nat /\ KEEP_RECEIVED \in Nat
    BY AcksAssumption
  <1>2. SentInv
    <2>1. <<>> \in Seq(PacketInfo)
      BY EmptySeq
    <2>2. QED
      BY <1>1, <2>1 DEF Init, SentInv
  <1>3. ReceivedInv
    <2>1. Small(0) = 0
      <3>1. Lap(0) * SEQUENCE_NUMBER_MAX \in Nat
        BY SmallIs, WordAssumption DEF SEQUENCE_NUMBER_MAX
      <3>2. QED
        BY <3>1, SmallIs
    <2>2. <<>> \in Seq(1..MaxCounted) /\ <<>> \in Seq({})
      BY EmptySeq
    <2>3. Recorded(<<>>, <<>>, 0, 0, {})
      BY <1>1, <2>2 DEF Recorded, Ascends
    <2>4. QED
      BY <1>1, <2>1, <2>3 DEF Init, ReceivedInv
  <1>4. AnswerInv
    BY DEF Init, AnswerInv
  <1>5. QED
    BY <1>2, <1>3, <1>4 DEF AcksInv

\* Every step keeps the invariant.
LEMMA NextKeeps == AcksInv /\ [Next]_vars => AcksInv'
  <1> SUFFICES ASSUME AcksInv, [Next]_vars PROVE AcksInv'
    OBVIOUS
  <1>1. CASE SendPacket
    BY <1>1, SendPacketKeeps
  <1>2. CASE \E number \in 1..Len(sent) : ReceivePacket(number)
    BY <1>2, ReceivePacketKeeps
  <1>3. CASE SendAnswer
    BY <1>3, SendAnswerKeeps
  <1>4. CASE Damage
    BY <1>4, DamageKeeps
  <1>5. CASE ReceiveAnswer
    BY <1>5, ReceiveAnswerKeeps
  <1>6. CASE UNCHANGED vars
    <2>1. UNCHANGED <<sent, received, remoteSequenceNumberLarge, remoteSequenceNumberSmall,
                      arrived, newest, handled, answer, damaged, told>>
      BY <1>6 DEF vars, receiverVars, arrivalVars, answerVars
    <2>2. SentInv' /\ ReceivedInv' /\ AnswerInv'
      BY <2>1 DEF AcksInv, SentInv, ReceivedInv, AnswerInv, Tells
    <2>3. QED
      BY <2>2 DEF AcksInv
  <1>7. QED
    BY <1>1, <1>2, <1>3, <1>4, <1>5, <1>6 DEF Next

\* The invariant holds in every state that the scheme reaches, in whatever order
\* packets and answers arrive.
THEOREM AcksInvariant == Spec => []AcksInv
  <1>1. QED
    BY InitEstablishes, NextKeeps, PTL DEF Spec

\* Every variable keeps its type, no packet is numbered twice, and a wire number
\* is below SEQUENCE_NUMBER_MAX.
THEOREM AcksTypeCorrect == Spec => []TypeOK
  <1>1. ASSUME AcksInv PROVE TypeOK
    <2>1. /\ DOMAIN sent = 1..Len(sent) /\ Len(sent) \in Nat
          /\ \A i \in DOMAIN sent : sent[i] \in PacketInfo /\ sent[i].seqNum = i
      BY <1>1, NumbersTyped DEF AcksInv, SentInv
    <2>2. \A i \in DOMAIN sent : sent[i] \in [seqNum : {i}, acknowledged : BOOLEAN]
      BY <2>1 DEF PacketInfo
    <2>3. /\ received \in Seq(1..MaxCounted) /\ Len(received) <= KEEP_RECEIVED
          /\ remoteSequenceNumberLarge \in 0..MaxCounted
      BY <1>1 DEF AcksInv, ReceivedInv, Recorded
    <2>4. remoteSequenceNumberSmall \in 0..SEQUENCE_NUMBER_MAX - 1
      <3>1. /\ newest \in arrived \cup {0} /\ arrived \subseteq 1..Len(sent)
            /\ remoteSequenceNumberSmall = Small(newest)
        BY <1>1 DEF AcksInv, ReceivedInv
      <3>2. newest \in Nat
        BY <2>1, <3>1
      <3>3. /\ remoteSequenceNumberSmall \in Nat
            /\ remoteSequenceNumberSmall < SEQUENCE_NUMBER_MAX
        BY <3>1, <3>2, SmallIs
      <3>4. SEQUENCE_NUMBER_MAX \in Nat
        BY WordAssumption DEF SEQUENCE_NUMBER_MAX
      <3>5. QED
        BY <3>3, <3>4
    <2>5. answer # NoAnswer => answer \in [1..10 -> Byte]
      BY <1>1, LenProperties DEF AcksInv, AnswerInv
    <2>6. damaged \in BOOLEAN
      BY <1>1 DEF AcksInv, AnswerInv
    <2>7. QED
      BY <2>2, <2>3, <2>4, <2>5, <2>6 DEF TypeOK
  <1>2. QED
    BY <1>1, AcksInvariant, PTL

\* From an answer that is not too old the sender learns its own number of the
\* packet that had arrived last.
LEMMA AckedNumberIs ==
    ASSUME AcksInv, AnswerIsValid, Recent
    PROVE  AckedNumber = told.number
  <1> DEFINE n == Len(sent)
             number == told.number
  <1>1. /\ n \in Nat /\ n <= MaxNumber /\ arrived \subseteq 1..n
        /\ MaxNumber \in Nat /\ MaxNumber + ACK_BITS < LONG
        /\ ACK_BITS \in Nat /\ LONG \in Nat
    BY LenProperties, AcksAssumption, AckBitsAssumption, LongAssumption
       DEF AcksInv, SentInv, ReceivedInv
  <1>2. AnswerAck = Small(number) /\ number \in arrived
    BY DEF AcksInv, AnswerInv, AnswerIsValid, Tells, AnswerAck, AckIn
  <1>3. Lap(number) = Lap(n) /\ n - number <= SEQUENCE_NUMBER_HALF
    BY DEF Recent
  <1>4. AckedNumber = (n - SequenceNumberDiff(Small(n), AnswerAck)) % LONG
    BY DEF AckedNumber
  <1> HIDE DEF n, number
  <1>5. number \in Nat /\ number <= n
    BY <1>1, <1>2
  <1>6. SequenceNumberDiff(Small(n), Small(number)) = n - number
    BY <1>1, <1>3, <1>5, StepBehind
  <1>7. n - (n - number) = number /\ number % LONG = number
    BY <1>1, <1>5
  <1>8. QED
    BY <1>2, <1>4, <1>6, <1>7 DEF number

\* An answer that is not too old names a packet that arrived; if the packets of
\* the mask's window came in order, VerifyAck and StoreAcks read in it only
\* packets that arrived, whatever was lost, late, repeated, damaged, or out of
\* order elsewhere.
THEOREM NoneFalselyAcked == Spec => []NoFalseAck
  <1>1. ASSUME AcksInv PROVE NoFalseAck
    <2> SUFFICES ASSUME AnswerIsValid, Recent
                 PROVE  /\ AckedNumber \in arrived
                        /\ told.tidy =>
                             (AcknowledgedIn(Verified) \ AcknowledgedIn(sent))
                                \cup Reported \subseteq arrived
      BY DEF NoFalseAck
    <2> DEFINE number == told.number
               ackBits == AnswerAckBits
    <2>1. Tells(answer, arrived) /\ AckedNumber = number
      BY <1>1, AckedNumberIs DEF AcksInv, AnswerInv, AnswerIsValid
    <2>2. /\ number \in arrived /\ ackBits = told.ackBits /\ ackBits \subseteq Bits
          /\ told.tidy => \A bit \in ackBits : number - (ACK_BITS - bit) \in arrived
      BY <2>1 DEF Tells, AnswerAckBits, AckBitsIn
    <2>3. /\ Len(sent) \in Nat /\ arrived \subseteq 1..Len(sent) /\ Len(sent) < LONG
          /\ LONG \in Nat /\ ACK_BITS \in Nat
      <3>1. /\ Len(sent) \in Nat /\ arrived \subseteq 1..Len(sent) /\ Len(sent) <= MaxNumber
            /\ MaxNumber + ACK_BITS < LONG /\ LONG \in Nat /\ MaxNumber \in Nat
            /\ ACK_BITS \in Nat
        BY <1>1, LenProperties, AcksAssumption, AckBitsAssumption, LongAssumption
           DEF AcksInv, SentInv, ReceivedInv
      <3>2. QED
        BY <3>1
    <2> HIDE DEF number, ackBits
    <2>4. number \in Nat /\ number < LONG /\ number \in 0..LONG - 1
      BY <2>2, <2>3
    <2>5. ASSUME told.tidy, NEW bit \in ackBits PROVE NumberOfBit(number, bit) \in arrived
      <3> DEFINE before == number - (ACK_BITS - bit)
      <3>1. before \in arrived
        BY <2>2, <2>5
      <3> HIDE DEF before
      <3>2. before % LONG = before
        BY <2>3, <3>1
      <3>3. QED
        BY <3>1, <3>2 DEF before, NumberOfBit
    <2>6. ASSUME told.tidy
          PROVE  (AcknowledgedIn(Verified) \ AcknowledgedIn(sent)) \cup Reported
                    \subseteq arrived
      <3>1. AckedBy(number, ackBits) \subseteq arrived
        BY <2>2, <2>4, <2>5, <2>6, AckedWasTold
      <3>2. AcknowledgedIn(VerifyAck(sent, number, ackBits)) =
                AcknowledgedIn(sent) \cup (AckedBy(number, ackBits) \cap 1..Len(sent))
        BY <1>1, <2>4, AnswerMarks DEF AcksInv
      <3>3. Verified = VerifyAck(sent, number, ackBits)
        BY <2>1 DEF Verified, ackBits
      <3>4. Reported = ToSet(StoreAcks(<<>>, number, ackBits))
        BY <2>1 DEF Reported, ackBits
      <3>5. StoreAcks(<<>>, number, ackBits) \in Seq(arrived)
        <4>1. <<>> \in Seq(arrived)
          BY EmptySeq
        <4>2. \A bit \in Bits \cap ackBits : NumberOfBit(number, bit) \in arrived
          BY <2>5, <2>6
        <4>3. QED
          BY <2>2, <4>1, <4>2, StoreAcksTyped
      <3>6. Reported \subseteq arrived
        BY <3>4, <3>5, ToSetIs
      <3>7. QED
        BY <3>1, <3>2, <3>3, <3>6
    <2>7. QED
      BY <2>1, <2>2, <2>6
  <1>2. QED
    BY <1>1, AcksInvariant, PTL

\* A mask that comes through the network as it was sent, and only such a one is
\* taken as valid, names exactly the numbers recorded before the last one.
THEOREM MasksAreExact == Spec => []MaskIsExact
  <1>1. ASSUME AcksInv PROVE MaskIsExact
    BY <1>1 DEF AcksInv, AnswerInv, MaskIsExact, AnswerIsValid, Tells, AnswerAck,
                AnswerAckBits, AckIn, AckBitsIn
  <1>2. QED
    BY <1>1, AcksInvariant, PTL

\* VerifyAck's scan marks exactly the packets its rounds name and unmarks none.
THEOREM MarkingIsExact == Spec => []MarksExactly
  <1>1. ASSUME AcksInv, AnswerIsValid
        PROVE  AcknowledgedIn(Verified) = AcknowledgedIn(sent)
                    \cup (AckedBy(AckedNumber, AnswerAckBits) \cap 1..Len(sent))
    <2> DEFINE ack == AckedNumber
               ackBits == AnswerAckBits
    <2>1. ack \in 0..LONG - 1
      BY <1>1, AckedNumberTyped
    <2>2. Verified = VerifyAck(sent, ack, ackBits)
      BY DEF Verified
    <2> HIDE DEF ack, ackBits
    <2>3. AcknowledgedIn(VerifyAck(sent, ack, ackBits)) =
            AcknowledgedIn(sent) \cup (AckedBy(ack, ackBits) \cap 1..Len(sent))
      BY <1>1, <2>1, AnswerMarks DEF AcksInv
    <2>4. QED
      BY <2>2, <2>3 DEF ack, ackBits
  <1>2. ASSUME AcksInv PROVE MarksExactly
    BY <1>1, <1>2 DEF MarksExactly
  <1>3. QED
    BY <1>2, AcksInvariant, PTL
=============================================================================
