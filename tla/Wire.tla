-------------------------------- MODULE Wire --------------------------------
(***************************************************************************)
(* Packets as bytes: NetworkPacket.cpp writes numbers with the highest     *)
(* byte first, behind four bytes that Network::Send fills with a checksum  *)
(* (CRC32.cpp); the receiver compares the checksum before it reads on.     *)
(*                                                                         *)
(* A byte or a word is the set of the positions of its one bits, so that   *)
(* exclusive or is the symmetric difference and a shift moves positions.   *)
(***************************************************************************)
EXTENDS Integers, SequencesExt

Byte == SUBSET (0..7)
Word == 0..31

BitsOf(number) ==
    LET Half[k \in 0..30] == IF k = 0 THEN number ELSE Half[k - 1] \div 2
    IN  {bit \in 0..30 : Half[bit] % 2 = 1}

NumberOf(bits) ==
    LET Value[k \in 0..31] ==
            IF k = 0 THEN 0 ELSE 2 * Value[k - 1] + (IF 31 - k \in bits THEN 1 ELSE 0)
    IN  Value[31]

Xor(x, y) == (x \cup y) \ (x \cap y)
ShiftRight(x, n) == {bit - n : bit \in x \ 0..n - 1}

-----------------------------------------------------------------------------
(* CRC32. *)

CRC32_POLY == {5, 8, 9, 15, 19, 20, 21, 23, 24, 26, 27, 29, 30, 31}

\* generate_table: the byte, shifted eight times.
Shifted(c) ==
    IF 0 \in c THEN Xor(CRC32_POLY, ShiftRight(c, 1)) ELSE ShiftRight(c, 1)

table ==
    [byte \in Byte |->
        LET c[j \in 0..8] == IF j = 0 THEN byte ELSE Shifted(c[j - 1])
        IN  c[8]]

\* update, with one byte.
Updated(crc, byte) ==
    Xor(table[Xor(crc, byte) \cap 0..7], ShiftRight(crc, 8))

\* reset, update, and value.
crc32(bytes) ==
    LET crc[i \in 0..Len(bytes)] ==
            IF i = 0 THEN Word ELSE Updated(crc[i - 1], bytes[i])
    IN  Xor(crc[Len(bytes)], Word)

-----------------------------------------------------------------------------
(* NetworkPacket.  A field is its size in bytes and its bits. *)

CRC_SIZE == 4
PROTOCOL_MAGIC_NUMBER == BitsOf(254)

\* WriteInt8, WriteInt16, WriteInt32, WriteInt64: the bytes, highest first.
Written(field) ==
    [k \in 1..field.size |->
        {bit \in 0..7 : bit + 8 * (field.size - k) \in field.bits}]

\* ReadInt8, ReadInt16, ReadInt32, ReadUInt64 of these bytes.
Read(bytes) ==
    UNION {{bit + 8 * (Len(bytes) - k) : bit \in bytes[k]} : k \in DOMAIN bytes}

\* The bytes behind the place of the checksum.
Payload(buffer) == SubSeq(buffer, CRC_SIZE + 1, Len(buffer))

Checksum(buffer) == crc32(<<PROTOCOL_MAGIC_NUMBER>> \o Payload(buffer))

\* Clear leaves the place of the checksum, which CalculateCRC fills once the
\* fields have been written.
ToBytes(fields) ==
    LET place == Written([size |-> CRC_SIZE, bits |-> {}])
        buffer == place \o FlattenSeq([i \in DOMAIN fields |-> Written(fields[i])])
    IN  Written([size |-> CRC_SIZE, bits |-> Checksum(buffer)]) \o Payload(buffer)

\* ReadAndValidateCRC() = 0.
IsValid(buffer) == Read(SubSeq(buffer, 1, CRC_SIZE)) = Checksum(buffer)

\* The fields of these sizes, read one after the other behind the checksum.
Fields(buffer, sizes) ==
    LET m_offset[i \in 1..Len(sizes)] ==
            IF i = 1 THEN CRC_SIZE ELSE m_offset[i - 1] + sizes[i - 1]
    IN  [i \in 1..Len(sizes) |->
            Read(SubSeq(buffer, m_offset[i] + 1, m_offset[i] + sizes[i]))]

-----------------------------------------------------------------------------

\* The two packets of NetworkPacketTests.cpp.
ASSUME ValidationTests ==
    LET Packet(numbers) == [i \in DOMAIN numbers |-> BitsOf(numbers[i])]
    IN  /\ IsValid(Packet(<<158, 203, 209, 104, 10, 20, 30>>))
        /\ ~IsValid(Packet(<<1, 2, 3, 4, 10, 20, 30>>))
=============================================================================
