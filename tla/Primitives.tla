------------------------------ MODULE Primitives ------------------------------
(***************************************************************************)
(* What every encoding in crates/fadroma/bin_serde is made of: the stream  *)
(* that is read, numbers in as few bytes as they need, the lengths of      *)
(* sequences in groups of all but one bit of a byte, and strings of bytes. *)
(* Bytes are to the base Base, 256 in the code.                            *)
(***************************************************************************)
EXTENDS Integers, Sequences

CONSTANTS
    Base,      \* how many values a byte has
    MaxSize    \* ByteLen::MAX_SIZE

ASSUME BaseAssumption == Base \in Nat /\ Base > 2 /\ Base % 2 = 0
ASSUME SizeAssumption == MaxSize \in Nat \ {0}

\* The bit that says that more bytes of a length follow, 0x80.
More == Base \div 2

\* Results of writing, and of reading: the error or the rest of the stream.
Written(bytes) == [err |-> "none", bytes |-> bytes]
NotWritten(err) == [err |-> err, bytes |-> <<>>]

Got(val, de) == [err |-> "none", val |-> val, de |-> de]
NotRead(err, de) == [err |-> err, val |-> <<>>, de |-> de]

\* Writes one thing after the other, `?` between the two.
Then(first, second) ==
    IF first.err # "none" THEN first
    ELSE IF second.err # "none" THEN second
    ELSE Written(first.bytes \o second.bytes)

\* Goes on with what was read, `?` again.
AndThen(r, Op(_)) == IF r.err = "none" THEN Op(r) ELSE r

-------------------------------------------------------------------------------
(***************************************************************************)
(* Deserializer                                                            *)
(***************************************************************************)
Deserializer(bytes) == [bytes |-> bytes, read |-> 0]

\* Deserializer::read: exactly n bytes, or an error and no progress.
ReadN(de, n) ==
    IF de.read + n > Len(de.bytes)
    THEN NotRead("EndOfStream", de)
    ELSE Got(SubSeq(de.bytes, de.read + 1, de.read + n), [de EXCEPT !.read = @ + n])

ReadByte(de) == AndThen(ReadN(de, 1), LAMBDA r : Got(r.val[1], r.de))

-------------------------------------------------------------------------------
(***************************************************************************)
(* Digits, the least significant one first                                 *)
(***************************************************************************)
\* base to the n-th.
Power(base, n) ==
    LET power[i \in 0..n] == IF i = 0 THEN 1 ELSE base * power[i - 1]
    IN  power[n]

\* The digits of n without the zeros at their end: rest[i] is n without the first i of them,
\* and no number has more digits than it counts.
Digits(base, n) ==
    LET rest[i \in 0..n] == IF i = 0 THEN n ELSE rest[i - 1] \div base
        size == CHOOSE i \in 0..n : rest[i] = 0 /\ \A j \in 0..(i - 1) : rest[j] # 0
    IN  [i \in 1..size |-> rest[i - 1] % base]

\* The number that has them: worth[i] is that of the last i.
Worth(base, digits) ==
    LET worth[i \in 0..Len(digits)] ==
            IF i = 0 THEN 0 ELSE digits[Len(digits) + 1 - i] + base * worth[i - 1]
    IN  worth[Len(digits)]

-------------------------------------------------------------------------------
(***************************************************************************)
(* ByteLen: the length of a sequence, in groups of all but one bit.        *)
(***************************************************************************)
MaxByteLen == Power(More, MaxSize) - 1

\* The bit is set in all groups but the last.  No length is without a group.
LenGroups(len) ==
    LET groups == Digits(More, len)
    IN  IF len = 0 THEN <<0>>
        ELSE [i \in DOMAIN groups |-> IF i < Len(groups) THEN More + groups[i] ELSE groups[i]]

UnlimitedLen(len) == Written(LenGroups(len))

EncodeLen(len) ==
    IF len > MaxByteLen THEN NotWritten("ByteLenTooLong") ELSE Written(LenGroups(len))

\* Reads up to a byte without the bit, wherever it is.
DecodeLen(de) ==
    LET ends   == {i \in (de.read + 1)..Len(de.bytes) : de.bytes[i] < More}
        end    == CHOOSE i \in ends : \A j \in ends : i <= j
        groups == SubSeq(de.bytes, de.read + 1, end)
    IN  IF ends = {}
        THEN NotRead("EndOfStream", [de EXCEPT !.read = Len(de.bytes)])
        ELSE Got(Worth(More, [i \in DOMAIN groups |-> groups[i] % More]),
                 [de EXCEPT !.read = end])

\* How many groups the length of a sequence takes in the storage, and the fewest that could
\* hold it: a length is never written with more, and never with more than MAX_SIZE.
Groups(bytes) == CHOOSE i \in DOMAIN bytes : bytes[i] < More /\ \A j \in 1..(i - 1) : bytes[j] >= More

Shortest(bytes, len) ==
    /\ Groups(bytes) \in 1..MaxSize
    /\ len < Power(More, Groups(bytes))
    /\ Groups(bytes) > 1 => len >= Power(More, Groups(bytes) - 1)

-------------------------------------------------------------------------------
(***************************************************************************)
(* Numbers, strings of bytes                                               *)
(***************************************************************************)
\* The integers of 32 bits and more: a byte says how many follow.
WriteUint(n) == Written(<<Len(Digits(Base, n))>> \o Digits(Base, n))

ReadFullUint(de, size) ==
    AndThen(ReadByte(de), LAMBDA len :
        AndThen(ReadN(len.de, size), LAMBDA r : Got(Worth(Base, r.val), r.de)))

\* The bytes are copied into a buffer of the type's size, unchecked: more of them than it
\* has room for are undefined behaviour.
ReadUint(de, size) ==
    AndThen(ReadByte(de), LAMBDA len :
        AndThen(ReadN(len.de, len.val), LAMBDA r :
            IF len.val > size THEN NotRead("Undefined", r.de) ELSE Got(Worth(Base, r.val), r.de)))

\* [u8], str and String.
WriteBytes(bytes) == Then(EncodeLen(Len(bytes)), Written(bytes))

ReadBytes(de) == AndThen(DecodeLen(de), LAMBDA len : ReadN(len.de, len.val))
===============================================================================
