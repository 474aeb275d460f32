------------------------------- MODULE BinSerde -------------------------------
(***************************************************************************)
(* The binary encoding of what contracts store (crates/fadroma/bin_serde   *)
(* and the derive macros of crates/fadroma-derive-serde): what is written  *)
(* for a value of a type, and what is read back from a stream of bytes.    *)
(*                                                                         *)
(* A type is a record with its kind and what the kind needs.  The values   *)
(* are numbers for the integers, TRUE and FALSE, sequences of bytes for    *)
(* strings, binaries and addresses, sequences for Vec and for the fields   *)
(* of a struct, <<>> and <<x>> for an Option, and <<i, fields>> for the    *)
(* i-th variant of an enum.  Bytes are to the base Base, 256 in the code.  *)
(***************************************************************************)
EXTENDS Primitives

LOCAL INSTANCE SequencesExt

-------------------------------------------------------------------------------
(***************************************************************************)
(* Numbers                                                                 *)
(***************************************************************************)
WriteU8(n) == Written(<<n>>)

WriteBool(b) == Written(<<IF b THEN 1 ELSE 0>>)

ReadBool(de) ==
    AndThen(ReadByte(de), LAMBDA b :
        IF b.val \in {0, 1} THEN Got(b.val = 1, b.de) ELSE NotRead("InvalidType", b.de))

WriteU16(n) == Written(<<n % Base, n \div Base>>)

ReadU16(de) == AndThen(ReadN(de, 2), LAMBDA r : Got(Worth(Base, r.val), r.de))

\* The integers of 32 bits and more, and what is stored as one of them: Uint64, Uint128, and
\* the atomics of Decimal and Decimal256.
Uint(size) == [kind |-> "uint", size |-> size]

-------------------------------------------------------------------------------
(***************************************************************************)
(* Strings, binaries and addresses; arrays of bytes; adapters              *)
(***************************************************************************)
WriteArray(bytes) == WriteBytes(bytes)

\* Copies the size of the array, whatever was read: beyond it is undefined behaviour.
ReadArray(de, size) ==
    AndThen(ReadBytes(de), LAMBDA r :
        IF Len(r.val) < size THEN NotRead("Undefined", r.de)
                             ELSE Got(SubSeq(r.val, 1, size), r.de))

\* cosmwasm_std's JSON of a string, which is quoted: to_vec, and whether from_slice takes it.
Quote == Base - 1
ToVec(text) == <<Quote>> \o text \o <<Quote>>
IsJson(bytes) == /\ Len(bytes) >= 2
                 /\ {i \in DOMAIN bytes : bytes[i] = Quote} = {1, Len(bytes)}

WriteAdapter(v) == Written(ToVec(v))

\* Asks for as many bytes as the whole stream has, the ones already read included.
ReadAdapter(de) ==
    AndThen(ReadN(de, Len(de.bytes)), LAMBDA r :
        IF IsJson(r.val) THEN Got(SubSeq(r.val, 2, Len(r.val) - 1), r.de)
                         ELSE NotRead("InvalidType", r.de))

-------------------------------------------------------------------------------
(***************************************************************************)
(* Types that hold others                                                  *)
(***************************************************************************)
RECURSIVE Write(_, _), Read(_, _)

WriteOption(type, v) ==
    IF v = <<>> THEN Written(<<0>>) ELSE Then(Written(<<1>>), Write(type.of, v[1]))

ReadOption(type, de) ==
    AndThen(ReadByte(de), LAMBDA tag :
        CASE tag.val = 0 -> Got(<<>>, tag.de)
          [] tag.val = 1 -> AndThen(Read(type.of, tag.de), LAMBDA x : Got(<<x.val>>, x.de))
          [] OTHER -> NotRead("InvalidType", tag.de))

\* Several values, each of its own type: the fields of a struct or a variant (to_bytes_fields).
WriteFields(types, vals) ==
    FoldLeft(LAMBDA done, i : Then(done, Write(types[i], vals[i])),
             Written(<<>>), [i \in DOMAIN types |-> i])

\* from_bytes_struct and from_bytes_tuple: in the order of definition, up to the first error.
RECURSIVE ReadFields(_, _)
ReadFields(types, de) ==
    IF types = <<>> THEN Got(<<>>, de)
    ELSE AndThen(Read(Head(types), de), LAMBDA x :
             AndThen(ReadFields(Tail(types), x.de), LAMBDA rest :
                 Got(<<x.val>> \o rest.val, rest.de)))

WriteVec(type, items) ==
    Then(EncodeLen(Len(items)), WriteFields([i \in DOMAIN items |-> type.of], items))

ReadVec(type, de) ==
    AndThen(DecodeLen(de), LAMBDA len : ReadFields([i \in 1..len.val |-> type.of], len.de))

\* The tag of the i-th variant is cut to a byte.
Tag(i) == (i - 1) % Base

WriteEnum(type, v) ==
    Then(Written(<<Tag(v[1])>>), WriteFields(type.variants[v[1]], v[2]))

\* The generated match takes the first arm of a tag.
ReadEnum(type, de) ==
    AndThen(ReadByte(de), LAMBDA tag :
        LET arms == {i \in DOMAIN type.variants : Tag(i) = tag.val}
        IN  IF arms = {} THEN NotRead("InvalidType", tag.de)
            ELSE LET first == CHOOSE i \in arms : \A j \in arms : i <= j
                 IN  AndThen(ReadFields(type.variants[first], tag.de), LAMBDA x :
                         Got(<<first, x.val>>, x.de)))

\* The types of cosmwasm_std: Binary, CanonicalAddr and Addr are their bytes, Coin is its
\* denomination and its amount, Empty is nothing.
Addr == [kind |-> "addr"]
Coin(size) == [kind |-> "struct", fields |-> <<[kind |-> "bytes"], Uint(size)>>]
Empty == [kind |-> "struct", fields |-> <<>>]

Write(type, v) ==
    CASE type.kind = "u8"     -> WriteU8(v)
      [] type.kind = "bool"   -> WriteBool(v)
      [] type.kind = "u16"    -> WriteU16(v)
      [] type.kind = "uint"   -> WriteUint(v)
      [] type.kind = "bytes"  -> WriteBytes(v)
      [] type.kind = "addr"   -> WriteBytes(v)
      [] type.kind = "array"  -> WriteArray(v)
      [] type.kind = "json"   -> WriteAdapter(v)
      [] type.kind = "option" -> WriteOption(type, v)
      [] type.kind = "vec"    -> WriteVec(type, v)
      [] type.kind = "struct" -> WriteFields(type.fields, v)
      [] type.kind = "enum"   -> WriteEnum(type, v)

Read(type, de) ==
    CASE type.kind = "u8"     -> ReadByte(de)
      [] type.kind = "bool"   -> ReadBool(de)
      [] type.kind = "u16"    -> ReadU16(de)
      [] type.kind = "uint"   -> ReadUint(de, type.size)
      [] type.kind = "bytes"  -> ReadBytes(de)
      [] type.kind = "addr"   -> ReadBytes(de)
      [] type.kind = "array"  -> ReadArray(de, type.size)
      [] type.kind = "json"   -> ReadAdapter(de)
      [] type.kind = "option" -> ReadOption(type, de)
      [] type.kind = "vec"    -> ReadVec(type, de)
      [] type.kind = "struct" -> ReadFields(type.fields, de)
      [] type.kind = "enum"   -> ReadEnum(type, de)

\* FadromaSerializeExt::serialize
Serialize(type, v) == Write(type, v)

\* Deserializer::deserialize on a fresh stream.  What is left in the stream is not looked at.
Deserialize(type, bytes) == Read(type, Deserializer(bytes))
===============================================================================
