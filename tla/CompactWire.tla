---------------------------- MODULE CompactWire ----------------------------
(***************************************************************************)
(* Byte-level vocabulary of the compact protocol (protocol/compact.rs):    *)
(* the type-nibble tables, raw and zig-zag LEB128 varints, and i16         *)
(* arithmetic.  Bytes are naturals in 0..255, wire data are sequences of   *)
(* bytes.  TLC integers are 32-bit, so u32 quantities are never formed:    *)
(* the operators below split them into a low part below 2^28 and the high  *)
(* nibble.                                                                 *)
(***************************************************************************)
EXTENDS Integers, Sequences, SequencesExt, Utf8

Bytes == 0..255

\* TType variants the compact codec can put on the wire.
WireTypes == {"Stop", "Bool", "I08", "I16", "I32", "I64", "Double",
              "String", "List", "Set", "Map", "Struct", "Uuid"}

(***************************************************************************)
(* type_to_u8: the scalar nibble table.  Bool is absent: a Bool field     *)
(* carries its value in the nibble, and type_to_u8(Bool) panics.           *)
(***************************************************************************)
TypeToU8 == [Stop |-> 0, I08 |-> 3, I16 |-> 4, I32 |-> 5, I64 |-> 6,
             Double |-> 7, String |-> 8, List |-> 9, Set |-> 10, Map |-> 11,
             Struct |-> 12, Uuid |-> 13]

\* collection_type_to_u8: Bool is written as 0x01 inside containers.
CollectionTypeToU8(t) == IF t = "Bool" THEN 1 ELSE TypeToU8[t]

\* u8_to_type: the inverse table; any other byte is InvalidData.
U8ToType(b) ==
  IF \E t \in DOMAIN TypeToU8 : TypeToU8[t] = b
  THEN CHOOSE t \in DOMAIN TypeToU8 : TypeToU8[t] = b
  ELSE "Invalid"

\* A variant accepting only 0x02, the one value of the original spec.
CollectionU8ToTypeOnly2(b) == IF b = 2 THEN "Bool" ELSE U8ToType(b)

\* collection_u8_to_type: both 0x01 and 0x02 decode as Bool.
CollectionU8ToType(b) == IF b \in {1, 2} THEN "Bool" ELSE U8ToType(b)

-----------------------------------------------------------------------------
(* i16 arithmetic: the range, and two's-complement wrap-around as a       *)
(* release build (no overflow checks) performs it.                         *)
I16 == -32768..32767
I16Wrap(x) == ((x + 32768) % 65536) - 32768
MinI32 == -2147483647 - 1
MaxI32 == 2147483647

-----------------------------------------------------------------------------
(* Encoding.  LEB(u) is the LEB128 encoding of a natural u < 2^31.        *)
RECURSIVE LEB(_)
LEB(u) == IF u < 128 THEN <<u>> ELSE <<128 + (u % 128)>> \o LEB(u \div 128)

\* A varint whose first 7-bit group is low and whose remaining value is rest.
Low7Then(low, rest) == IF rest = 0 THEN <<low>> ELSE <<128 + low>> \o LEB(rest)

(***************************************************************************)
(* write_varint(n as u32) for an i32 n: the raw (non-zig-zag) varint of   *)
(* its two's-complement bit pattern.  For n < 0 the u32 is 2^32 + n, whose *)
(* low group is n % 128 and whose remaining value is 2^25 + n \div 128.    *)
(***************************************************************************)
U32Varint(n) ==
  IF n >= 0 THEN LEB(n) ELSE Low7Then(n % 128, 33554432 + (n \div 128))

(***************************************************************************)
(* write_varint(n) for a signed i16/i32: zig-zag (2n for n >= 0, -2n-1    *)
(* for n < 0) followed by LEB128, computed group by group.                 *)
(***************************************************************************)
ZigZagVarint(n) ==
  IF n >= 0 THEN Low7Then(2 * (n % 64), n \div 64)
            ELSE Low7Then(2 * ((-(n + 1)) % 64) + 1, (-(n + 1)) \div 64)

-----------------------------------------------------------------------------
(* Decoding.  Parse results are records: ok (with the value and the       *)
(* number of bytes taken), err (with an error kind) or more (the transport *)
(* has not delivered enough bytes yet; read_exact blocks).                  *)
Ok(v, n) == [st |-> "ok", val |-> v, len |-> n]
Err(k)   == [st |-> "err", kind |-> k]
More     == [st |-> "more"]

(***************************************************************************)
(* The varint starting after position p of s, at most max bytes long:     *)
(* read byte by byte up to and including the first byte below 0x80.  A     *)
(* varint longer than max is an io error of the reader (a Transport error). *)
(***************************************************************************)
RECURSIVE VarEnd(_, _, _, _)
\* The length k of the varint, or 0 if neither s nor max ends it.
VarEnd(s, p, k, max) ==
  IF k > max \/ p + k > Len(s) THEN 0
  ELSE IF s[p + k] < 128 THEN k ELSE VarEnd(s, p, k + 1, max)

VarintAt(s, p, max) ==
  LET e == VarEnd(s, p, 1, max)
  IN  IF e # 0 THEN Ok(SubSeq(s, p + 1, p + e), e)
      ELSE IF p + max <= Len(s) THEN Err("Transport")
      ELSE More

\* Value of the first (at most four) 7-bit groups of a varint: below 2^28.
Low4(bs) ==
  LET group(i) == IF i <= Len(bs) THEN bs[i] % 128 ELSE 0
  IN  group(1) + 128 * group(2) + 16384 * group(3) + 2097152 * group(4)
\* Bits 28..31 of the u32 value (the fifth group truncated to a u32).
High4(bs) == IF Len(bs) >= 5 THEN bs[5] % 16 ELSE 0

\* A variant that drops the fifth 7-bit group.
VarintU32AsI32Low28(bs) == Low4(bs)

\* read_varint::<u32>() as i32: the bit pattern read back as signed.
VarintU32AsI32(bs) ==
  Low4(bs) + 268435456 * (IF High4(bs) >= 8 THEN High4(bs) - 16 ELSE High4(bs))

(***************************************************************************)
(* read_varint::<u32>() as a usize length.  A value of 2^31 or more is    *)
(* represented by MaxI32: it exceeds every limit a model configures.       *)
(***************************************************************************)
VarintU32(bs) ==
  IF High4(bs) >= 8 THEN MaxI32 ELSE Low4(bs) + 268435456 * High4(bs)

\* read_varint::<i32>(): zig-zag decoding of the u32 value.
VarintZigZag32(bs) ==
  IF Low4(bs) % 2 = 0
  THEN Low4(bs) \div 2 + 134217728 * High4(bs)
  ELSE -((Low4(bs) + 1) \div 2) - 134217728 * High4(bs)

\* read_varint::<i16>(): zig-zag decoding, then the value as an i16.
VarintZigZag16(bs) ==
  LET z == Low4(bs)
  IN  I16Wrap(IF z % 2 = 0 THEN z \div 2 ELSE -((z + 1) \div 2))

=============================================================================
