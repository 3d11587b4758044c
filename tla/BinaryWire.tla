----------------------------- MODULE BinaryWire -----------------------------
(***************************************************************************)
(* Byte-level vocabulary of the binary protocol (protocol/binary.rs): the *)
(* type-tag table and big-endian fixed-width integers.  Bytes are naturals *)
(* in 0..255, wire data are sequences of bytes.  TLC integers are 32-bit:  *)
(* the conversions below work on signed values group by group and never    *)
(* form 2^32.                                                              *)
(***************************************************************************)
EXTENDS Integers, Sequences, SequencesExt, Utf8

Bytes == 0..255
I16 == -32768..32767
MinI32 == -2147483647 - 1
MaxI32 == 2147483647

\* field_type_to_u8.  String and Utf7 share 0x0B.
TypeToU8 == [Stop |-> 0, Void |-> 1, Bool |-> 2, I08 |-> 3, Double |-> 4,
             I16 |-> 6, I32 |-> 8, I64 |-> 10, String |-> 11, Utf7 |-> 11,
             Struct |-> 12, Map |-> 13, Set |-> 14, List |-> 15, Uuid |-> 16]

\* A variant whose table lacks the I32 entry.
U8ToTypeNo08(b) ==
  IF b = 11 THEN "String"
  ELSE IF \E t \in DOMAIN TypeToU8 \ {"I32"} : TypeToU8[t] = b
  THEN CHOOSE t \in DOMAIN TypeToU8 : TypeToU8[t] = b
  ELSE "Invalid"

\* field_type_from_u8: 0x0B reads as String; any other byte not in the
\* table is InvalidData.
U8ToType(b) ==
  IF b = 11 THEN "String"
  ELSE IF \E t \in DOMAIN TypeToU8 : TypeToU8[t] = b
  THEN CHOOSE t \in DOMAIN TypeToU8 : TypeToU8[t] = b
  ELSE "Invalid"

-----------------------------------------------------------------------------
(***************************************************************************)
(* write_i16/write_i32::<BigEndian>: the n bytes of v's two's complement, *)
(* most significant first.  \div is floor division, so a negative v gives  *)
(* its two's-complement bytes directly.                                    *)
(***************************************************************************)
BE(v, n) == [i \in 1..n |-> (v \div (256 ^ (n - i))) % 256]

\* write_i64::<BigEndian> of an i64 in the i32 range: four bytes of sign
\* extension, then the low four.
BE64(v) == [i \in 1..4 |-> IF v < 0 THEN 255 ELSE 0] \o BE(v, 4)

\* read_i16/read_i32::<BigEndian>: the first byte is signed, the others
\* add their unsigned value.
FromBE(bs) ==
  (IF bs[1] >= 128 THEN bs[1] - 256 ELSE bs[1]) * 256 ^ (Len(bs) - 1)
    + FoldLeft(LAMBDA acc, b : acc * 256 + b, 0, Tail(bs))

\* read_i64::<BigEndian> of eight bytes whose high four are the sign
\* extension of the low four (the model's i64 values lie in the i32 range).
\* A variant that takes the high four bytes of the eight.
FromBE64High(bs) == FromBE(SubSeq(bs, 1, 4))

FromBE64(bs) == FromBE(SubSeq(bs, 5, 8))

(***************************************************************************)
(* Doubles are given by the eight bytes of their IEEE-754 bits, least     *)
(* significant first (as the compact codec writes them); write_f64 and     *)
(* read_f64::<BigEndian> reverse that order.                               *)
(***************************************************************************)
DoubleBE(d) == Reverse(d)

-----------------------------------------------------------------------------
(* Decoding.  Parse results are records: ok (with the value and the       *)
(* number of bytes taken), err (with an error kind) or more (the transport *)
(* has not delivered enough bytes yet; read_exact blocks).                  *)
Ok(v, n) == [st |-> "ok", val |-> v, len |-> n]
Err(k)   == [st |-> "err", kind |-> k]
More     == [st |-> "more"]

=============================================================================
