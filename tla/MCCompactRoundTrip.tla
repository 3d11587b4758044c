------------------------- MODULE MCCompactRoundTrip -------------------------
(***************************************************************************)
(* Model values for CompactRoundTrip: the byte sequences and value sets   *)
(* the .cfg files cannot write directly.                                   *)
(***************************************************************************)
EXTENDS CompactRoundTrip

\* "foo"
MCNames == {<<102, 111, 111>>}

\* A UUID: 16 bytes.
MCUuid == [i \in 1..16 |-> i * 15]

\* The double 1.0: its eight little-endian bytes.
MCDouble == <<0, 0, 0, 0, 0, 0, 240, 63>>

\* A string one byte longer than a Uuid: 17 bytes.
MCLongString == [i \in 1..17 |-> 97]

\* Values written in fields, per scalar type: the edges of each encoding
\* (i8 -128 as byte 0x80, the 3-byte zig-zag of i16 -32768, the 5-byte
\* zig-zag of the least i32, an empty string).
MCValuesOf == [t \in Scalars |->
                 CASE t = "Bool"   -> BOOLEAN
                   [] t = "I08"     -> {-128}
                   [] t = "I16"    -> {-32768}
                   [] t = "I32"    -> {-1}
                   [] t = "I64"    -> {MinI32}
                   [] t = "Double" -> {MCDouble}
                   [] t = "String" -> {<<>>, MCLongString} \cup MCNames
                   [] t = "Uuid"   -> {MCUuid}]

\* Values written in collections: one per type.
MCElemValuesOf == [t \in Scalars |->
                     CASE t = "Bool"   -> {TRUE}
                       [] t = "I08"     -> {127}
                       [] t = "I16"    -> {32767}
                       [] t = "I32"    -> {MaxI32}
                       [] t = "I64"    -> {-1}
                       [] t = "Double" -> {MCDouble}
                       [] t = "String" -> MCNames
                       [] t = "Uuid"   -> {MCUuid}]

\* Ids whose successive deltas give the short form (1), the long form
\* (32766) and an i16 wrap-around (32767 then -32768: delta 1).
MCWrapIds == {-32768, 1, 32767}

\* Ids whose deltas from 0 are 0, 14 and 15.
MCDeltaIds == {0, 14, 15}

\* Ids whose difference overflows an i16: 32767 - (-1).
MCOverflowIds == {-1, 32767}

\* Sequence numbers whose raw u32 varints take five bytes: negative ones
\* (high bit set) and the largest positive one.
MCSeqs == {MinI32, -1, MaxI32}

\* A sequence number with the high bit set: a five-byte raw varint.
MCNegativeSeq == {-1}

\* A negative declared list size, as TListIdentifier's i32 allows.
MCNegativeSizes == {-2}

=============================================================================
