------------------------- MODULE MCBinaryRoundTrip --------------------------
(***************************************************************************)
(* Model values for BinaryRoundTrip: the byte sequences and value sets the *)
(* .cfg files cannot write directly.                                       *)
(***************************************************************************)
EXTENDS BinaryRoundTrip

\* "foo"
MCNames == {<<102, 111, 111>>}

\* "test", the name of the envelopes in binary.rs's tests.
MCTestName == <<116, 101, 115, 116>>

\* A UUID: 16 bytes.
MCUuid == [i \in 1..16 |-> i * 15]

\* The double 1.0, given by its eight bytes least significant first.
MCDouble == <<0, 0, 0, 0, 0, 0, 240, 63>>

\* Values written in fields, per scalar type: the least value of each
\* width (sign bit set in the first byte written), strings of 0 and 4
\* bytes.
MCValuesOf == [t \in Scalars |->
                 CASE t = "Bool"   -> BOOLEAN
                   [] t = "I08"    -> {-128}
                   [] t = "I16"    -> {-32768}
                   [] t = "I32"    -> {-1}
                   [] t = "I64"    -> {MinI32}
                   [] t = "Double" -> {MCDouble}
                   [] t = "String" -> {<<>>, MCTestName}
                   [] t = "Uuid"   -> {MCUuid}]

\* Values written in collections: the greatest value of each width.
MCElemValuesOf == [t \in Scalars |->
                     CASE t = "Bool"   -> {TRUE}
                       [] t = "I08"    -> {127}
                       [] t = "I16"    -> {32767}
                       [] t = "I32"    -> {MaxI32}
                       [] t = "I64"    -> {-1}
                       [] t = "Double" -> {MCDouble}
                       [] t = "String" -> {MCTestName}
                       [] t = "Uuid"   -> {MCUuid}]

\* Declared collection sizes: negative, one, two, three.
MCListSizes == {-1, 1, 2, 3}

\* Sequence numbers at the edges of the i32 range.
MCSeqs == {MinI32, MaxI32}

=============================================================================
