-------------------------------- MODULE Utf8 --------------------------------
(***************************************************************************)
(* What String::from_utf8 accepts, which both decoders call on the bytes  *)
(* of a string or a message name: a sequence of well-formed UTF-8 byte    *)
(* sequences (RFC 3629, the table core::str validates against): no        *)
(* overlong forms, no surrogates, nothing above U+10FFFF.  A rejection is *)
(* a FromUtf8Error, which the codecs turn into InvalidData.                *)
(***************************************************************************)
EXTENDS Integers, Sequences

\* A continuation byte.
Utf8Tail == 128..191

\* The well-formed sequences, as the allowed range of each byte.
Utf8Forms ==
  { <<0..127>>,
    <<194..223, Utf8Tail>>,
    <<{224}, 160..191, Utf8Tail>>, <<225..236, Utf8Tail, Utf8Tail>>,
    <<{237}, 128..159, Utf8Tail>>, <<238..239, Utf8Tail, Utf8Tail>>,
    <<{240}, 144..191, Utf8Tail, Utf8Tail>>, <<241..243, Utf8Tail, Utf8Tail, Utf8Tail>>,
    <<{244}, 128..143, Utf8Tail, Utf8Tail>> }

\* The bytes of s from position i on begin with the form f.
StartsWithForm(s, i, f) ==
  /\ i + Len(f) - 1 <= Len(s)
  /\ \A k \in 1..Len(f) : s[i + k - 1] \in f[k]

RECURSIVE WellFormedFrom(_, _)
WellFormedFrom(s, i) ==
  \/ i > Len(s)
  \/ \E f \in Utf8Forms : StartsWithForm(s, i, f) /\ WellFormedFrom(s, i + Len(f))

\* s is bound once (buf), as from_utf8 receives the buffer read_bytes filled.
IsUtf8(s) == \E buf \in {s} : WellFormedFrom(buf, 1)

-----------------------------------------------------------------------------
(***************************************************************************)
(* What a Rust String holds (what the encoder's write_string accepts),    *)
(* stated by arithmetic rather than by table: s is the concatenation of    *)
(* the encodings of Unicode scalar values, where the encoding of a code    *)
(* point is the one of RFC 3629 section 3.  A chunk of n bytes is accepted *)
(* when its payload bits name a scalar value whose encoding is that chunk. *)
(***************************************************************************)
ScalarValue(cp) == cp \in 0..1114111 /\ cp \notin 55296..57343

Utf8Encode(cp) ==
  CASE cp < 128   -> <<cp>>
    [] cp < 2048  -> <<192 + cp \div 64, 128 + (cp % 64)>>
    [] cp < 65536 -> <<224 + cp \div 4096, 128 + ((cp \div 64) % 64), 128 + (cp % 64)>>
    [] OTHER      -> <<240 + cp \div 262144, 128 + ((cp \div 4096) % 64),
                       128 + ((cp \div 64) % 64), 128 + (cp % 64)>>

\* The payload bits of a chunk of one to four bytes.
Utf8Payload(c) ==
  CASE Len(c) = 1 -> c[1]
    [] Len(c) = 2 -> (c[1] % 32) * 64 + (c[2] % 64)
    [] Len(c) = 3 -> (c[1] % 16) * 4096 + (c[2] % 64) * 64 + (c[3] % 64)
    [] Len(c) = 4 -> (c[1] % 8) * 262144 + (c[2] % 64) * 4096 + (c[3] % 64) * 64 + (c[4] % 64)

RECURSIVE Utf8Reference(_)
Utf8Reference(s) ==
  \/ s = <<>>
  \/ \E n \in 1..4 :
       /\ n <= Len(s)
       /\ LET c == SubSeq(s, 1, n) IN
            ScalarValue(Utf8Payload(c)) /\ Utf8Encode(Utf8Payload(c)) = c
       /\ Utf8Reference(SubSeq(s, n + 1, Len(s)))

=============================================================================
