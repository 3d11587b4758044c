---------------------------- MODULE BinaryInput -----------------------------
(***************************************************************************)
(* TBinaryInputProtocol (protocol/binary.rs): the decoder half of the     *)
(* binary protocol.  Its state is the recursion depth and the strict flag, *)
(* set by with_config and never changed, as is the configuration.  The     *)
(* transport is the byte sequence in, read from position rpos; eof is TRUE *)
(* once the peer will write no more.  A read whose bytes have not arrived *)
(* blocks (read_exact) and fails with a Transport error at eof.  Every     *)
(* call leaves its result in ret.  allocated is a history variable: the    *)
(* largest buffer the decoder has allocated from a size read off the wire  *)
(* (vec![0; n]).                                                           *)
(***************************************************************************)
EXTENDS BinaryWire

CONSTANTS
  OverflowChecks,     \* TRUE: debug build, usize underflow panics
  NoLimit,
  None

VARIABLES
  strict,             \* the strict field, given to with_config
  config,             \* the config field: [depth, str, cont, msg], each a limit
                      \* or NoLimit
  recursionDepth,     \* recursion_depth (a usize)
  in, rpos, eof,      \* the transport
  ret,                \* result of the last call
  rstate,             \* "ok" or "panic"
  allocated           \* largest wire-sized buffer allocated so far

\* TBinaryInputProtocol::with_config; strict and config are the caller's.
InInit ==
  /\ strict \in BOOLEAN
  /\ recursionDepth = 0
  /\ rpos = 0
  /\ ret = [st |-> "ok", val |-> None]
  /\ rstate = "ok"
  /\ allocated = 0

Limited(cap) == cap # NoLimit

\* usize::MAX, the value a release build's recursion_depth -= 1 wraps to
\* from 0: above every limit a model configures.
UsizeMax == MaxI32

(***************************************************************************)
(* Attempt(p, a, Upd) performs a call whose parse of the transport is p   *)
(* and which allocates a buffer of a bytes on the way.  It blocks while p  *)
(* needs bytes that have not arrived; at eof that is a Transport error.    *)
(* On success it consumes p.len bytes and updates the depth by Upd(p.val). *)
(***************************************************************************)
Attempt(p, a, Upd(_)) ==
  /\ rstate = "ok"
  /\ UNCHANGED <<strict, config>>
  /\ \E r \in {p} :
       /\ r.st # "more" \/ eof
       /\ allocated' = IF a > allocated THEN a ELSE allocated
       /\ CASE r.st = "more"  -> /\ ret' = [st |-> "err", kind |-> "Transport"]
                                 /\ UNCHANGED <<rpos, rstate, recursionDepth>>
            [] r.st = "err"   -> /\ ret' = [st |-> "err", kind |-> r.kind]
                                 /\ UNCHANGED <<rpos, rstate, recursionDepth>>
            [] r.st = "panic" -> /\ rstate' = "panic"
                                 /\ UNCHANGED <<rpos, ret, recursionDepth>>
            [] r.st = "ok"    -> /\ rpos' = rpos + r.len
                                 /\ ret' = [st |-> "ok", val |-> r.val]
                                 /\ UNCHANGED rstate
                                 /\ Upd(r.val)

KeepDepth(v) == UNCHANGED recursionDepth

\* A call that reads nothing (the ends of message, field and collections).
NoRead == Attempt(Ok(None, 0), 0, KeepDepth)

\* The next n bytes at position q, and the big-endian integer they hold.
FixedAt(q, n) == IF q + n <= Len(in) THEN Ok(SubSeq(in, q + 1, q + n), n) ELSE More
IntAt(q, n) ==
  LET f == FixedAt(q, n)
  IN  IF f.st # "ok" THEN f ELSE Ok(FromBE(f.val), n)

\* read_byte, then field_type_from_u8.
TypeAt(q) ==
  LET b == FixedAt(q, 1)
  IN  IF b.st # "ok" THEN b
      ELSE IF U8ToType(b.val[1]) = "Invalid" THEN Err("InvalidData")
      ELSE Ok(U8ToType(b.val[1]), 1)

-----------------------------------------------------------------------------
(***************************************************************************)
(* read_bytes at position q: an i32 length, rejected if negative or above *)
(* max_string_size; then a buffer of that size is allocated and filled.    *)
(***************************************************************************)
\* A variant that checks the length against the limit only after the
\* buffer is allocated.
BytesAllocUnchecked(q) ==
  LET l == IntAt(q, 4) IN IF l.st = "ok" /\ l.val >= 0 THEN l.val ELSE 0

BytesAlloc(q) ==
  LET l == IntAt(q, 4)
  IN  IF l.st = "ok" /\ l.val >= 0 /\ ~(Limited(config.str) /\ l.val > config.str)
      THEN l.val ELSE 0

BytesAt(q) ==
  LET l == IntAt(q, 4)
      b == FixedAt(q + 4, l.val)
  IN  IF l.st # "ok" THEN l
      ELSE IF l.val < 0 THEN Err("NegativeSize")
      ELSE IF Limited(config.str) /\ l.val > config.str THEN Err("SizeLimit")
      ELSE IF b.st # "ok" THEN b
      ELSE Ok(b.val, 4 + l.val)

\* read_string at q: read_bytes, then String::from_utf8; a FromUtf8Error
\* becomes InvalidData.
StringAt(q) ==
  LET bs == BytesAt(q)
  IN  IF bs.st = "ok" /\ ~IsUtf8(bs.val) THEN Err("InvalidData") ELSE bs

\* min_serialized_size: the fixed width of a scalar, the four-byte length
\* or size prefix of a string or collection, one byte for the rest.
MinSerializedSize(t) ==
  CASE t = "I16"                                   -> 2
    [] t \in {"I32", "String", "List", "Set", "Map"} -> 4
    [] t \in {"I64", "Double"}                      -> 8
    [] t = "Uuid"                                  -> 16
    [] OTHER                                       -> 1

\* check_container_size (protocol/mod.rs): a negative count, a count above
\* max_container_size, or count * the least element size above the message
\* budget, which is max_message_size (no message-size tracking is done).
CheckContainerSize(count, elemSize) ==
  IF count < 0 THEN Err("NegativeSize")
  ELSE IF Limited(config.cont) /\ count > config.cont THEN Err("SizeLimit")
  ELSE IF Limited(config.msg) /\ count * elemSize > config.msg THEN Err("SizeLimit")
  ELSE Ok(count, 0)

\* TMessageType::try_from (protocol/mod.rs): Call, Reply, Exception, OneWay.
MessageKinds == 1..4

-----------------------------------------------------------------------------
(***************************************************************************)
(* read_message_begin: four bytes first.  With the sign bit set they are  *)
(* the version header 0x80 0x01 _ kind, followed by the name (read_string) *)
(* and the sequence number.  Without it a strict decoder fails with        *)
(* BadVersion; a non-strict one takes them as the name's length, allocates *)
(* a buffer of that size, and reads the name, the kind byte and the        *)
(* sequence number.                                                        *)
(***************************************************************************)
\* The strict envelope after a version header h: the name nm (the parse of
\* read_string after the header), then the sequence number.
VersionedParse(h, nm) ==
  LET sq == IntAt(rpos + 8 + Len(nm.val), 4)
  IN  IF h[1] # 128 \/ h[2] # 1 THEN Err("BadVersion")
      ELSE IF h[4] \notin MessageKinds THEN Err("InvalidData")
      ELSE IF nm.st # "ok" THEN nm
      ELSE IF sq.st # "ok" THEN sq
      ELSE Ok([name |-> nm.val, kind |-> h[4], seq |-> sq.val], 8 + nm.len)

\* A variant that reads the sequence number right after the name.
NonStrictParseNoKind(size) ==
  LET nb == FixedAt(rpos + 4, size)
      sq == IntAt(rpos + 4 + size, 4)
  IN  IF nb.st # "ok" THEN nb
      ELSE IF ~IsUtf8(nb.val) THEN Err("InvalidData")
      ELSE IF sq.st # "ok" THEN sq
      ELSE Ok([name |-> nb.val, kind |-> 1, seq |-> sq.val], 8 + size)

\* The non-strict envelope: the four bytes were the name's length; then
\* the name, the kind byte, the sequence number.
NonStrictParse(size) ==
  LET nb == FixedAt(rpos + 4, size)
      kb == FixedAt(rpos + 4 + size, 1)
      sq == IntAt(rpos + 5 + size, 4)
  IN  IF nb.st # "ok" THEN nb
      ELSE IF ~IsUtf8(nb.val) THEN Err("InvalidData")
      ELSE IF kb.st # "ok" THEN kb
      ELSE IF kb.val[1] \notin MessageKinds THEN Err("InvalidData")
      ELSE IF sq.st # "ok" THEN sq
      ELSE Ok([name |-> nb.val, kind |-> kb.val[1], seq |-> sq.val], 9 + size)

\* Four bytes without the sign bit: BadVersion for a strict decoder.
UnversionedParse(size) == IF strict THEN Err("BadVersion") ELSE NonStrictParse(size)

\* h is the parse of the first four bytes, nm that of a name after them.
MessageBeginParse(h, nm) ==
  IF h.st # "ok" THEN h
  ELSE IF h.val[1] >= 128 THEN VersionedParse(h.val, nm)
  ELSE UnversionedParse(FromBE(h.val))

\* The buffer read_message_begin allocates: the name of a strict header
\* through read_bytes, else vec![0; name_size] before any check.
MessageBeginAlloc(h) ==
  IF h.st # "ok" THEN 0
  ELSE IF h.val[1] >= 128
  THEN IF h.val[1] = 128 /\ h.val[2] = 1 /\ h.val[4] \in MessageKinds
       THEN BytesAlloc(rpos + 4) ELSE 0
  ELSE IF strict THEN 0 ELSE FromBE(h.val)

ReadMessageBegin ==
  \E h \in {FixedAt(rpos, 4)}, nm \in {StringAt(rpos + 4)} :
    Attempt(MessageBeginParse(h, nm), MessageBeginAlloc(h), KeepDepth)

\* read_struct_begin: check_recursion_depth compares before the increment.
\* A variant that compares after the increment would have happened.
StructBeginParseOffByOne ==
  IF Limited(config.depth) /\ recursionDepth > config.depth
  THEN Err("DepthLimit") ELSE Ok(None, 0)

StructBeginParse ==
  IF Limited(config.depth) /\ recursionDepth >= config.depth
  THEN Err("DepthLimit")
  ELSE IF recursionDepth = UsizeMax /\ OverflowChecks THEN [st |-> "panic"]
  ELSE Ok(None, 0)

StructBeginUpd(v) ==
  recursionDepth' = IF recursionDepth = UsizeMax THEN 0 ELSE recursionDepth + 1

ReadStructBegin == Attempt(StructBeginParse, 0, StructBeginUpd)

\* A variant that forgets the decrement.
StructEndUpdNoDecrement(v) == UNCHANGED recursionDepth

\* read_struct_end: recursion_depth -= 1, with no check that a struct is
\* open: at 0 a debug build panics and a release build wraps to usize::MAX.
StructEndParse ==
  IF recursionDepth = 0 /\ OverflowChecks THEN [st |-> "panic"] ELSE Ok(None, 0)

StructEndUpd(v) ==
  recursionDepth' = IF recursionDepth = 0 THEN UsizeMax ELSE recursionDepth - 1

ReadStructEnd == Attempt(StructEndParse, 0, StructEndUpd)

\* A variant that reads an id after Stop as well.
FieldBeginParseStopWithId ==
  LET t  == TypeAt(rpos)
      id == IntAt(rpos + 1, 2)
  IN  IF t.st # "ok" THEN t
      ELSE IF id.st # "ok" THEN id
      ELSE Ok([t |-> t.val, id |-> id.val], 3)

\* read_field_begin: the type byte, then an i16 id unless it is Stop, which
\* reads as id 0.
FieldBeginParse ==
  LET t  == TypeAt(rpos)
      id == IntAt(rpos + 1, 2)
  IN  IF t.st # "ok" THEN t
      ELSE IF t.val = "Stop" THEN Ok([t |-> "Stop", id |-> 0], 1)
      ELSE IF id.st # "ok" THEN id
      ELSE Ok([t |-> t.val, id |-> id.val], 3)

ReadFieldBegin == Attempt(FieldBeginParse, 0, KeepDepth)

\* A variant that takes only 1 for true.
BoolParseOneOnly ==
  LET b == FixedAt(rpos, 1)
  IN  IF b.st # "ok" THEN b ELSE Ok(b.val[1] = 1, 1)

\* read_bool: read_i8; zero is false, anything else true.
BoolParse ==
  LET b == FixedAt(rpos, 1)
  IN  IF b.st # "ok" THEN b ELSE Ok(b.val[1] # 0, 1)

\* Fixed-width scalars.
ScalarParse(n, Conv(_)) ==
  LET f == FixedAt(rpos, n)
  IN  IF f.st # "ok" THEN f ELSE Ok(Conv(f.val), n)

ReadBool   == Attempt(BoolParse, 0, KeepDepth)
ReadI8     == Attempt(ScalarParse(1, FromBE), 0, KeepDepth)
ReadI16    == Attempt(ScalarParse(2, FromBE), 0, KeepDepth)
ReadI32    == Attempt(ScalarParse(4, FromBE), 0, KeepDepth)
ReadI64    == Attempt(ScalarParse(8, FromBE64), 0, KeepDepth)
ReadDouble == Attempt(ScalarParse(8, DoubleBE), 0, KeepDepth)
\* read_uuid: sixteen raw bytes.
ReadUuid   == Attempt(FixedAt(rpos, 16), 0, KeepDepth)
ReadBytes  == Attempt(BytesAt(rpos), BytesAlloc(rpos), KeepDepth)
ReadString == Attempt(StringAt(rpos), BytesAlloc(rpos), KeepDepth)

\* read_list_begin / read_set_begin: element type, i32 size, then
\* check_container_size.
ListSetParse ==
  LET t == TypeAt(rpos)
      n == IntAt(rpos + 1, 4)
      cc == CheckContainerSize(n.val, MinSerializedSize(t.val))
  IN  IF t.st # "ok" THEN t
      ELSE IF n.st # "ok" THEN n
      ELSE IF cc.st # "ok" THEN cc
      ELSE Ok([et |-> t.val, n |-> n.val], 5)

ReadListBegin == Attempt(ListSetParse, 0, KeepDepth)
ReadSetBegin  == Attempt(ListSetParse, 0, KeepDepth)

\* read_map_begin: key type, value type, i32 size, check_container_size.
MapParse ==
  LET kt == TypeAt(rpos)
      vt == TypeAt(rpos + 1)
      n  == IntAt(rpos + 2, 4)
      cc == CheckContainerSize(n.val, MinSerializedSize(kt.val) + MinSerializedSize(vt.val))
  IN  IF kt.st # "ok" THEN kt
      ELSE IF vt.st # "ok" THEN vt
      ELSE IF n.st # "ok" THEN n
      ELSE IF cc.st # "ok" THEN cc
      ELSE Ok([kt |-> kt.val, vt |-> vt.val, n |-> n.val], 6)

ReadMapBegin == Attempt(MapParse, 0, KeepDepth)

=============================================================================
