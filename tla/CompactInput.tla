---------------------------- MODULE CompactInput ----------------------------
(***************************************************************************)
(* TCompactInputProtocol (protocol/compact.rs): the decoder half of the   *)
(* compact protocol.  Its state is the id of the last field read, the      *)
(* stack of saved ids, the pending Bool value of the last Bool field       *)
(* header, and the recursion depth.  The transport is the byte sequence    *)
(* in, read from position rpos; eof is TRUE once the peer will write no    *)
(* more.  A read whose bytes have not arrived blocks (read_exact), and     *)
(* fails with a Transport error at eof.  Every call leaves its result in   *)
(* ret: [st |-> "ok", val |-> v] or [st |-> "err", kind |-> k].  Callers   *)
(* propagate errors, so the model reads nothing after an error; a panic    *)
(* leaves rstate = "panic".  allocated is a history variable: the largest  *)
(* buffer read_bytes has allocated from a length read off the wire.        *)
(***************************************************************************)
EXTENDS CompactWire

CONSTANTS
  OverflowChecks,     \* TRUE: debug build, i16 overflow panics
  NoLimit,
  None

VARIABLES
  config,             \* the TConfiguration given to with_config: [depth, str,
                      \* cont, msg] limits, each a natural or NoLimit; never changed
  lastReadFieldId,    \* last_read_field_id
  readFieldIdStack,   \* read_field_id_stack (top is the last element)
  pendingReadBool,    \* pending_read_bool_value: TRUE, FALSE or None
  recursionDepth,     \* recursion_depth
  in, rpos, eof,      \* the transport
  ret,                \* result of the last call
  rstate,             \* "ok" or "panic"
  allocated           \* largest wire-sized buffer allocated so far

inVars == <<config, lastReadFieldId, readFieldIdStack, pendingReadBool, recursionDepth,
            in, rpos, eof, ret, rstate, allocated>>

codecVars == <<lastReadFieldId, readFieldIdStack, pendingReadBool, recursionDepth>>

\* TCompactInputProtocol::with_config; a composing module chooses config.
InInit ==
  /\ lastReadFieldId = 0
  /\ readFieldIdStack = <<>>
  /\ pendingReadBool = None
  /\ recursionDepth = 0
  /\ rpos = 0
  /\ ret = [st |-> "ok", val |-> None]
  /\ rstate = "ok"
  /\ allocated = 0

Limited(cap) == cap # NoLimit
PanicResult == [st |-> "panic"]

(***************************************************************************)
(* Attempt(p, a, Upd, OnErr) performs a call whose parse of the transport *)
(* is p and which allocates a buffer of a bytes on the way.  It blocks while p needs bytes that have not arrived; at eof that is *)
(* a Transport error (UnexpectedEof).  On success it consumes p.len bytes  *)
(* and updates the codec state by Upd(p.val); on an error the codec state  *)
(* changes by OnErr, what the call did before it failed.  The transport (in, eof)     *)
(* belongs to the environment: a module composing this one constrains it. *)
(***************************************************************************)
Attempt(p, a, Upd(_), OnErr) ==
  /\ rstate = "ok"
  /\ UNCHANGED config
  /\ \E r \in {p} :
       /\ r.st # "more" \/ eof
       /\ allocated' = IF a > allocated THEN a ELSE allocated
       /\ CASE r.st = "more"  -> /\ ret' = [st |-> "err", kind |-> "Transport"]
                                 /\ UNCHANGED <<rpos, rstate>>
                                 /\ OnErr
            [] r.st = "err"   -> /\ ret' = [st |-> "err", kind |-> r.kind]
                                 /\ UNCHANGED <<rpos, rstate>>
                                 /\ OnErr
            [] r.st = "panic" -> /\ rstate' = "panic"
                                 /\ UNCHANGED <<codecVars, rpos, ret>>
            [] r.st = "ok"    -> /\ rpos' = rpos + r.len
                                 /\ ret' = [st |-> "ok", val |-> r.val]
                                 /\ rstate' = "ok"
                                 /\ Upd(r.val)

\* A call that changes no codec state when it fails.
Complete(p, Upd(_)) == Attempt(p, 0, Upd, UNCHANGED codecVars)

KeepState(v) == UNCHANGED codecVars

\* A parse of the next byte, and of the next varint of at most max bytes.
ByteAt(q) == IF q + 1 <= Len(in) THEN Ok(in[q + 1], 1) ELSE More
VarAt(q, max) == VarintAt(in, q, max)

-----------------------------------------------------------------------------
(***************************************************************************)
(* read_bytes at position q: raw varint length, checked against           *)
(* max_string_size before the buffer is allocated, then the bytes.         *)
(***************************************************************************)
\* A variant that refuses a length equal to the limit.
BytesAtLimitInclusive(q) ==
  LET lv == VarAt(q, 5)
      n  == VarintU32(lv.val)
  IN  IF lv.st # "ok" THEN lv
      ELSE IF Limited(config.str) /\ n >= config.str THEN Err("SizeLimit")
      ELSE IF n > Len(in) - q - lv.len THEN More
      ELSE Ok(SubSeq(in, q + lv.len + 1, q + lv.len + n), lv.len + n)

BytesAt(q) ==
  LET lv == VarAt(q, 5)
      n  == VarintU32(lv.val)
  IN  IF lv.st # "ok" THEN lv
      ELSE IF Limited(config.str) /\ n > config.str THEN Err("SizeLimit")
      ELSE IF n > Len(in) - q - lv.len THEN More
      ELSE Ok(SubSeq(in, q + lv.len + 1, q + lv.len + n), lv.len + n)

\* A variant that returns the bytes without String::from_utf8.
StringAtUnchecked(q) == BytesAt(q)

\* read_string at q: read_bytes, then String::from_utf8; a FromUtf8Error
\* becomes InvalidData.
StringAt(q) ==
  LET bs == BytesAt(q)
  IN  IF bs.st = "ok" /\ ~IsUtf8(bs.val) THEN Err("InvalidData") ELSE bs

\* The size of the buffer read_bytes allocates at q: the varint length once
\* it has passed the max_string_size check, whether or not the bytes follow.
\* A variant that allocates before the check.
BytesAllocUnchecked(q) ==
  LET lv == VarAt(q, 5) IN IF lv.st = "ok" THEN VarintU32(lv.val) ELSE 0

BytesAlloc(q) ==
  LET lv == VarAt(q, 5)
      n  == VarintU32(lv.val)
  IN  IF lv.st = "ok" /\ ~(Limited(config.str) /\ n > config.str) THEN n ELSE 0

\* compact_protocol_min_serialized_size: one byte for every varint-coded
\* or single-byte type, eight for Double, sixteen for Uuid.
MinSerializedSize(t) == CASE t = "Double" -> 8 [] t = "Uuid" -> 16 [] OTHER -> 1

\* check_container_size (protocol/mod.rs): a negative count, a count above
\* max_container_size, or count * the least element size above the message
\* budget.  No message-size tracking is done (the TODO of
\* read_message_begin), so the budget is max_message_size itself.
CheckContainerSize(count, elemSize) ==
  IF count < 0 THEN Err("NegativeSize")
  ELSE IF Limited(config.cont) /\ count > config.cont THEN Err("SizeLimit")
  ELSE IF Limited(config.msg) /\ count * elemSize > config.msg THEN Err("SizeLimit")
  ELSE Ok(count, 0)

\* read_list_set_begin: header byte (count << 4 | element nibble), with the
\* count as a following raw varint when the high nibble is 15.
ListSetParse ==
  LET h  == ByteAt(rpos)
      et == CollectionU8ToType(h.val % 16)
      cv == VarAt(rpos + 1, 5)
      n  == IF h.val \div 16 # 15 THEN h.val \div 16 ELSE VarintU32AsI32(cv.val)
      nl == IF h.val \div 16 # 15 THEN 1 ELSE 1 + cv.len
      cc == CheckContainerSize(n, MinSerializedSize(et))
  IN  IF h.st # "ok" THEN h
      ELSE IF et = "Invalid" THEN Err("InvalidData")
      ELSE IF h.val \div 16 = 15 /\ cv.st # "ok" THEN cv
      ELSE IF cc.st # "ok" THEN cc
      ELSE Ok([et |-> et, n |-> n], nl)

\* A variant of TMessageType::try_from without OneWay.
MessageKindsNoOneWay == 1..3

\* TMessageType::try_from (protocol/mod.rs): Call, Reply, Exception, OneWay.
MessageKinds == 1..4

-----------------------------------------------------------------------------
(* read_message_begin: 0x82, then version 1 in the low five bits and the  *)
(* kind in the high three, raw varint sequence number (sv, the parse of   *)
(* the varint at rpos + 2), name.                                          *)
MessageBeginParse(sv) ==
  LET id   == ByteAt(rpos)
      tb   == ByteAt(rpos + 1)
      kind == tb.val \div 32
      nm   == StringAt(rpos + 2 + sv.len)
  IN  IF id.st # "ok" THEN id
      ELSE IF id.val # 130 THEN Err("BadVersion")
      ELSE IF tb.st # "ok" THEN tb
      ELSE IF tb.val % 32 # 1 THEN Err("BadVersion")
      ELSE IF kind \notin MessageKinds THEN Err("InvalidData")
      ELSE IF sv.st # "ok" THEN sv
      ELSE IF nm.st # "ok" THEN nm
      ELSE Ok([name |-> nm.val, kind |-> kind, seq |-> VarintU32AsI32(sv.val)],
              2 + sv.len + nm.len)

\* The name's buffer, allocated once the header before it has parsed.
MessageBeginAlloc(sv) ==
  LET tb == ByteAt(rpos + 1)
  IN  IF /\ ByteAt(rpos).st = "ok" /\ ByteAt(rpos).val = 130
         /\ tb.st = "ok" /\ tb.val % 32 = 1 /\ tb.val \div 32 \in MessageKinds
         /\ sv.st = "ok"
      THEN BytesAlloc(rpos + 2 + sv.len) ELSE 0

MessageBeginUpd(v) ==
  /\ lastReadFieldId' = 0
  /\ UNCHANGED <<readFieldIdStack, pendingReadBool, recursionDepth>>

ReadMessageBegin ==
  \E sv \in {VarAt(rpos + 2, 5)} :
    Attempt(MessageBeginParse(sv), MessageBeginAlloc(sv), MessageBeginUpd, UNCHANGED codecVars)

ReadMessageEnd == Complete(Ok(None, 0), KeepState)

\* read_struct_begin: the depth is compared with the limit before it is
\* incremented; then the current field id is saved.
\* A variant that compares after the increment would have happened.
StructBeginParseOffByOne ==
  IF Limited(config.depth) /\ recursionDepth > config.depth
  THEN Err("DepthLimit") ELSE Ok(None, 0)

StructBeginParse ==
  IF Limited(config.depth) /\ recursionDepth >= config.depth
  THEN Err("DepthLimit") ELSE Ok(None, 0)

\* A variant that never saves the field id on the stack.
StructBeginUpdNoPush(v) ==
  /\ recursionDepth' = recursionDepth + 1
  /\ lastReadFieldId' = 0
  /\ UNCHANGED <<readFieldIdStack, pendingReadBool>>

StructBeginUpd(v) ==
  /\ recursionDepth' = recursionDepth + 1
  /\ readFieldIdStack' = Append(readFieldIdStack, lastReadFieldId)
  /\ lastReadFieldId' = 0
  /\ UNCHANGED pendingReadBool

ReadStructBegin == Complete(StructBeginParse, StructBeginUpd)

\* read_struct_end: decrement, then pop; an empty stack panics (expect).
StructEndParse == IF readFieldIdStack = <<>> THEN PanicResult ELSE Ok(None, 0)

StructEndUpd(v) ==
  /\ recursionDepth' = recursionDepth - 1
  /\ lastReadFieldId' = Last(readFieldIdStack)
  /\ readFieldIdStack' = Front(readFieldIdStack)
  /\ UNCHANGED pendingReadBool

ReadStructEnd == Complete(StructEndParse, StructEndUpd)

(***************************************************************************)
(* read_field_begin: one byte of delta << 4 | type nibble.  Nibbles 1 and *)
(* 2 are a Bool field whose value is the nibble; the value is kept in      *)
(* pending_read_bool_value.  A non-zero delta is added to the last id (an  *)
(* i16 addition); a zero delta is followed by the zig-zag i16 id.  Stop    *)
(* has no id and leaves the last id alone.                                 *)
(***************************************************************************)
\* A variant that takes only nibble 1 for a Bool field.
FieldTypeOfOnly1(nib) == IF nib = 1 THEN "Bool" ELSE U8ToType(nib)

\* The match on the type nibble of a field header.
FieldTypeOf(nib) == IF nib \in {1, 2} THEN "Bool" ELSE U8ToType(nib)

\* A variant that adds the delta in a wider type and truncates, so it
\* wraps whatever the build.
FieldBeginParseWidened ==
  LET h     == ByteAt(rpos)
      delta == h.val \div 16
      ft    == FieldTypeOf(h.val % 16)
      iv    == VarAt(rpos + 1, 3)
  IN  IF h.st # "ok" THEN h
      ELSE IF ft = "Invalid" THEN Err("InvalidData")
      ELSE IF ft = "Stop" THEN Ok([t |-> "Stop", id |-> None], 1)
      ELSE IF delta # 0 THEN Ok([t |-> ft, id |-> I16Wrap(lastReadFieldId + delta)], 1)
      ELSE IF iv.st # "ok" THEN iv
      ELSE Ok([t |-> ft, id |-> VarintZigZag16(iv.val)], 1 + iv.len)

FieldBeginParse ==
  LET h     == ByteAt(rpos)
      delta == h.val \div 16
      ft    == FieldTypeOf(h.val % 16)
      iv    == VarAt(rpos + 1, 3)
  IN  IF h.st # "ok" THEN h
      ELSE IF ft = "Invalid" THEN Err("InvalidData")
      ELSE IF ft = "Stop" THEN Ok([t |-> "Stop", id |-> None], 1)
      ELSE IF delta # 0
           THEN IF OverflowChecks /\ lastReadFieldId + delta \notin I16
                THEN PanicResult
                ELSE Ok([t |-> ft, id |-> I16Wrap(lastReadFieldId + delta)], 1)
      ELSE IF iv.st # "ok" THEN iv
      ELSE Ok([t |-> ft, id |-> VarintZigZag16(iv.val)], 1 + iv.len)

\* The pending Bool value once the header byte has been read: the match
\* on the type nibble sets it before the id is read.
PendingAfterHeader ==
  CASE rpos + 1 > Len(in)      -> pendingReadBool
    [] in[rpos + 1] % 16 = 1 -> TRUE
    [] in[rpos + 1] % 16 = 2 -> FALSE
    [] OTHER                 -> pendingReadBool

FieldBeginUpd(v) ==
  /\ lastReadFieldId' = IF v.t = "Stop" THEN lastReadFieldId ELSE v.id
  /\ pendingReadBool' = PendingAfterHeader
  /\ UNCHANGED <<readFieldIdStack, recursionDepth>>

\* A failed read of the zig-zag id leaves the pending Bool value set.
FieldBeginFail ==
  /\ pendingReadBool' = PendingAfterHeader
  /\ UNCHANGED <<lastReadFieldId, readFieldIdStack, recursionDepth>>

ReadFieldBegin == Attempt(FieldBeginParse, 0, FieldBeginUpd, FieldBeginFail)

ReadFieldEnd == Complete(Ok(None, 0), KeepState)

\* read_bool: take the pending value; without one, read a byte: 0 and 2 are
\* false, 1 is true, anything else is InvalidData.
BoolParse ==
  LET b == ByteAt(rpos)
  IN  IF pendingReadBool # None THEN Ok(pendingReadBool, 0)
      ELSE IF b.st # "ok" THEN b
      ELSE IF b.val \in {0, 2} THEN Ok(FALSE, 1)
      ELSE IF b.val = 1 THEN Ok(TRUE, 1)
      ELSE Err("InvalidData")

\* A variant that reads the pending value without taking it.
BoolUpdKeep(v) == UNCHANGED codecVars

BoolUpd(v) ==
  /\ pendingReadBool' = None
  /\ UNCHANGED <<lastReadFieldId, readFieldIdStack, recursionDepth>>

ReadBool == Complete(BoolParse, BoolUpd)

\* read_i8: one byte as i8; read_i16/read_i32: zig-zag varints of at most
\* 3 and 5 bytes.
I8Parse ==
  LET b == ByteAt(rpos)
  IN  IF b.st # "ok" THEN b ELSE Ok(IF b.val >= 128 THEN b.val - 256 ELSE b.val, 1)

ZigZagParse(max) ==
  LET v == VarAt(rpos, max)
  IN  IF v.st # "ok" THEN v
      ELSE Ok(IF max = 3 THEN VarintZigZag16(v.val) ELSE VarintZigZag32(v.val), v.len)

ReadI8  == Complete(I8Parse, KeepState)
ReadI16 == Complete(ZigZagParse(3), KeepState)
ReadI32 == Complete(ZigZagParse(5), KeepState)
\* read_i64: a varint of up to 10 bytes; the model's values lie in the i32
\* range, so at most five are used.
ReadI64 == Complete(ZigZagParse(10), KeepState)

\* read_double: eight raw bytes.
DoubleParse ==
  IF rpos + 8 <= Len(in) THEN Ok(SubSeq(in, rpos + 1, rpos + 8), 8) ELSE More

ReadDouble == Complete(DoubleParse, KeepState)

ReadString == Attempt(StringAt(rpos), BytesAlloc(rpos), KeepState, UNCHANGED codecVars)

\* read_uuid: read_bytes, then Uuid::from_slice, which needs 16 bytes.
UuidParse ==
  LET bs == BytesAt(rpos)
  IN  IF bs.st = "ok" /\ Len(bs.val) # 16 THEN Err("InvalidData") ELSE bs

ReadUuid == Attempt(UuidParse, BytesAlloc(rpos), KeepState, UNCHANGED codecVars)

ReadListBegin == Complete(ListSetParse, KeepState)
ReadSetBegin  == Complete(ListSetParse, KeepState)
ReadListEnd   == Complete(Ok(None, 0), KeepState)
ReadSetEnd    == Complete(Ok(None, 0), KeepState)

\* read_map_begin: raw varint size; 0 is an empty map with no types, else
\* a byte of key nibble << 4 | value nibble, then check_container_size.
MapParse ==
  LET cv == VarAt(rpos, 5)
      n  == VarintU32AsI32(cv.val)
      h  == ByteAt(rpos + cv.len)
      kt == CollectionU8ToType(h.val \div 16)
      vt == CollectionU8ToType(h.val % 16)
      cc == CheckContainerSize(n, MinSerializedSize(kt) + MinSerializedSize(vt))
  IN  IF cv.st # "ok" THEN cv
      ELSE IF n = 0 THEN Ok([kt |-> None, vt |-> None, n |-> 0], cv.len)
      ELSE IF h.st # "ok" THEN h
      ELSE IF kt = "Invalid" \/ vt = "Invalid" THEN Err("InvalidData")
      ELSE IF cc.st # "ok" THEN cc
      ELSE Ok([kt |-> kt, vt |-> vt, n |-> n], cv.len + 1)

ReadMapBegin == Complete(MapParse, KeepState)
ReadMapEnd   == Complete(Ok(None, 0), KeepState)

=============================================================================
