---------------------------- MODULE CompactOutput ---------------------------
(***************************************************************************)
(* TCompactOutputProtocol (protocol/compact.rs): the encoder half of the  *)
(* compact protocol.  Its state is the id of the last field written, the   *)
(* stack of saved ids of enclosing structs, the single pending Bool field  *)
(* slot, and the bytes written to the transport.  A panic of the code      *)
(* (assert_no_pending_bool_write, an expect, an i16 overflow in a build    *)
(* with overflow checks) leaves wstate = "panic", after which nothing      *)
(* happens.                                                                *)
(***************************************************************************)
EXTENDS CompactWire

CONSTANT
  OverflowChecks   \* TRUE: debug build, i16 overflow panics; FALSE: wraps

CONSTANT None

VARIABLES
  lastWriteFieldId,      \* last_write_field_id
  writeFieldIdStack,     \* write_field_id_stack (top is the last element)
  pendingWriteBool,      \* pending_write_bool_field_identifier: an id or None
  out,                   \* the bytes written to the transport
  wstate                 \* "ok" or "panic"

outVars == <<lastWriteFieldId, writeFieldIdStack, pendingWriteBool, out, wstate>>

OutTypeOK ==
  /\ lastWriteFieldId \in I16
  /\ writeFieldIdStack \in Seq(I16)
  /\ pendingWriteBool \in I16 \cup {None}
  /\ out \in Seq(Bytes)
  /\ wstate \in {"ok", "panic"}

\* TCompactOutputProtocol::new
OutInit ==
  /\ lastWriteFieldId = 0
  /\ writeFieldIdStack = <<>>
  /\ pendingWriteBool = None
  /\ out = <<>>
  /\ wstate = "ok"

Panic == /\ wstate' = "panic"
         /\ UNCHANGED <<lastWriteFieldId, writeFieldIdStack, pendingWriteBool, out>>

\* Emit bytes and leave the field-id state alone.
Emit(bs) == /\ out' = out \o bs
            /\ UNCHANGED <<lastWriteFieldId, writeFieldIdStack, pendingWriteBool, wstate>>

\* assert_no_pending_bool_write, followed by the rest of the operation.
NoPendingThen(A) == IF pendingWriteBool # None THEN Panic ELSE A

-----------------------------------------------------------------------------
(***************************************************************************)
(* write_field_header: field_id - last_write_field_id is an i16           *)
(* subtraction; 1..14 gives the one-byte short form, anything else the     *)
(* type byte followed by the zig-zag i16 id.                               *)
(***************************************************************************)
FieldDelta(fid) == I16Wrap(fid - lastWriteFieldId)

\* A variant without the field_delta > 0 test.
FieldHeaderBytesNoLowerBound(ftype, fid) ==
  IF FieldDelta(fid) < 15
  THEN <<(FieldDelta(fid) * 16 + ftype) % 256>>
  ELSE <<ftype>> \o ZigZagVarint(fid)

FieldHeaderBytes(ftype, fid) ==
  IF FieldDelta(fid) > 0 /\ FieldDelta(fid) < 15
  THEN <<FieldDelta(fid) * 16 + ftype>>
  ELSE <<ftype>> \o ZigZagVarint(fid)

\* pending is the value the pending-bool slot holds after the call.
WriteFieldHeader(ftype, fid, pending) ==
  IF OverflowChecks /\ fid - lastWriteFieldId \notin I16
  THEN Panic
  ELSE /\ out' = out \o FieldHeaderBytes(ftype, fid)
       /\ lastWriteFieldId' = fid
       /\ pendingWriteBool' = pending
       /\ UNCHANGED <<writeFieldIdStack, wstate>>

\* write_list_set_begin: counts up to 14 (negative ones included) go in the
\* header's high nibble as (count as u8) << 4; larger ones follow as a raw varint.
\* A variant that also puts a count of 15 in the nibble.
ListSetHeaderBytesLE15(etype, n) ==
  IF n <= 15 THEN <<(((n % 256) * 16) % 256) + CollectionTypeToU8(etype)>>
  ELSE <<240 + CollectionTypeToU8(etype)>> \o U32Varint(n)

ListSetHeaderBytes(etype, n) ==
  IF n <= 14 THEN <<(((n % 256) * 16) % 256) + CollectionTypeToU8(etype)>>
  ELSE <<240 + CollectionTypeToU8(etype)>> \o U32Varint(n)

\* write_bytes: raw varint length, then the bytes.
BytesOf(bs) == U32Varint(Len(bs)) \o bs

-----------------------------------------------------------------------------
(* The operations of TOutputProtocol.                                      *)

\* write_message_begin: protocol id, kind << 5 | version, raw varint
\* sequence number, name.  last_write_field_id is not reset.
WriteMessageBegin(name, kind, seq) ==
  Emit(<<130, kind * 32 + 1>> \o U32Varint(seq) \o BytesOf(name))

WriteMessageEnd == NoPendingThen(UNCHANGED outVars)

WriteStructBegin ==
  /\ writeFieldIdStack' = Append(writeFieldIdStack, lastWriteFieldId)
  /\ lastWriteFieldId' = 0
  /\ UNCHANGED <<pendingWriteBool, out, wstate>>

\* A variant that pops the saved id without restoring it.
WriteStructEndNoRestore ==
  NoPendingThen(
    IF writeFieldIdStack = <<>> THEN Panic
    ELSE /\ writeFieldIdStack' = Front(writeFieldIdStack)
         /\ UNCHANGED <<lastWriteFieldId, pendingWriteBool, out, wstate>>)

\* write_struct_end: pop, or panic on an empty stack (expect).
WriteStructEnd ==
  NoPendingThen(
    IF writeFieldIdStack = <<>> THEN Panic
    ELSE /\ lastWriteFieldId' = Last(writeFieldIdStack)
         /\ writeFieldIdStack' = Front(writeFieldIdStack)
         /\ UNCHANGED <<pendingWriteBool, out, wstate>>)

\* write_field_begin: a Bool field is only stashed; a second one panics.
WriteFieldBegin(ftype, fid) ==
  IF ftype = "Bool"
  THEN IF pendingWriteBool # None THEN Panic
       ELSE /\ pendingWriteBool' = fid
            /\ UNCHANGED <<lastWriteFieldId, writeFieldIdStack, out, wstate>>
  ELSE WriteFieldHeader(TypeToU8[ftype], fid, pendingWriteBool)

WriteFieldEnd == NoPendingThen(UNCHANGED outVars)

WriteFieldStop == NoPendingThen(Emit(<<TypeToU8["Stop"]>>))

\* write_bool: the pending field's header carries the value (1 true, 2
\* false); without one, a single byte 1 or 2.
WriteBool(b) ==
  IF pendingWriteBool # None
  THEN WriteFieldHeader(IF b THEN 1 ELSE 2, pendingWriteBool, None)
  ELSE Emit(<<IF b THEN 1 ELSE 2>>)

\* A variant that writes the i8 without the cast to u8.
WriteI8Unmasked(v) == Emit(<<v>>)

WriteI8(v)  == Emit(<<v % 256>>)
WriteI16(v) == Emit(ZigZagVarint(v))
WriteI32(v) == Emit(ZigZagVarint(v))
\* write_i64: the same zig-zag varint; the model's i64 values lie in the
\* i32 range, whose encodings are the same for both widths.
WriteI64(v) == Emit(ZigZagVarint(v))

\* write_double: the eight little-endian bytes of the f64 (the value is
\* given as those bytes).
WriteDouble(d) == Emit(d)

\* write_uuid: write_bytes of the 16 bytes, i.e. with a length prefix.
WriteUuid(u) == Emit(BytesOf(u))

WriteString(s) == Emit(BytesOf(s))

WriteListBegin(etype, n) == Emit(ListSetHeaderBytes(etype, n))
WriteSetBegin(etype, n)  == Emit(ListSetHeaderBytes(etype, n))
WriteListEnd == UNCHANGED outVars
WriteSetEnd  == UNCHANGED outVars

\* write_map_begin: 0x00 for an empty map, else raw varint size then
\* key nibble << 4 | value nibble.
WriteMapBegin(ktype, vtype, n) ==
  Emit(IF n = 0 THEN <<0>>
       ELSE U32Varint(n) \o <<CollectionTypeToU8(ktype) * 16 + CollectionTypeToU8(vtype)>>)
WriteMapEnd == UNCHANGED outVars

\* flush: forwarded to the transport; the protocol state is untouched.
Flush == UNCHANGED outVars

=============================================================================
