---------------------------- MODULE BinaryOutput ----------------------------
(***************************************************************************)
(* TBinaryOutputProtocol (protocol/binary.rs): the encoder half of the    *)
(* binary protocol.  Its only state besides the transport is the strict    *)
(* flag, set by new and never changed.  out is the bytes written to the    *)
(* transport; a call that returns an error leaves wstate = "err", a panic  *)
(* (an expect) wstate = "panic".  The transport accepts every write.       *)
(***************************************************************************)
EXTENDS BinaryWire

CONSTANT None  \* an absent field id or map type

VARIABLES out, wstate,
  strict   \* the strict field, given to TBinaryOutputProtocol::new

outVars == <<out, wstate, strict>>

OutTypeOK == out \in Seq(Bytes) /\ wstate \in {"ok", "err", "panic"} /\ strict \in BOOLEAN

\* TBinaryOutputProtocol::new(transport, strict), for either flag.
OutInit == out = <<>> /\ wstate = "ok" /\ strict \in BOOLEAN

\* Append bytes to the transport (write_byte, write_all and the
\* byteorder writers).
Emit(bs) == out' = out \o bs /\ UNCHANGED <<wstate, strict>>

\* write_bytes: the length as a big-endian i32, then the bytes.
BytesOf(bs) == BE(Len(bs), 4) \o bs

-----------------------------------------------------------------------------
(* The operations of TOutputProtocol.                                      *)

(***************************************************************************)
(* write_message_begin: strict, the u32 0x8001_0000 | kind, then the name *)
(* and the sequence number; non-strict, the name, the kind byte and the    *)
(* sequence number.                                                        *)
(***************************************************************************)
WriteMessageBegin(name, kind, seq) ==
  Emit(IF strict THEN <<128, 1, 0, kind>> \o BytesOf(name) \o BE(seq, 4)
                 ELSE BytesOf(name) \o <<kind>> \o BE(seq, 4))

\* Calls that write nothing: message, struct, field and collection ends,
\* struct begin.
NoWrite == UNCHANGED outVars

(***************************************************************************)
(* write_field_begin: an absent id is an Unknown error unless the type is *)
(* Stop; then the type byte, and the id whenever one is given, Stop        *)
(* included.                                                               *)
(***************************************************************************)
WriteFieldBegin(ftype, fid) ==
  IF fid = None /\ ftype # "Stop"
  THEN wstate' = "err" /\ UNCHANGED <<out, strict>>
  ELSE Emit(<<TypeToU8[ftype]>> \o (IF fid = None THEN <<>> ELSE BE(fid, 2)))

WriteFieldStop == Emit(<<TypeToU8["Stop"]>>)

WriteBool(b) == Emit(<<IF b THEN 1 ELSE 0>>)
\* A variant that writes the i8 without reducing it to a byte.
WriteI8Unmasked(v) == Emit(<<v>>)
WriteI8(v)   == Emit(BE(v, 1))
WriteI16(v)  == Emit(BE(v, 2))
WriteI32(v)  == Emit(BE(v, 4))
WriteI64(v)  == Emit(BE64(v))
WriteDouble(d) == Emit(DoubleBE(d))
WriteBytes(b) == Emit(BytesOf(b))
WriteString(s) == WriteBytes(s)
\* write_uuid: the sixteen bytes, no length.
WriteUuid(u) == Emit(u)

\* write_list_begin / write_set_begin: element type byte, i32 size.
WriteListBegin(etype, n) == Emit(<<TypeToU8[etype]>> \o BE(n, 4))
WriteSetBegin(etype, n)  == Emit(<<TypeToU8[etype]>> \o BE(n, 4))

\* write_map_begin: key type byte, value type byte, i32 size; an absent
\* type panics (expect), the value's after the key byte is written.
WriteMapBegin(ktype, vtype, n) ==
  CASE ktype = None -> wstate' = "panic" /\ UNCHANGED <<out, strict>>
    [] vtype = None -> /\ wstate' = "panic" /\ UNCHANGED strict
                       /\ out' = out \o <<TypeToU8[ktype]>>
    [] OTHER        -> Emit(<<TypeToU8[ktype], TypeToU8[vtype]>> \o BE(n, 4))

\* flush: forwarded to the transport.
Flush == NoWrite

=============================================================================
