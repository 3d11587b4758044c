--------------------------- MODULE CompactRoundTrip --------------------------
(***************************************************************************)
(* A TCompactOutputProtocol and a TCompactInputProtocol joined by one     *)
(* byte stream chan: the writer's transport appends to it, the reader's    *)
(* reads it.  Each side is driven the way generated code drives a          *)
(* protocol.  The writer serialises messages whose argument struct has     *)
(* fields of the types FieldTypes (nested structs and lists included); the *)
(* reader reads a message, a struct, and then dispatches on the field      *)
(* headers it decodes, like TInputProtocol::skip.  Both sides log their     *)
(* calls: wlog the encoder calls, rlog the values the decoder returned.    *)
(* Like a generated client, the writer flushes after each message, and    *)
(* only flushed bytes reach the reader.  Reader and writer steps           *)
(* interleave: the reader blocks on bytes not yet flushed, and sees end of *)
(* stream once the writer is finished or has panicked.                     *)
(***************************************************************************)
EXTENDS CompactWire, Application

CONSTANTS
  OverflowChecks, MaxRecursionDepth, MaxStringSize, MaxContainerSize,
  MaxMessageSize, NoLimit, None,
  Names,          \* message names, as byte sequences
  Kinds,          \* message types: 1 Call, 2 Reply, 3 Exception, 4 OneWay
  Seqs,           \* sequence numbers (i32)
  FieldIds,       \* field ids (i16) the writer uses
  FieldTypes,     \* field types: scalars, "Struct", "List", "Set", "Map"
  ValuesOf,       \* function: scalar type -> values written in fields
  ElemTypes,      \* collection element, key and value types: scalars
  ElemValuesOf,   \* function: element type -> values written in collections
  ListSizes,      \* collection sizes the writer uses
  MaxMessages,    \* messages the writer sends
  MaxFields,      \* fields per struct
  MaxNesting      \* struct nesting depth the writer reaches

ASSUME FieldIds \subseteq I16 /\ Seqs \subseteq MinI32..MaxI32
ASSUME Kinds \subseteq 1..4 /\ ListSizes \subseteq MinI32..MaxI32

VARIABLES
  lastWriteFieldId, writeFieldIdStack, pendingWriteBool, wstate,
  lastReadFieldId, readFieldIdStack, pendingReadBool, recursionDepth,
  rpos, ret, rstate, allocated,
  rconfig,       \* the decoder's TConfiguration
  chan,          \* the bytes the encoder has written to its transport
  delivered,     \* the bytes flushed so far: what the reader's transport holds
  wctx, wmsgs,   \* the writer application: stack of frames, messages begun
  rctx, rmsgs,   \* the reader application: stack of frames, messages begun
  wlog, rlog     \* calls made on the encoder / values returned by the decoder

writerVars == <<lastWriteFieldId, writeFieldIdStack, pendingWriteBool, wstate,
                chan, delivered, wctx, wmsgs, wlog>>
readerVars == <<rconfig, lastReadFieldId, readFieldIdStack, pendingReadBool,
                recursionDepth, rpos, ret, rstate, allocated, rctx, rmsgs, rlog>>
vars == <<writerVars, readerVars>>

WriterDone == (wmsgs = MaxMessages /\ wctx = <<>>) \/ wstate = "panic"

Out == INSTANCE CompactOutput WITH out <- chan
In  == INSTANCE CompactInput WITH in <- delivered, eof <- WriterDone, config <- rconfig

-----------------------------------------------------------------------------
(* The calls of both halves, as logged.                                    *)
Calls ==
  [op : {"MessageBegin"}, name : Names, kind : Kinds, seq : Seqs]
  \cup [op : {"MessageEnd", "StructBegin", "StructEnd", "FieldEnd",
              "FieldStop", "ListEnd", "SetEnd", "MapEnd"}]
  \cup [op : {"FieldBegin"}, t : FieldTypes, id : FieldIds]
  \cup [op : {"ListBegin", "SetBegin"}, t : ElemTypes, n : ListSizes]
  \cup [op : {"MapBegin"}, kt : ElemTypes \cup {None}, vt : ElemTypes \cup {None},
        n : ListSizes]
  \cup UNION {[op : {t}, v : ValuesOf[t] \cup ElemValuesOf[t]] : t \in Scalars}

-----------------------------------------------------------------------------
(***************************************************************************)
(* The writer application.  Each step is one encoder call; the call is    *)
(* logged and the frame advanced unless the encoder panicked.              *)
(***************************************************************************)
WCall(A, c, ctx) ==
  /\ wstate = "ok"
  /\ UNCHANGED delivered
  /\ A
  /\ IF wstate' = "ok" THEN wlog' = Append(wlog, c) /\ wctx' = ctx
                       ELSE UNCHANGED <<wlog, wctx>>
  /\ UNCHANGED readerVars

WriteScalar(t, v) ==
  CASE t = "Bool"   -> Out!WriteBool(v)
    [] t = "I08"     -> Out!WriteI8(v)
    [] t = "I16"    -> Out!WriteI16(v)
    [] t = "I32"    -> Out!WriteI32(v)
    [] t = "I64"    -> Out!WriteI64(v)
    [] t = "Double" -> Out!WriteDouble(v)
    [] t = "String" -> Out!WriteString(v)
    [] t = "Uuid"   -> Out!WriteUuid(v)

WriteCollBegin(c, kt, vt, n) ==
  CASE c = "List" -> Out!WriteListBegin(kt, n)
    [] c = "Set"  -> Out!WriteSetBegin(kt, n)
    [] c = "Map"  -> Out!WriteMapBegin(kt, vt, n)

WriteCollEnd(c) ==
  CASE c = "List" -> Out!WriteListEnd
    [] c = "Set"  -> Out!WriteSetEnd
    [] c = "Map"  -> Out!WriteMapEnd

\* The identifier as logged.  The compact wire has no types for an empty
\* map (one 0x00 byte), and read_map_begin returns None for both.
CollId(c, kt, vt, n) ==
  IF c = "Map"
  THEN [op |-> "MapBegin", kt |-> IF n = 0 THEN None ELSE kt,
        vt |-> IF n = 0 THEN None ELSE vt, n |-> n]
  ELSE [op |-> BeginOp[c], t |-> kt, n |-> n]

WMessageBegin ==
  /\ wctx = <<>> /\ wmsgs < MaxMessages
  /\ wmsgs' = wmsgs + 1
  /\ \E n \in Names, kd \in Kinds, s \in Seqs :
       WCall(Out!WriteMessageBegin(n, kd, s),
             [op |-> "MessageBegin", name |-> n, kind |-> kd, seq |-> s],
             <<Frame("MsgBody")>>)

WMessageEnd ==
  /\ IsTop(wctx, "MsgEnd")
  /\ WCall(Out!WriteMessageEnd, Call("MessageEnd"), SetTop(wctx, Frame("Flush")))
  /\ UNCHANGED wmsgs

\* The client flushes the transport after each message: the bytes reach
\* the reader.
WFlush ==
  /\ IsTop(wctx, "Flush") /\ wstate = "ok"
  /\ Out!Flush
  /\ delivered' = chan
  /\ wctx' = Front(wctx)
  /\ UNCHANGED <<wmsgs, wlog, readerVars>>

\* The argument struct of a message, or a struct-valued field.
WStructBegin ==
  /\ \/ IsTop(wctx, "MsgBody")
     \/ IsTop(wctx, "Value") /\ Top(wctx).t = "Struct"
  /\ WCall(Out!WriteStructBegin, Call("StructBegin"),
           SetTopPush(wctx, Frame(IF Top(wctx).k = "MsgBody" THEN "MsgEnd" ELSE "FieldEnd"),
                      [k |-> "Fields", nf |-> 0]))
  /\ UNCHANGED wmsgs

WFieldBegin ==
  /\ IsTop(wctx, "Fields") /\ Top(wctx).nf < MaxFields
  /\ \E t \in FieldTypes, id \in FieldIds :
       /\ t = "Struct" => Len(writeFieldIdStack) < MaxNesting
       /\ WCall(Out!WriteFieldBegin(t, id), [op |-> "FieldBegin", t |-> t, id |-> id],
                SetTopPush(wctx, [k |-> "Fields", nf |-> Top(wctx).nf + 1],
                           [k |-> "Value", t |-> t]))
  /\ UNCHANGED wmsgs

WFieldStop ==
  /\ IsTop(wctx, "Fields")
  /\ WCall(Out!WriteFieldStop, Call("FieldStop"), SetTop(wctx, Frame("StructEnd")))
  /\ UNCHANGED wmsgs

WStructEnd ==
  /\ IsTop(wctx, "StructEnd")
  /\ WCall(Out!WriteStructEnd, Call("StructEnd"), Front(wctx))
  /\ UNCHANGED wmsgs

WFieldEnd ==
  /\ IsTop(wctx, "FieldEnd")
  /\ WCall(Out!WriteFieldEnd, Call("FieldEnd"), Front(wctx))
  /\ UNCHANGED wmsgs

WFieldValue ==
  /\ IsTop(wctx, "Value") /\ Top(wctx).t \in Scalars
  /\ \E v \in ValuesOf[Top(wctx).t] :
       WCall(WriteScalar(Top(wctx).t, v), [op |-> Top(wctx).t, v |-> v],
             SetTop(wctx, Frame("FieldEnd")))
  /\ UNCHANGED wmsgs

WCollBegin ==
  /\ IsTop(wctx, "Value") /\ Top(wctx).t \in Collections
  /\ LET c == Top(wctx).t IN
     \E kt \in ElemTypes, vt \in ElemTypes, n \in ListSizes :
       /\ c # "Map" => vt = kt
       /\ WCall(WriteCollBegin(c, kt, vt, n), CollId(c, kt, vt, n),
                SetTopPush(wctx, Frame("FieldEnd"), ElemsFrame(c, kt, vt, n)))
  /\ UNCHANGED wmsgs

WElem ==
  /\ IsTop(wctx, "Elems") /\ Top(wctx).rem > 0
  /\ \E v \in ElemValuesOf[ElemType(Top(wctx))] :
       WCall(WriteScalar(ElemType(Top(wctx)), v), [op |-> ElemType(Top(wctx)), v |-> v],
             SetTop(wctx, [Top(wctx) EXCEPT !.rem = @ - 1]))
  /\ UNCHANGED wmsgs

WCollEnd ==
  /\ IsTop(wctx, "Elems") /\ Top(wctx).rem = 0
  /\ WCall(WriteCollEnd(Top(wctx).c), Call(EndOp[Top(wctx).c]), Front(wctx))
  /\ UNCHANGED wmsgs

Writer ==
  \/ WMessageBegin \/ WMessageEnd \/ WFlush \/ WStructBegin \/ WFieldBegin \/ WFieldStop
  \/ WStructEnd \/ WFieldEnd \/ WFieldValue \/ WCollBegin \/ WElem \/ WCollEnd

-----------------------------------------------------------------------------
(***************************************************************************)
(* The reader application.  Each step is one decoder call; a value it    *)
(* returns is logged and decides the next frame.  After an error or a    *)
(* panic the reader stops, as generated code propagates the error.         *)
(***************************************************************************)
RCall(A, Log(_), Ctx(_)) ==
  /\ ret.st = "ok"
  /\ UNCHANGED writerVars
  /\ A
  /\ IF ret'.st = "ok" /\ rstate' = "ok"
     THEN rlog' = Append(rlog, Log(ret'.val)) /\ rctx' = Ctx(ret'.val)
     ELSE UNCHANGED <<rlog, rctx>>

ReadScalar(t) ==
  CASE t = "Bool"   -> In!ReadBool
    [] t = "I08"     -> In!ReadI8
    [] t = "I16"    -> In!ReadI16
    [] t = "I32"    -> In!ReadI32
    [] t = "I64"    -> In!ReadI64
    [] t = "Double" -> In!ReadDouble
    [] t = "String" -> In!ReadString
    [] t = "Uuid"   -> In!ReadUuid

ReadCollBegin(c) ==
  CASE c = "List" -> In!ReadListBegin
    [] c = "Set"  -> In!ReadSetBegin
    [] c = "Map"  -> In!ReadMapBegin

ReadCollEnd(c) ==
  CASE c = "List" -> In!ReadListEnd
    [] c = "Set"  -> In!ReadSetEnd
    [] c = "Map"  -> In!ReadMapEnd

\* The identifier read, as logged, and the types of its items.
ReadId(c, v) ==
  IF c = "Map" THEN [op |-> "MapBegin", kt |-> v.kt, vt |-> v.vt, n |-> v.n]
  ELSE [op |-> BeginOp[c], t |-> v.et, n |-> v.n]
KeyType(c, v) == IF c = "Map" THEN v.kt ELSE v.et
ValType(c, v) == IF c = "Map" THEN v.vt ELSE v.et

RMessageBegin ==
  /\ rctx = <<>> /\ rmsgs < MaxMessages
  /\ rmsgs' = rmsgs + 1
  /\ RCall(In!ReadMessageBegin,
           LAMBDA v : [op |-> "MessageBegin", name |-> v.name, kind |-> v.kind, seq |-> v.seq],
           LAMBDA v : <<Frame("MsgBody")>>)

RMessageEnd ==
  /\ IsTop(rctx, "MsgEnd")
  /\ RCall(In!ReadMessageEnd, LAMBDA v : Call("MessageEnd"), LAMBDA v : Front(rctx))
  /\ UNCHANGED rmsgs

RStructBegin ==
  /\ \/ IsTop(rctx, "MsgBody")
     \/ IsTop(rctx, "Value") /\ Top(rctx).t = "Struct"
  /\ RCall(In!ReadStructBegin, LAMBDA v : Call("StructBegin"),
           LAMBDA v : SetTopPush(rctx, Frame(IF Top(rctx).k = "MsgBody" THEN "MsgEnd" ELSE "FieldEnd"),
                                 [k |-> "Fields", nf |-> 0]))
  /\ UNCHANGED rmsgs

\* A Stop header ends the struct's fields; any other header opens a value.
RFieldBegin ==
  /\ IsTop(rctx, "Fields")
  /\ RCall(In!ReadFieldBegin,
           LAMBDA v : IF v.t = "Stop" THEN Call("FieldStop")
                      ELSE [op |-> "FieldBegin", t |-> v.t, id |-> v.id],
           LAMBDA v : IF v.t = "Stop" THEN SetTop(rctx, Frame("StructEnd"))
                      ELSE SetTopPush(rctx, [k |-> "Fields", nf |-> Top(rctx).nf + 1],
                                      [k |-> "Value", t |-> v.t]))
  /\ UNCHANGED rmsgs

RStructEnd ==
  /\ IsTop(rctx, "StructEnd")
  /\ RCall(In!ReadStructEnd, LAMBDA v : Call("StructEnd"), LAMBDA v : Front(rctx))
  /\ UNCHANGED rmsgs

RFieldEnd ==
  /\ IsTop(rctx, "FieldEnd")
  /\ RCall(In!ReadFieldEnd, LAMBDA v : Call("FieldEnd"), LAMBDA v : Front(rctx))
  /\ UNCHANGED rmsgs

RFieldValue ==
  /\ IsTop(rctx, "Value") /\ Top(rctx).t \in Scalars
  /\ RCall(ReadScalar(Top(rctx).t), LAMBDA v : [op |-> Top(rctx).t, v |-> v],
           LAMBDA v : SetTop(rctx, Frame("FieldEnd")))
  /\ UNCHANGED rmsgs

RCollBegin ==
  /\ IsTop(rctx, "Value") /\ Top(rctx).t \in Collections
  /\ LET c == Top(rctx).t IN
     RCall(ReadCollBegin(c), LAMBDA v : ReadId(c, v),
           LAMBDA v : SetTopPush(rctx, Frame("FieldEnd"),
                                 ElemsFrame(c, KeyType(c, v), ValType(c, v), v.n)))
  /\ UNCHANGED rmsgs

RElem ==
  /\ IsTop(rctx, "Elems") /\ Top(rctx).rem > 0 /\ ElemType(Top(rctx)) \in Scalars
  /\ RCall(ReadScalar(ElemType(Top(rctx))), LAMBDA v : [op |-> ElemType(Top(rctx)), v |-> v],
           LAMBDA v : SetTop(rctx, [Top(rctx) EXCEPT !.rem = @ - 1]))
  /\ UNCHANGED rmsgs

RCollEnd ==
  /\ IsTop(rctx, "Elems") /\ Top(rctx).rem = 0
  /\ RCall(ReadCollEnd(Top(rctx).c), LAMBDA v : Call(EndOp[Top(rctx).c]), LAMBDA v : Front(rctx))
  /\ UNCHANGED rmsgs

Reader ==
  \/ RMessageBegin \/ RMessageEnd \/ RStructBegin \/ RFieldBegin \/ RStructEnd
  \/ RFieldEnd \/ RFieldValue \/ RCollBegin \/ RElem \/ RCollEnd

-----------------------------------------------------------------------------
ReaderFailed == ret.st = "err" \/ rstate = "panic"

\* Both applications are finished: the system stops here.
Terminated ==
  /\ WriterDone
  /\ (rctx = <<>> /\ rmsgs = MaxMessages) \/ ReaderFailed
  /\ UNCHANGED vars

Init ==
  /\ Out!OutInit
  /\ In!InInit
  /\ rconfig = [depth |-> MaxRecursionDepth, str |-> MaxStringSize, cont |-> MaxContainerSize,
                msg |-> MaxMessageSize]
  /\ wctx = <<>> /\ wmsgs = 0 /\ wlog = <<>> /\ delivered = <<>>
  /\ rctx = <<>> /\ rmsgs = 0 /\ rlog = <<>>

Next == Writer \/ Reader \/ Terminated

\* The application keeps calling the encoder until its messages are written,
\* and the server keeps reading while the connection delivers bytes.
Spec == Init /\ [][Next]_vars /\ WF_vars(Writer) /\ WF_vars(Reader)

-----------------------------------------------------------------------------
(* Properties.                                                             *)

TypeOK ==
  /\ Out!OutTypeOK
  /\ lastReadFieldId \in I16 /\ readFieldIdStack \in Seq(I16)
  /\ pendingReadBool \in BOOLEAN \cup {None}
  /\ recursionDepth \in Nat /\ allocated \in Nat /\ IsPrefix(delivered, chan) /\ rpos \in 0..Len(delivered)
  /\ ret.st \in {"ok", "err"} /\ rstate \in {"ok", "panic"}
  /\ wlog \in Seq(Calls) /\ \A i \in DOMAIN rlog : rlog[i].op \in {c.op : c \in Calls}
  /\ wmsgs \in 0..MaxMessages /\ rmsgs \in 0..MaxMessages

(***************************************************************************)
(* Round trip (spec.md section 8): every value the decoder returns is the *)
(* encoder call at the same position of the call sequence.  Stated as the  *)
(* refinement of TokenStream: wlog is what was sent, rlog what was         *)
(* received.  It fails if any encoding of write_field_header, the field-id *)
(* stack, the pending-bool field, the list header or a varint is not       *)
(* undone by the decoder.                                                  *)
(***************************************************************************)
Stream == INSTANCE TokenStream WITH sent <- wlog, received <- rlog
RoundTrip == Stream!Spec

\* The least serialized size of an item of the collection begun by c.
ElemSize(c) ==
  IF c.op = "MapBegin" THEN In!MinSerializedSize(c.kt) + In!MinSerializedSize(c.vt)
  ELSE In!MinSerializedSize(c.t)

(***************************************************************************)
(* The error kind k is what the reader's configuration says of the i-th   *)
(* call the writer made: a struct nested beyond max_recursion_depth, a     *)
(* string, Uuid or message name longer than max_string_size (all three    *)
(* are read by read_bytes), a declared size above max_container_size or  *)
(* whose items' least size exceeds max_message_size, or a negative map    *)
(* size (its raw varint reads back as a negative i32).                    *)
(***************************************************************************)
JustifiedAt(i, k) ==
  LET c == wlog[i]
      Over(cap, n) == In!Limited(cap) /\ n > cap
  IN  CASE k = "DepthLimit" ->
             c.op = "StructBegin"
             /\ Over(MaxRecursionDepth, Nesting(SubSeq(wlog, 1, i)))
        [] k = "SizeLimit" ->
             \/ c.op \in {"String", "Uuid"} /\ Over(MaxStringSize, Len(c.v))
             \/ c.op = "MessageBegin" /\ Over(MaxStringSize, Len(c.name))
             \/ c.op \in {"ListBegin", "SetBegin", "MapBegin"} /\ Over(MaxContainerSize, c.n)
             \/ c.op \in {"ListBegin", "SetBegin", "MapBegin"} /\ Over(MaxMessageSize, c.n * ElemSize(c))
        [] k = "NegativeSize" -> c.op = "MapBegin" /\ c.n < 0
        [] OTHER -> FALSE

LimitKinds == {"DepthLimit", "SizeLimit", "NegativeSize"}

\* The error at the reader is justified at the call it was reading.
Justified(k) == Len(rlog) < Len(wlog) /\ JustifiedAt(Len(rlog) + 1, k)

ReaderRejected == ret.st = "err" /\ Justified(ret.kind)

(***************************************************************************)
(* The decoder rejects exactly what its TConfiguration forbids: it never  *)
(* panics, it fails on what the encoder wrote only at a call that breaks   *)
(* a limit, and it never returns such a call.  With the depth carried      *)
(* across messages and each limit compared before the state changes        *)
(* (check_recursion_depth before the increment, max_string_size before the *)
(* buffer, check_container_size after the count), an off-by-one or a       *)
(* missed decrement shows here.                                            *)
(***************************************************************************)
DecoderRejectsExactlyOverLimits ==
  /\ rstate = "ok"
  /\ ret.st = "err" => Justified(ret.kind)
  /\ \A i \in 1..Len(rlog) : \A k \in LimitKinds : ~JustifiedAt(i, k)

(***************************************************************************)
(* read_bytes checks a length read off the wire against max_string_size   *)
(* before it allocates the buffer: no buffer larger than the limit is ever *)
(* allocated, whatever length a string, Uuid or message name declares.    *)
(***************************************************************************)
AllocationChecked == In!Limited(MaxStringSize) => allocated <= MaxStringSize

(***************************************************************************)
(* Whenever the decoder has returned every call the encoder made, the two *)
(* halves agree on the field-id state: same saved-id stack, same last id,  *)
(* a recursion depth equal to the stack height, and no pending Bool on     *)
(* either side.  Read after write_struct_end / read_struct_end and across  *)
(* messages, this is what keeps later deltas aligned.                      *)
(***************************************************************************)
DecoderMirrorsEncoder ==
  (rlog = wlog /\ rstate = "ok" /\ ret.st = "ok") =>
    /\ readFieldIdStack = writeFieldIdStack
    /\ lastReadFieldId = lastWriteFieldId
    /\ recursionDepth = Len(readFieldIdStack)
    /\ pendingReadBool = None /\ pendingWriteBool = None

(***************************************************************************)
(* spec.md section 3: pending_read_bool_value is set precisely when the   *)
(* last read_field_begin returned a Bool field, until the next read_bool.  *)
(***************************************************************************)
PendingBoolIffBoolHeader ==
  rstate = "ok" /\ ret.st = "ok" =>
    (pendingReadBool # None <=>
       rlog # <<>> /\ Last(rlog).op = "FieldBegin" /\ Last(rlog).t = "Bool")

(***************************************************************************)
(* Liveness: the reader eventually returns every call the writer made, or *)
(* stops at the first call that breaks a limit of its configuration.  A    *)
(* decoder that loses alignment blocks on bytes that never come or fails.  *)
(***************************************************************************)
AllDelivered == <>(WriterDone /\ (rlog = wlog \/ ReaderRejected))

-----------------------------------------------------------------------------
(* What spec.md says of the wire and of failures, checked against the    *)
(* code by the violation runs.                                             *)

\* spec.md 4.4: a non-Bool field whose delta is in 1..15 takes the
\* one-byte short form.
ShortFormPerSpec ==
  [][ /\ Len(wlog') = Len(wlog) + 1
      /\ Last(wlog').op = "FieldBegin" /\ Last(wlog').t # "Bool"
      /\ Last(wlog').id - lastWriteFieldId \in 1..15
      => Len(chan') = Len(chan) + 1 ]_vars

\* spec.md 4.4: a compact Uuid is 16 raw bytes, with no length prefix.
UuidIsSixteenRawBytes ==
  [][ Len(wlog') = Len(wlog) + 1 /\ Last(wlog').op = "Uuid"
      => chan' = chan \o Last(wlog').v ]_vars

\* spec.md 3 and 7: field ids are any i16, and the encoder fails fatally
\* only on a misuse of the pending Bool or the struct stack.
EncoderNeverPanics == wstate = "ok"

=============================================================================
