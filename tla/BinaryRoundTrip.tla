--------------------------- MODULE BinaryRoundTrip --------------------------
(***************************************************************************)
(* A TBinaryOutputProtocol and a TBinaryInputProtocol joined by one byte  *)
(* stream, each with its own strict flag.  As in CompactRoundTrip, the     *)
(* writer application makes encoder calls the way generated code does and  *)
(* flushes after each message; only flushed bytes reach the reader, which  *)
(* reads a message, its struct, and dispatches on the field headers it     *)
(* decodes.  The decoder's configuration may reject what the encoder       *)
(* wrote (recursion depth, string and container sizes, a missing version   *)
(* header); the reader stops at the first error, as generated code         *)
(* propagates it.                                                          *)
(***************************************************************************)
EXTENDS BinaryWire, Application

CONSTANTS
  WriterModes,    \* strict flags the encoder may be created with
  ReaderModes,    \* strict flags the decoder may be created with
  OverflowChecks,
  MaxRecursionDepth, MaxStringSize, MaxContainerSize, MaxMessageSize, NoLimit, None,
  Names,          \* message names, as byte sequences
  Kinds,          \* message types: 1 Call, 2 Reply, 3 Exception, 4 OneWay
  Seqs,           \* sequence numbers (i32)
  FieldIds,       \* field ids (i16) the writer uses
  FieldTypes,     \* field types: scalars, "Struct", "List", "Set", "Map"
  ValuesOf,       \* function: scalar type -> values written in fields
  ElemTypes,      \* collection element, key and value types: scalars
  ElemValuesOf,   \* function: element type -> values written in collections
  ListSizes,      \* collection sizes the writer declares (i32)
  StopIds,        \* ids given to write_field_begin(Stop, id) to end a struct
  MaxMessages,    \* messages the writer sends
  MaxFields,      \* fields per struct
  MaxNesting      \* struct nesting depth the writer reaches

ASSUME FieldIds \subseteq I16 /\ Seqs \subseteq MinI32..MaxI32
ASSUME Kinds \subseteq 1..4 /\ ListSizes \subseteq MinI32..MaxI32
ASSUME WriterModes \subseteq BOOLEAN /\ ReaderModes \subseteq BOOLEAN
ASSUME StopIds \subseteq I16 \cup {None}

VARIABLES
  wstrict, rstrict,  \* the strict fields of the encoder and the decoder
  rconfig,           \* the decoder's TConfiguration
  wstate, recursionDepth, rpos, ret, rstate, allocated,
  chan,          \* the bytes the encoder has written to its transport
  delivered,     \* the bytes flushed so far: what the reader's transport holds
  wctx, wmsgs,   \* the writer application: stack of frames, messages begun
  rctx, rmsgs,   \* the reader application: stack of frames, messages begun
  wlog, rlog     \* calls made on the encoder / values returned by the decoder

writerVars == <<wstrict, wstate, chan, delivered, wctx, wmsgs, wlog>>
readerVars == <<rstrict, rconfig, recursionDepth, rpos, ret, rstate, allocated, rctx, rmsgs, rlog>>
vars == <<writerVars, readerVars>>

WriterDone == (wmsgs = MaxMessages /\ wctx = <<>>) \/ wstate # "ok"

Out == INSTANCE BinaryOutput WITH out <- chan, strict <- wstrict
In  == INSTANCE BinaryInput WITH in <- delivered, eof <- WriterDone,
                                 strict <- rstrict, config <- rconfig

-----------------------------------------------------------------------------
(* The calls of both halves, as logged.  The binary map header always     *)
(* carries both types.                                                     *)
Calls ==
  [op : {"MessageBegin"}, name : Names, kind : Kinds, seq : Seqs]
  \cup [op : {"MessageEnd", "StructBegin", "StructEnd", "FieldEnd",
              "FieldStop", "ListEnd", "SetEnd", "MapEnd"}]
  \cup [op : {"FieldBegin"}, t : FieldTypes, id : FieldIds]
  \cup [op : {"ListBegin", "SetBegin"}, t : ElemTypes, n : ListSizes]
  \cup [op : {"MapBegin"}, kt : ElemTypes, vt : ElemTypes, n : ListSizes]
  \cup UNION {[op : {t}, v : ValuesOf[t] \cup ElemValuesOf[t]] : t \in Scalars}

CollId(c, kt, vt, n) ==
  IF c = "Map" THEN [op |-> "MapBegin", kt |-> kt, vt |-> vt, n |-> n]
  ELSE [op |-> BeginOp[c], t |-> kt, n |-> n]

-----------------------------------------------------------------------------
(* The writer application: one encoder call per step, logged and the      *)
(* frame advanced unless the call failed.                                  *)
WCall(A, c, ctx) ==
  /\ wstate = "ok"
  /\ UNCHANGED delivered
  /\ A
  /\ IF wstate' = "ok" THEN wlog' = Append(wlog, c) /\ wctx' = ctx
                       ELSE UNCHANGED <<wlog, wctx>>
  /\ UNCHANGED readerVars

WriteScalar(t, v) ==
  CASE t = "Bool"   -> Out!WriteBool(v)
    [] t = "I08"    -> Out!WriteI8(v)
    [] t = "I16"    -> Out!WriteI16(v)
    [] t = "I32"    -> Out!WriteI32(v)
    [] t = "I64"    -> Out!WriteI64(v)
    [] t = "Double" -> Out!WriteDouble(v)
    [] t = "String" -> Out!WriteString(v)
    [] t = "Uuid"   -> Out!WriteUuid(v)

WriteCollBegin(c, kt, vt, n) ==
  CASE c = "List" -> Out!WriteListBegin(kt, n)
    [] c = "Set"  -> Out!WriteSetBegin(kt, n)
    [] c = "Map"  -> Out!WriteMapBegin(kt, vt, n)

WMessageBegin ==
  /\ wctx = <<>> /\ wmsgs < MaxMessages
  /\ wmsgs' = wmsgs + 1
  /\ \E n \in Names, kd \in Kinds, s \in Seqs :
       WCall(Out!WriteMessageBegin(n, kd, s),
             [op |-> "MessageBegin", name |-> n, kind |-> kd, seq |-> s],
             <<Frame("MsgBody")>>)

WMessageEnd ==
  /\ IsTop(wctx, "MsgEnd")
  /\ WCall(Out!NoWrite, Call("MessageEnd"), SetTop(wctx, Frame("Flush")))
  /\ UNCHANGED wmsgs

WFlush ==
  /\ IsTop(wctx, "Flush") /\ wstate = "ok"
  /\ Out!Flush
  /\ delivered' = chan
  /\ wctx' = Front(wctx)
  /\ UNCHANGED <<wmsgs, wlog, readerVars>>

WStructBegin ==
  /\ \/ IsTop(wctx, "MsgBody")
     \/ IsTop(wctx, "Value") /\ Top(wctx).t = "Struct"
  /\ WCall(Out!NoWrite, Call("StructBegin"),
           SetTopPush(wctx, Frame(IF Top(wctx).k = "MsgBody" THEN "MsgEnd" ELSE "FieldEnd"),
                      [k |-> "Fields", nf |-> 0]))
  /\ UNCHANGED wmsgs

WFieldBegin ==
  /\ IsTop(wctx, "Fields") /\ Top(wctx).nf < MaxFields
  /\ \E t \in FieldTypes, id \in FieldIds :
       /\ t = "Struct" => Nesting(wlog) < MaxNesting
       /\ WCall(Out!WriteFieldBegin(t, id), [op |-> "FieldBegin", t |-> t, id |-> id],
                SetTopPush(wctx, [k |-> "Fields", nf |-> Top(wctx).nf + 1],
                           [k |-> "Value", t |-> t]))
  /\ UNCHANGED wmsgs

\* The stop field: write_field_stop, or write_field_begin with type Stop
\* and an id from StopIds.
WFieldStop ==
  /\ IsTop(wctx, "Fields")
  /\ \/ WCall(Out!WriteFieldStop, Call("FieldStop"), SetTop(wctx, Frame("StructEnd")))
     \/ \E id \in StopIds :
          WCall(Out!WriteFieldBegin("Stop", id), Call("FieldStop"),
                SetTop(wctx, Frame("StructEnd")))
  /\ UNCHANGED wmsgs

WStructEnd ==
  /\ IsTop(wctx, "StructEnd")
  /\ WCall(Out!NoWrite, Call("StructEnd"), Front(wctx))
  /\ UNCHANGED wmsgs

WFieldEnd ==
  /\ IsTop(wctx, "FieldEnd")
  /\ WCall(Out!NoWrite, Call("FieldEnd"), Front(wctx))
  /\ UNCHANGED wmsgs

WFieldValue ==
  /\ IsTop(wctx, "Value") /\ Top(wctx).t \in Scalars
  /\ \E v \in ValuesOf[Top(wctx).t] :
       WCall(WriteScalar(Top(wctx).t, v), [op |-> Top(wctx).t, v |-> v],
             SetTop(wctx, Frame("FieldEnd")))
  /\ UNCHANGED wmsgs

WCollBegin ==
  /\ IsTop(wctx, "Value") /\ Top(wctx).t \in Collections
  /\ LET c == Top(wctx).t IN
     \E kt \in ElemTypes, vt \in ElemTypes, n \in ListSizes :
       /\ c # "Map" => vt = kt
       /\ WCall(WriteCollBegin(c, kt, vt, n), CollId(c, kt, vt, n),
                SetTopPush(wctx, Frame("FieldEnd"), ElemsFrame(c, kt, vt, n)))
  /\ UNCHANGED wmsgs

WElem ==
  /\ IsTop(wctx, "Elems") /\ Top(wctx).rem > 0
  /\ \E v \in ElemValuesOf[ElemType(Top(wctx))] :
       WCall(WriteScalar(ElemType(Top(wctx)), v), [op |-> ElemType(Top(wctx)), v |-> v],
             SetTop(wctx, [Top(wctx) EXCEPT !.rem = @ - 1]))
  /\ UNCHANGED wmsgs

WCollEnd ==
  /\ IsTop(wctx, "Elems") /\ Top(wctx).rem = 0
  /\ WCall(Out!NoWrite, Call(EndOp[Top(wctx).c]), Front(wctx))
  /\ UNCHANGED wmsgs

Writer ==
  \/ WMessageBegin \/ WMessageEnd \/ WFlush \/ WStructBegin \/ WFieldBegin \/ WFieldStop
  \/ WStructEnd \/ WFieldEnd \/ WFieldValue \/ WCollBegin \/ WElem \/ WCollEnd

-----------------------------------------------------------------------------
(* The reader application: one decoder call per step; a value it returns *)
(* is logged and decides the next frame.  It stops after an error.         *)
RCall(A, Log(_), Ctx(_)) ==
  /\ ret.st = "ok"
  /\ UNCHANGED writerVars
  /\ A
  /\ IF ret'.st = "ok" /\ rstate' = "ok"
     THEN rlog' = Append(rlog, Log(ret'.val)) /\ rctx' = Ctx(ret'.val)
     ELSE UNCHANGED <<rlog, rctx>>

ReadScalar(t) ==
  CASE t = "Bool"   -> In!ReadBool
    [] t = "I08"    -> In!ReadI8
    [] t = "I16"    -> In!ReadI16
    [] t = "I32"    -> In!ReadI32
    [] t = "I64"    -> In!ReadI64
    [] t = "Double" -> In!ReadDouble
    [] t = "String" -> In!ReadString
    [] t = "Uuid"   -> In!ReadUuid

ReadCollBegin(c) ==
  CASE c = "List" -> In!ReadListBegin
    [] c = "Set"  -> In!ReadSetBegin
    [] c = "Map"  -> In!ReadMapBegin

ReadId(c, v) ==
  IF c = "Map" THEN CollId(c, v.kt, v.vt, v.n) ELSE CollId(c, v.et, v.et, v.n)
KeyType(c, v) == IF c = "Map" THEN v.kt ELSE v.et
ValType(c, v) == IF c = "Map" THEN v.vt ELSE v.et

RMessageBegin ==
  /\ rctx = <<>> /\ rmsgs < MaxMessages
  /\ rmsgs' = rmsgs + 1
  /\ RCall(In!ReadMessageBegin,
           LAMBDA v : [op |-> "MessageBegin", name |-> v.name, kind |-> v.kind, seq |-> v.seq],
           LAMBDA v : <<Frame("MsgBody")>>)

RMessageEnd ==
  /\ IsTop(rctx, "MsgEnd")
  /\ RCall(In!NoRead, LAMBDA v : Call("MessageEnd"), LAMBDA v : Front(rctx))
  /\ UNCHANGED rmsgs

RStructBegin ==
  /\ \/ IsTop(rctx, "MsgBody")
     \/ IsTop(rctx, "Value") /\ Top(rctx).t = "Struct"
  /\ RCall(In!ReadStructBegin, LAMBDA v : Call("StructBegin"),
           LAMBDA v : SetTopPush(rctx, Frame(IF Top(rctx).k = "MsgBody" THEN "MsgEnd" ELSE "FieldEnd"),
                                 [k |-> "Fields", nf |-> 0]))
  /\ UNCHANGED rmsgs

RFieldBegin ==
  /\ IsTop(rctx, "Fields")
  /\ RCall(In!ReadFieldBegin,
           LAMBDA v : IF v.t = "Stop" THEN Call("FieldStop")
                      ELSE [op |-> "FieldBegin", t |-> v.t, id |-> v.id],
           LAMBDA v : IF v.t = "Stop" THEN SetTop(rctx, Frame("StructEnd"))
                      ELSE SetTopPush(rctx, [k |-> "Fields", nf |-> Top(rctx).nf + 1],
                                      [k |-> "Value", t |-> v.t]))
  /\ UNCHANGED rmsgs

RStructEnd ==
  /\ IsTop(rctx, "StructEnd")
  /\ RCall(In!ReadStructEnd, LAMBDA v : Call("StructEnd"), LAMBDA v : Front(rctx))
  /\ UNCHANGED rmsgs

RFieldEnd ==
  /\ IsTop(rctx, "FieldEnd")
  /\ RCall(In!NoRead, LAMBDA v : Call("FieldEnd"), LAMBDA v : Front(rctx))
  /\ UNCHANGED rmsgs

RFieldValue ==
  /\ IsTop(rctx, "Value") /\ Top(rctx).t \in Scalars
  /\ RCall(ReadScalar(Top(rctx).t), LAMBDA v : [op |-> Top(rctx).t, v |-> v],
           LAMBDA v : SetTop(rctx, Frame("FieldEnd")))
  /\ UNCHANGED rmsgs

RCollBegin ==
  /\ IsTop(rctx, "Value") /\ Top(rctx).t \in Collections
  /\ LET c == Top(rctx).t IN
     RCall(ReadCollBegin(c), LAMBDA v : ReadId(c, v),
           LAMBDA v : SetTopPush(rctx, Frame("FieldEnd"),
                                 ElemsFrame(c, KeyType(c, v), ValType(c, v), v.n)))
  /\ UNCHANGED rmsgs

RElem ==
  /\ IsTop(rctx, "Elems") /\ Top(rctx).rem > 0 /\ ElemType(Top(rctx)) \in Scalars
  /\ RCall(ReadScalar(ElemType(Top(rctx))), LAMBDA v : [op |-> ElemType(Top(rctx)), v |-> v],
           LAMBDA v : SetTop(rctx, [Top(rctx) EXCEPT !.rem = @ - 1]))
  /\ UNCHANGED rmsgs

RCollEnd ==
  /\ IsTop(rctx, "Elems") /\ Top(rctx).rem = 0
  /\ RCall(In!NoRead, LAMBDA v : Call(EndOp[Top(rctx).c]), LAMBDA v : Front(rctx))
  /\ UNCHANGED rmsgs

Reader ==
  \/ RMessageBegin \/ RMessageEnd \/ RStructBegin \/ RFieldBegin \/ RStructEnd
  \/ RFieldEnd \/ RFieldValue \/ RCollBegin \/ RElem \/ RCollEnd

-----------------------------------------------------------------------------
ReaderStopped == ret.st = "err" \/ rstate = "panic"

\* Both applications are finished: the system stops here.
Terminated ==
  /\ WriterDone
  /\ (rctx = <<>> /\ rmsgs = MaxMessages) \/ ReaderStopped
  /\ UNCHANGED vars

Init ==
  /\ Out!OutInit /\ wstrict \in WriterModes
  /\ In!InInit /\ rstrict \in ReaderModes
  /\ rconfig = [depth |-> MaxRecursionDepth, str |-> MaxStringSize, cont |-> MaxContainerSize,
                msg |-> MaxMessageSize]
  /\ wctx = <<>> /\ wmsgs = 0 /\ wlog = <<>> /\ delivered = <<>>
  /\ rctx = <<>> /\ rmsgs = 0 /\ rlog = <<>>

Next == Writer \/ Reader \/ Terminated

\* The application keeps calling the encoder until its messages are written,
\* and the server keeps reading while the connection delivers bytes.
Spec == Init /\ [][Next]_vars /\ WF_vars(Writer) /\ WF_vars(Reader)

-----------------------------------------------------------------------------
(* Properties.                                                             *)

TypeOK ==
  /\ Out!OutTypeOK
  /\ recursionDepth \in Nat /\ allocated \in Nat
  /\ IsPrefix(delivered, chan) /\ rpos \in 0..Len(delivered)
  /\ ret.st \in {"ok", "err"} /\ rstate \in {"ok", "panic"}
  /\ wlog \in Seq(Calls)
  /\ wmsgs \in 0..MaxMessages /\ rmsgs \in 0..MaxMessages

(***************************************************************************)
(* Round trip (spec.md section 8): every value the decoder returns is the *)
(* encoder call at the same position, whatever the two strict flags.  The  *)
(* refinement of TokenStream with wlog sent and rlog received.             *)
(***************************************************************************)
Stream == INSTANCE TokenStream WITH sent <- wlog, received <- rlog
RoundTrip == Stream!Spec

\* The least serialized size of an item of the collection begun by c.
ElemSize(c) ==
  IF c.op = "MapBegin" THEN In!MinSerializedSize(c.kt) + In!MinSerializedSize(c.vt)
  ELSE In!MinSerializedSize(c.t)

(***************************************************************************)
(* The error kind k is what the reader's configuration says of the i-th   *)
(* call the writer made: a struct nested beyond max_recursion_depth, a     *)
(* string (or a strict envelope's name) longer than max_string_size, a     *)
(* declared size that is negative, above max_container_size or whose     *)
(* items' least size exceeds max_message_size, or a non-strict envelope   *)
(* arriving at a strict decoder.                                          *)
(***************************************************************************)
JustifiedAt(i, k) ==
  LET c == wlog[i]
      Over(cap, n) == In!Limited(cap) /\ n > cap
  IN  CASE k = "DepthLimit" ->
             c.op = "StructBegin"
             /\ Over(MaxRecursionDepth, Nesting(SubSeq(wlog, 1, i)))
        [] k = "SizeLimit" ->
             \/ c.op = "String" /\ Over(MaxStringSize, Len(c.v))
             \/ c.op = "MessageBegin" /\ wstrict /\ Over(MaxStringSize, Len(c.name))
             \/ c.op \in {"ListBegin", "SetBegin", "MapBegin"} /\ Over(MaxContainerSize, c.n)
             \/ c.op \in {"ListBegin", "SetBegin", "MapBegin"} /\ Over(MaxMessageSize, c.n * ElemSize(c))
        [] k = "NegativeSize" ->
             c.op \in {"ListBegin", "SetBegin", "MapBegin"} /\ c.n < 0
        [] k = "BadVersion" ->
             c.op = "MessageBegin" /\ ~wstrict /\ rstrict
        [] OTHER -> FALSE

LimitKinds == {"DepthLimit", "SizeLimit", "NegativeSize", "BadVersion"}

\* The error at the reader is justified at the call it was reading.
Justified(k) == Len(rlog) < Len(wlog) /\ JustifiedAt(Len(rlog) + 1, k)

ReaderRejected == ret.st = "err" /\ Justified(ret.kind)

(***************************************************************************)
(* The decoder rejects exactly what its configuration forbids: it never   *)
(* panics, it fails on what the encoder wrote only at a call that breaks   *)
(* a limit, and it never returns such a call.  Across two messages on one  *)
(* protocol object this is what keeps recursion_depth (the decoder's only *)
(* state) balanced, and what makes the strict flag and the limits of       *)
(* TConfiguration take effect.                                             *)
(***************************************************************************)
DecoderRejectsExactlyOverLimits ==
  /\ rstate = "ok"
  /\ ret.st = "err" => Justified(ret.kind)
  /\ \A i \in 1..Len(rlog) : \A k \in LimitKinds : ~JustifiedAt(i, k)

(***************************************************************************)
(* spec.md section 5: no buffer whose size is read off the wire is        *)
(* allocated before max_string_size has validated that size.               *)
(***************************************************************************)
AllocationChecked == In!Limited(MaxStringSize) => allocated <= MaxStringSize

(***************************************************************************)
(* Liveness: the reader eventually returns every call the writer made, or *)
(* stops where its configuration rejects what was written.  A decoder that *)
(* loses alignment blocks on bytes that never come, or fails elsewhere.    *)
(***************************************************************************)
AllDelivered == <>(WriterDone /\ (rlog = wlog \/ ReaderRejected))

=============================================================================
