---------------------------- MODULE CompactForged ----------------------------
(***************************************************************************)
(* The compact decoder on bytes no encoder wrote.  A server reads a call  *)
(* the way generated code does (the reader application of                 *)
(* CompactRoundTrip: message header, argument struct, dispatch on each     *)
(* field header) from a stream that a peer forged: a valid message header  *)
(* followed by up to MaxFragments fragments, each a field or a piece of   *)
(* one.  The whole stream has arrived (eof), so every call either returns  *)
(* or fails; the writer half of CompactRoundTrip is fixed at "finished".    *)
(***************************************************************************)
EXTENDS CompactWire, Application

CONSTANTS OverflowChecks, MaxRecursionDepth, NoLimit, None,
  Fragments,      \* byte sequences a forged body is made of
  MaxFragments    \* fragments per forged body

VARIABLES
  lastReadFieldId, readFieldIdStack, pendingReadBool, recursionDepth,
  rpos, ret, rstate, allocated, rconfig, rctx, rmsgs, rlog,
  forged,        \* the bytes the server's transport holds
  pendingWriteBool  \* the finished writer's pending Bool: None

vars == <<lastReadFieldId, readFieldIdStack, pendingReadBool, recursionDepth,
          rpos, ret, rstate, allocated, rconfig, rctx, rmsgs, rlog, forged, pendingWriteBool>>

\* A Call message (0x82, version 1 | kind 1 << 5, sequence 1, empty name).
ForgedHeader == <<130, 33, 1, 0>>

\* The concatenations of at most MaxFragments fragments.
RECURSIVE Bodies(_)
Bodies(k) ==
  IF k = 0 THEN {<<>>}
  ELSE Bodies(k - 1) \cup {b \o f : b \in Bodies(k - 1), f \in Fragments}

\* The streams the server may be sent.
ForgedStreams == {ForgedHeader \o b : b \in Bodies(MaxFragments)}

Server == INSTANCE CompactRoundTrip
  WITH MaxStringSize <- NoLimit, MaxContainerSize <- NoLimit, MaxMessageSize <- NoLimit,
       Names <- {<<>>}, Kinds <- {1}, Seqs <- {1}, FieldIds <- {}, FieldTypes <- {},
       ValuesOf <- <<>>, ElemTypes <- {}, ElemValuesOf <- <<>>, ListSizes <- {},
       MaxMessages <- 1, MaxFields <- 0, MaxNesting <- 0,
       lastWriteFieldId <- 0, writeFieldIdStack <- <<>>, wstate <- "ok", wctx <- <<>>,
       wmsgs <- 1, wlog <- <<>>, chan <- forged, delivered <- forged

\* The server's decoder before its first call.
ServerInit ==
  /\ Server!In!InInit /\ pendingWriteBool = None
  /\ rconfig = [depth |-> MaxRecursionDepth, str |-> NoLimit, cont |-> NoLimit, msg |-> NoLimit]
  /\ rctx = <<>> /\ rmsgs = 0 /\ rlog = <<>>

Init == forged \in ForgedStreams /\ ServerInit

\* Each step is a call of the server on the decoder, or the end of the run.
Next == Server!Reader \/ Server!Terminated

\* The server keeps calling the decoder while it has a frame to read.
Spec == Init /\ [][Next]_vars /\ WF_vars(Server!Reader)

-----------------------------------------------------------------------------
(***************************************************************************)
(* The field ids as the stream defines them, from what the decoder        *)
(* returned: a struct's ids start at 0, each field header sets the id, and *)
(* a nested struct's end returns to the id of the field that held it.     *)
(* LoggedIds folds rlog into the stack of these ids, one per open struct.  *)
(***************************************************************************)
LoggedStep(stack, c) ==
  CASE c.op = "StructBegin" -> Append(stack, 0)
    [] c.op = "StructEnd"   -> Front(stack)
    [] c.op = "FieldBegin"  -> [stack EXCEPT ![Len(stack)] = c.id]
    [] OTHER                -> stack

LoggedIds == FoldLeft(LoggedStep, <<>>, rlog)

\* The header byte at rpos has a non-zero delta and a field type: it
\* names the field delta ids after the last one, past i16::MAX.
DeltaOverflowAt(q) ==
  /\ q < Len(forged)
  /\ LET b == forged[q + 1] IN
       /\ b \div 16 # 0
       /\ Server!In!FieldTypeOf(b % 16) \notin {"Stop", "Invalid"}
       /\ LoggedIds # <<>>
       /\ Last(LoggedIds) + b \div 16 > 32767

\* The server is about to read a field header that overflows.
OverflowingHeaderNext ==
  /\ IsTop(rctx, "Fields") /\ ret.st = "ok" /\ rstate = "ok"
  /\ DeltaOverflowAt(rpos)

\* What an encoder call accepts, of the values the server logged: a string
\* or message name is UTF-8 (by the reference definition of Utf8), a
\* message kind is one of the four, a collection size is not negative.
Encodable(c) ==
  /\ c.op = "String" => Utf8Reference(c.v)
  /\ c.op = "MessageBegin" => Utf8Reference(c.name) /\ c.kind \in 1..4
  /\ c.op \in {"ListBegin", "SetBegin", "MapBegin"} => c.n >= 0

(***************************************************************************)
(* Whatever the peer sends, every value the decoder returns to the server *)
(* is one the encoder accepts: generated code builds a String, a message  *)
(* kind or a Vec of the declared size from it.  read_string's from_utf8,   *)
(* TMessageType::try_from and check_container_size's sign check are what  *)
(* stand between the wire and these.                                       *)
(***************************************************************************)
ReturnsOnlyEncodableValues == \A i \in DOMAIN rlog : Encodable(rlog[i])

(***************************************************************************)
(* Whatever the peer sends, the decoder aborts only at one place: in      *)
(* read_field_begin, on a short-form header whose delta takes the field id *)
(* of the stream past i16::MAX (compact.rs, last_read_field_id +=         *)
(* field_delta).  A struct end that pops an empty field-id stack, or an id *)
(* computed from the wrong base after a nested struct, shows here.        *)
(***************************************************************************)
PanicsOnlyOnFieldIdOverflow ==
  rstate = "panic" => IsTop(rctx, "Fields") /\ DeltaOverflowAt(rpos)

(***************************************************************************)
(* With overflow checks (a debug build, the build of cargo test), the     *)
(* server's read of a forged header whose delta overflows the field id    *)
(* aborts it: the decoder returns neither the field nor an error.  With no *)
(* deadlock, that read is always made.  spec.md section 7 allows an abort  *)
(* only for the encoder's contract violations.                            *)
(***************************************************************************)
FieldIdOverflowAborts == [][OverflowingHeaderNext => rstate' = "panic"]_vars

=============================================================================
