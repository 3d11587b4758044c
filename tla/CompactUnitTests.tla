-------------------------- MODULE CompactUnitTests --------------------------
(***************************************************************************)
(* The unit tests of protocol/compact.rs, replayed on CompactOutput and   *)
(* CompactInput.  A test is the TConfiguration its decoder is built with   *)
(* and a sequence of steps: an encoder call it asserts succeeds (or, in a  *)
(* should_panic test, that panics), a comparison of the bytes written so   *)
(* far, a copy of those bytes (or of given bytes) into the decoder's       *)
(* transport, or a decoder call with the results the test accepts.  The    *)
(* initial state chooses a test; the behaviour runs its steps in order.    *)
(* verdict turns FALSE at the first step whose assertion fails.            *)
(***************************************************************************)
EXTENDS CompactWire

CONSTANTS None, NoLimit

VARIABLES
  lastWriteFieldId, writeFieldIdStack, pendingWriteBool, out, wstate,  \* the encoder
  config, lastReadFieldId, readFieldIdStack, pendingReadBool, recursionDepth,
  in, rpos, ret, rstate, allocated,                                    \* the decoder
  test,      \* the test being replayed
  pc,        \* index of its next step
  verdict    \* every assertion so far held

writerVars == <<lastWriteFieldId, writeFieldIdStack, pendingWriteBool, out, wstate>>
codecVars  == <<config, lastReadFieldId, readFieldIdStack, pendingReadBool, recursionDepth,
                ret, rstate, allocated>>
readerVars == <<codecVars, in, rpos>>
vars == <<writerVars, readerVars, test, pc, verdict>>

\* The tests run in debug builds: i16 overflow panics.
Out == INSTANCE CompactOutput WITH OverflowChecks <- TRUE
In  == INSTANCE CompactInput WITH OverflowChecks <- TRUE, eof <- TRUE

-----------------------------------------------------------------------------
(* Steps, named after the statements of the tests.                         *)
W(c)        == [do |-> "write", call |-> c, exp |-> "ok"]      \* assert_success!(o_prot.op(..))
WPanic(c)   == [do |-> "write", call |-> c, exp |-> "panic"]   \* #[should_panic] ... .unwrap()
Written(bs) == [do |-> "written", bytes |-> bs]                \* assert_eq_written_bytes!
Copy        == [do |-> "copy"]                                 \* copy_write_buffer_to_read_buffer!
Feed(bs)    == [do |-> "feed", bytes |-> bs]                   \* set_readable_bytes
R(op, v)    == [do |-> "read", op |-> op, exp |-> {[st |-> "ok", val |-> v]}]
RErr(op, ks) == [do |-> "read", op |-> op, exp |-> {[st |-> "err", kind |-> k] : k \in ks}]

\* Encoder calls.
C(o)          == [op |-> o]
V(o, v)       == [op |-> o, v |-> v]
Msg(n, k, s)  == [op |-> "MessageBegin", name |-> n, kind |-> k, seq |-> s]
Fld(t, id)    == [op |-> "FieldBegin", t |-> t, id |-> id]
Coll(o, t, n) == [op |-> o, t |-> t, n |-> n]
MapHdr(kt, vt, n) == [op |-> "MapBegin", kt |-> kt, vt |-> vt, n |-> n]

\* TConfiguration::default(): its limits lie beyond every size the tests
\* that use it read.
Default  == [depth |-> NoLimit, str |-> NoLimit, cont |-> NoLimit, msg |-> NoLimit]
NoLimits == [depth |-> NoLimit, str |-> NoLimit, cont |-> NoLimit, msg |-> NoLimit]
\* TConfiguration::builder() with one limit set.
With(d, s, c) == [depth |-> d, str |-> s, cont |-> c, msg |-> NoLimit]
\* TConfiguration::builder() with max_message_size (and max_frame_size,
\* which only a framed transport reads) set.
WithMessageSize(m) == [Default EXCEPT !.msg = m]

\* test_objects() and test_objects_no_limits(): both protocols over one
\* TBufferChannel, the decoder built with new or with no_limits().
test_objects(steps) == [config |-> Default, steps |-> steps]
test_objects_no_limits(steps) == [config |-> NoLimits, steps |-> steps]

\* assert_no_write: the call succeeds and writes nothing.
assert_no_write(o) == test_objects(<<W(C(o)), Written(<<>>)>>)

(***************************************************************************)
(* The round-trip tests write a sequence of calls, copy the bytes, and    *)
(* make the matching decoder call for each, asserting that it returns the  *)
(* identifier or value written (a field identifier without its name; the   *)
(* stop field as a Stop header with no id).                                *)
(***************************************************************************)
Mirror(c) ==
  CASE c.op = "FieldStop"    -> R("FieldBegin", [t |-> "Stop", id |-> None])
    [] c.op = "FieldBegin"   -> R("FieldBegin", [t |-> c.t, id |-> c.id])
    [] c.op \in {"ListBegin", "SetBegin"} -> R(c.op, [et |-> c.t, n |-> c.n])
    [] c.op = "MapBegin"     -> R("MapBegin", [kt |-> c.kt, vt |-> c.vt, n |-> c.n])
    [] c.op = "MessageBegin" -> R("MessageBegin", [name |-> c.name, kind |-> c.kind, seq |-> c.seq])
    [] "v" \in DOMAIN c      -> R(c.op, c.v)
    [] OTHER                 -> R(c.op, None)

Writes(cs) == [i \in DOMAIN cs |-> W(cs[i])]
Reads(cs)  == [i \in DOMAIN cs |-> Mirror(cs[i])]
RoundTrip(cs) == Writes(cs) \o <<Copy>> \o Reads(cs)

\* A field with no value written, a Bool field, and a struct of fields.
Field(t, id) == <<Fld(t, id), C("FieldEnd")>>
BoolField(id, b) == <<Fld("Bool", id), V("Bool", b), C("FieldEnd")>>
Struct(fields) == <<C("StructBegin")>> \o fields \o <<C("FieldStop"), C("StructEnd")>>

\* The decoder call each step names, and the encoder's.
ReaderCall(op) ==
  CASE op = "MessageBegin" -> In!ReadMessageBegin
    [] op = "StructBegin"  -> In!ReadStructBegin
    [] op = "StructEnd"    -> In!ReadStructEnd
    [] op = "FieldBegin"   -> In!ReadFieldBegin
    [] op = "FieldEnd"     -> In!ReadFieldEnd
    [] op = "ListBegin"    -> In!ReadListBegin
    [] op = "ListEnd"      -> In!ReadListEnd
    [] op = "SetBegin"     -> In!ReadSetBegin
    [] op = "SetEnd"       -> In!ReadSetEnd
    [] op = "MapBegin"     -> In!ReadMapBegin
    [] op = "MapEnd"       -> In!ReadMapEnd
    [] op = "Bool"         -> In!ReadBool
    [] op = "I16"          -> In!ReadI16
    [] op = "I32"          -> In!ReadI32
    [] op = "I64"          -> In!ReadI64
    [] op = "Double"       -> In!ReadDouble
    [] op = "String"       -> In!ReadString

WriterCall(c) ==
  CASE c.op = "MessageBegin" -> Out!WriteMessageBegin(c.name, c.kind, c.seq)
    [] c.op = "MessageEnd"   -> Out!WriteMessageEnd
    [] c.op = "StructBegin"  -> Out!WriteStructBegin
    [] c.op = "StructEnd"    -> Out!WriteStructEnd
    [] c.op = "FieldBegin"   -> Out!WriteFieldBegin(c.t, c.id)
    [] c.op = "FieldEnd"     -> Out!WriteFieldEnd
    [] c.op = "FieldStop"    -> Out!WriteFieldStop
    [] c.op = "ListBegin"    -> Out!WriteListBegin(c.t, c.n)
    [] c.op = "ListEnd"      -> Out!WriteListEnd
    [] c.op = "SetBegin"     -> Out!WriteSetBegin(c.t, c.n)
    [] c.op = "SetEnd"       -> Out!WriteSetEnd
    [] c.op = "MapBegin"     -> Out!WriteMapBegin(c.kt, c.vt, c.n)
    [] c.op = "MapEnd"       -> Out!WriteMapEnd
    [] c.op = "Bool"         -> Out!WriteBool(c.v)
    [] c.op = "I16"          -> Out!WriteI16(c.v)
    [] c.op = "I32"          -> Out!WriteI32(c.v)
    [] c.op = "I64"          -> Out!WriteI64(c.v)
    [] c.op = "Double"       -> Out!WriteDouble(c.v)
    [] c.op = "Flush"        -> Out!Flush

-----------------------------------------------------------------------------
(* The tests, in the order of the file.                                    *)
Bar == <<98, 97, 114>>     \* "bar"
Foo == <<102, 111, 111>>   \* "foo"

\* A message-begin test: the identifier written gives the bytes expected;
\* the same bytes, read, give the identifier back.
MsgWrite(n, k, s, bs) == test_objects(<<W(Msg(n, k, s)), Written(bs)>>)
MsgRead(n, k, s, bs)  ==
  test_objects(<<Feed(bs), R("MessageBegin", [name |-> n, kind |-> k, seq |-> s])>>)

SeqMaxBytes  == <<130, 65, 255, 255, 255, 255, 7, 3>> \o Bar
Seq431Bytes  == <<130, 33, 175, 3, 3>> \o Foo
Seq991Bytes  == <<130, 65, 212, 196, 60, 3>> \o Bar
Seq0Bytes    == <<130, 65, 0, 3>> \o Bar
SeqMinBytes  == <<130, 65, 128, 128, 128, 128, 8, 3>> \o Bar
SeqM431Bytes == <<130, 33, 209, 252, 255, 255, 15, 3>> \o Foo
SeqM73Bytes  == <<130, 33, 131, 153, 141, 221, 15, 3>> \o Foo
SeqM107Bytes == <<130, 33, 129, 128, 128, 128, 12, 3>> \o Foo

must_write_message_begin_largest_maximum_positive_sequence_number ==
  MsgWrite(Bar, 2, MaxI32, SeqMaxBytes)
must_read_message_begin_largest_maximum_positive_sequence_number ==
  MsgRead(Bar, 2, MaxI32, SeqMaxBytes)
must_write_message_begin_positive_sequence_number_0 == MsgWrite(Foo, 1, 431, Seq431Bytes)
must_read_message_begin_positive_sequence_number_0 == MsgRead(Foo, 1, 431, Seq431Bytes)
must_write_message_begin_positive_sequence_number_1 == MsgWrite(Bar, 2, 991828, Seq991Bytes)
must_read_message_begin_positive_sequence_number_1 == MsgRead(Bar, 2, 991828, Seq991Bytes)
must_write_message_begin_zero_sequence_number == MsgWrite(Bar, 2, 0, Seq0Bytes)
must_read_message_begin_zero_sequence_number == MsgRead(Bar, 2, 0, Seq0Bytes)
must_write_message_begin_largest_minimum_negative_sequence_number ==
  MsgWrite(Bar, 2, MinI32, SeqMinBytes)
must_read_message_begin_largest_minimum_negative_sequence_number ==
  MsgRead(Bar, 2, MinI32, SeqMinBytes)
must_write_message_begin_negative_sequence_number_0 == MsgWrite(Foo, 1, -431, SeqM431Bytes)
must_read_message_begin_negative_sequence_number_0 == MsgRead(Foo, 1, -431, SeqM431Bytes)
must_write_message_begin_negative_sequence_number_1 ==
  MsgWrite(Foo, 1, -73184125, SeqM73Bytes)
must_read_message_begin_negative_sequence_number_1 ==
  MsgRead(Foo, 1, -73184125, SeqM73Bytes)
must_write_message_begin_negative_sequence_number_2 ==
  MsgWrite(Foo, 1, -1073741823, SeqM107Bytes)
must_read_message_begin_negative_sequence_number_2 ==
  MsgRead(Foo, 1, -1073741823, SeqM107Bytes)

\* One iteration of the loop, (1 << i) - 1 for i in 0..31: the values of
\* the loop's 64 that lie in the model's i32 range.
must_round_trip_upto_i64_maxvalue(i) ==
  LET val == IF i = 31 THEN MaxI32 ELSE 2 ^ i - 1
  IN  test_objects(<<W(Fld("I64", 1)), W(V("I64", val)), W(C("FieldEnd")), W(C("Flush")),
                     Copy, R("FieldBegin", [t |-> "I64", id |-> 1]), R("I64", val)>>)

ServiceCall == <<115, 101, 114, 118, 105, 99, 101, 95, 99, 97, 108, 108>>  \* "service_call"
must_round_trip_message_begin ==
  test_objects(RoundTrip(<<Msg(ServiceCall, 1, 1283948)>>))
must_write_message_end == assert_no_write("MessageEnd")

DeltaFields == Struct(Field("I08", 0) \o Field("I16", 4) \o Field("List", 9))
must_write_struct_with_delta_fields ==
  test_objects(Writes(DeltaFields) \o <<Written(<<3, 0, 68, 89, 0>>)>>)
must_round_trip_struct_with_delta_fields == test_objects(RoundTrip(DeltaFields))

NonZeroFields == Struct(Field("I32", 1) \o Field("Set", 2) \o Field("String", 6))
must_write_struct_with_non_zero_initial_field_and_delta_fields ==
  test_objects(Writes(NonZeroFields) \o <<Written(<<21, 26, 72, 0>>)>>)
must_round_trip_struct_with_non_zero_initial_field_and_delta_fields ==
  test_objects(RoundTrip(NonZeroFields))

LongFields == Struct(Field("I32", 0) \o Field("I64", 16) \o Field("Set", 99))
must_write_struct_with_long_fields ==
  test_objects(Writes(LongFields) \o <<Written(<<5, 0, 6, 32, 10, 198, 1, 0>>)>>)
must_round_trip_struct_with_long_fields == test_objects(RoundTrip(LongFields))

MixFields == Struct(Field("I64", 1) \o Field("I32", 9) \o Field("Set", 1000)
                    \o Field("Set", 2001) \o Field("Set", 2004))
must_write_struct_with_mix_of_long_and_delta_fields ==
  test_objects(Writes(MixFields) \o <<Written(<<22, 133, 10, 208, 15, 10, 162, 31, 58, 0>>)>>)
must_round_trip_struct_with_mix_of_long_and_delta_fields == test_objects(RoundTrip(MixFields))

\* Two fields, then a nested struct of two fields, as the nested tests write.
Nested(a, b) == Struct(Field("I64", 1) \o Field(a[1], a[2]) \o Struct(Field(b[1][1], b[1][2])
                       \o Field(b[2][1], b[2][2])))
Nested0 == Nested(<<"I32", 9>>, <<<<"I08", 7>>, <<"Double", 24>>>>)
Nested1 == Nested(<<"I32", 9>>, <<<<"Double", 24>>, <<"I08", 27>>>>)
Nested2 == Nested(<<"String", 21>>, <<<<"Double", 7>>, <<"I08", 10>>>>)
Nested3 == Nested(<<"String", 21>>, <<<<"Double", 21>>, <<"I08", 27>>>>)
must_write_nested_structs_0 ==
  test_objects(Writes(Nested0) \o <<Written(<<22, 133, 115, 7, 48, 0, 0>>)>>)
must_round_trip_nested_structs_0 == test_objects(RoundTrip(Nested0))
must_write_nested_structs_1 ==
  test_objects(Writes(Nested1) \o <<Written(<<22, 133, 7, 48, 51, 0, 0>>)>>)
must_round_trip_nested_structs_1 == test_objects(RoundTrip(Nested1))
must_write_nested_structs_2 ==
  test_objects(Writes(Nested2) \o <<Written(<<22, 8, 42, 119, 51, 0, 0>>)>>)
must_round_trip_nested_structs_2 == test_objects(RoundTrip(Nested2))
must_write_nested_structs_3 ==
  test_objects(Writes(Nested3) \o <<Written(<<22, 8, 42, 7, 42, 99, 0, 0>>)>>)
must_round_trip_nested_structs_3 == test_objects(RoundTrip(Nested3))

BoolFields == Struct(BoolField(1, TRUE) \o BoolField(9, FALSE) \o BoolField(26, TRUE)
                     \o BoolField(45, FALSE))
must_write_bool_field ==
  test_objects(Writes(BoolFields) \o <<Written(<<17, 130, 1, 52, 2, 90, 0>>)>>)
must_round_trip_bool_field == test_objects(RoundTrip(BoolFields))

\* A Bool field begun and never given its value.
PendingBool == <<W(C("StructBegin")), W(Fld("Bool", 1))>>
must_fail_if_write_field_end_without_writing_bool_value ==
  test_objects(PendingBool \o <<WPanic(C("FieldEnd"))>>)
must_fail_if_write_stop_field_without_writing_bool_value ==
  test_objects(PendingBool \o <<WPanic(C("FieldStop"))>>)
must_fail_if_write_struct_end_without_writing_bool_value ==
  test_objects(PendingBool \o <<WPanic(C("StructEnd"))>>)
must_fail_if_write_struct_end_without_any_fields == test_objects(<<WPanic(C("StructEnd"))>>)
must_write_field_end == assert_no_write("FieldEnd")

must_write_small_sized_list_begin ==
  test_objects(<<W(Coll("ListBegin", "I64", 4)), Written(<<70>>)>>)
must_round_trip_small_sized_list_begin ==
  test_objects(RoundTrip(<<Coll("ListBegin", "I32", 3), V("I32", 100), V("I32", 200),
                           V("I32", 300), C("ListEnd")>>))
must_write_large_sized_list_begin ==
  test_objects(<<W(Coll("ListBegin", "List", 9999)), Written(<<249, 143, 78>>)>>)
must_round_trip_large_sized_list_begin ==
  test_objects_no_limits(RoundTrip(<<Coll("ListBegin", "Set", 47381)>>))
must_write_list_end == assert_no_write("ListEnd")
must_write_small_sized_set_begin ==
  test_objects(<<W(Coll("SetBegin", "Struct", 2)), Written(<<44>>)>>)
must_round_trip_small_sized_set_begin ==
  test_objects(RoundTrip(<<Coll("SetBegin", "I16", 3), V("I16", 111), V("I16", 222),
                           V("I16", 333), C("SetEnd")>>))
must_write_large_sized_set_begin ==
  test_objects(<<W(Coll("SetBegin", "Double", 23891)), Written(<<247, 211, 186, 1>>)>>)
must_round_trip_large_sized_set_begin ==
  test_objects_no_limits(RoundTrip(<<Coll("SetBegin", "Map", 3928429)>>))
must_write_set_end == assert_no_write("SetEnd")
must_write_zero_sized_map_begin ==
  test_objects(<<W(MapHdr("String", "I32", 0)), Written(<<0>>)>>)
must_read_zero_sized_map_begin ==
  test_objects(<<W(MapHdr("Double", "I32", 0)), Copy,
                 R("MapBegin", [kt |-> None, vt |-> None, n |-> 0])>>)
must_write_map_begin ==
  test_objects(<<W(MapHdr("Double", "String", 238)), Written(<<238, 1, 120>>)>>)
must_round_trip_map_begin ==
  test_objects_no_limits(RoundTrip(<<MapHdr("Map", "List", 1928349)>>))
must_write_map_end == assert_no_write("MapEnd")
must_write_map_with_bool_key_and_value ==
  test_objects(<<W(MapHdr("Bool", "Bool", 1)), W(V("Bool", TRUE)), W(V("Bool", FALSE)),
                 W(C("MapEnd")), Written(<<1, 17, 1, 2>>)>>)
must_round_trip_map_with_bool_value ==
  test_objects(RoundTrip(<<MapHdr("Bool", "Bool", 2), V("Bool", TRUE), V("Bool", FALSE),
                           V("Bool", FALSE), V("Bool", TRUE), C("MapEnd")>>))
must_read_map_end == test_objects(<<R("MapEnd", None)>>)

\* 3.141592653589793 as the little-endian bytes of its IEEE-754 bits.
Pi == <<24, 45, 68, 84, 251, 33, 9, 64>>
must_read_write_double == test_objects(RoundTrip(<<V("Double", Pi)>>))
must_encode_double_as_other_langs == test_objects(<<W(V("Double", Pi)), Written(Pi)>>)
must_read_boolean_list ==
  test_objects(<<Feed(<<33, 2, 1>>), R("ListBegin", [et |-> "Bool", n |-> 2]),
                 R("Bool", FALSE), R("Bool", TRUE), R("ListEnd", None)>>)
must_read_boolean_list_alternative_encoding ==
  test_objects(<<Feed(<<34, 0, 1>>), R("ListBegin", [et |-> "Bool", n |-> 2]),
                 R("Bool", FALSE), R("Bool", TRUE), R("ListEnd", None)>>)
must_enforce_recursion_depth_limit ==
  [config |-> With(2, NoLimit, NoLimit),
   steps |-> <<R("StructBegin", None), R("StructBegin", None),
               RErr("StructBegin", {"DepthLimit"})>>]
must_reject_negative_container_sizes ==
  test_objects(<<Feed(<<240, 255, 255, 255, 255, 15>>), RErr("ListBegin", {"NegativeSize"})>>)
must_enforce_container_size_limit ==
  [config |-> With(NoLimit, NoLimit, 1000),
   steps |-> <<Feed(<<240, 144, 78>>), RErr("ListBegin", {"SizeLimit"})>>]
must_handle_varint_size_overflow ==
  test_objects(<<Feed(<<250, 255, 255, 255, 255, 127>>),
                 RErr("ListBegin", {"SizeLimit", "NegativeSize"})>>)
must_enforce_string_size_limit ==
  [config |-> With(NoLimit, 100, NoLimit),
   steps |-> <<Feed(<<200, 1>>), RErr("String", {"SizeLimit"})>>]
must_allow_no_limit_configuration ==
  [config |-> NoLimits,
   steps |-> [i \in 1..200 |-> IF i <= 100 THEN R("StructBegin", None)
                               ELSE R("StructEnd", None)]]
must_allow_containers_within_limit ==
  [config |-> With(NoLimit, NoLimit, 100),
   steps |-> <<Feed(<<85, 10, 20, 30, 40, 50>>), R("ListBegin", [et |-> "I32", n |-> 5])>>]
\* A list header of 100 Uuids (0xFD, varint 100): 1600 bytes at least.
must_check_container_size_overflow ==
  [config |-> WithMessageSize(1000),
   steps |-> <<Feed(<<253, 100>>), RErr("ListBegin", {"SizeLimit"})>>]
Hello == <<104, 101, 108, 108, 111>>
must_allow_strings_within_limit ==
  [config |-> With(NoLimit, 1000, NoLimit), steps |-> <<Feed(<<5>> \o Hello), R("String", Hello)>>]

Tests ==
  { must_round_trip_upto_i64_maxvalue(i) : i \in 0..31 } \cup
  { must_write_message_begin_largest_maximum_positive_sequence_number,
    must_read_message_begin_largest_maximum_positive_sequence_number,
    must_write_message_begin_positive_sequence_number_0,
    must_read_message_begin_positive_sequence_number_0,
    must_write_message_begin_positive_sequence_number_1,
    must_read_message_begin_positive_sequence_number_1,
    must_write_message_begin_zero_sequence_number,
    must_read_message_begin_zero_sequence_number,
    must_write_message_begin_largest_minimum_negative_sequence_number,
    must_read_message_begin_largest_minimum_negative_sequence_number,
    must_write_message_begin_negative_sequence_number_0,
    must_read_message_begin_negative_sequence_number_0,
    must_write_message_begin_negative_sequence_number_1,
    must_read_message_begin_negative_sequence_number_1,
    must_write_message_begin_negative_sequence_number_2,
    must_read_message_begin_negative_sequence_number_2, must_round_trip_message_begin,
    must_write_message_end, must_write_struct_with_delta_fields,
    must_round_trip_struct_with_delta_fields,
    must_write_struct_with_non_zero_initial_field_and_delta_fields,
    must_round_trip_struct_with_non_zero_initial_field_and_delta_fields,
    must_write_struct_with_long_fields, must_round_trip_struct_with_long_fields,
    must_write_struct_with_mix_of_long_and_delta_fields,
    must_round_trip_struct_with_mix_of_long_and_delta_fields,
    must_write_nested_structs_0, must_round_trip_nested_structs_0,
    must_write_nested_structs_1, must_round_trip_nested_structs_1,
    must_write_nested_structs_2, must_round_trip_nested_structs_2,
    must_write_nested_structs_3, must_round_trip_nested_structs_3,
    must_write_bool_field, must_round_trip_bool_field,
    must_fail_if_write_field_end_without_writing_bool_value,
    must_fail_if_write_stop_field_without_writing_bool_value,
    must_fail_if_write_struct_end_without_writing_bool_value,
    must_fail_if_write_struct_end_without_any_fields, must_write_field_end,
    must_write_small_sized_list_begin, must_round_trip_small_sized_list_begin,
    must_write_large_sized_list_begin, must_round_trip_large_sized_list_begin,
    must_write_list_end, must_write_small_sized_set_begin,
    must_round_trip_small_sized_set_begin, must_write_large_sized_set_begin,
    must_round_trip_large_sized_set_begin, must_write_set_end,
    must_write_zero_sized_map_begin, must_read_zero_sized_map_begin,
    must_write_map_begin, must_round_trip_map_begin, must_write_map_end,
    must_write_map_with_bool_key_and_value, must_round_trip_map_with_bool_value,
    must_read_map_end, must_read_write_double, must_encode_double_as_other_langs,
    must_read_boolean_list, must_read_boolean_list_alternative_encoding,
    must_enforce_recursion_depth_limit, must_reject_negative_container_sizes,
    must_enforce_container_size_limit, must_handle_varint_size_overflow,
    must_enforce_string_size_limit, must_allow_no_limit_configuration,
    must_check_container_size_overflow,
    must_allow_containers_within_limit, must_allow_strings_within_limit }

-----------------------------------------------------------------------------
(* Replaying a test.                                                       *)
Init ==
  /\ test \in Tests
  /\ Out!OutInit
  /\ In!InInit /\ config = test.config /\ in = <<>>
  /\ pc = 1 /\ verdict = TRUE

Running == pc <= Len(test.steps)
Cur == test.steps[pc]
Advance(ok) == pc' = pc + 1 /\ verdict' = (verdict /\ ok) /\ UNCHANGED test

\* An encoder call: it returns, or panics where the test expects a panic.
DoWrite ==
  /\ Running /\ Cur.do = "write"
  /\ WriterCall(Cur.call)
  /\ Advance(wstate' = Cur.exp)
  /\ UNCHANGED readerVars

DoRead ==
  /\ Running /\ Cur.do = "read"
  /\ ReaderCall(Cur.op)
  /\ Advance(rstate' = "ok" /\ ret' \in Cur.exp)
  /\ UNCHANGED <<writerVars, in>>

\* The written bytes, or the bytes given, become what the decoder reads.
DoTransfer ==
  /\ Running /\ Cur.do \in {"copy", "feed"}
  /\ in' = IF Cur.do = "copy" THEN out ELSE Cur.bytes
  /\ rpos' = 0
  /\ Advance(TRUE)
  /\ UNCHANGED <<writerVars, codecVars>>

DoCheck ==
  /\ Running /\ Cur.do = "written"
  /\ Advance(out = Cur.bytes)
  /\ UNCHANGED <<writerVars, readerVars>>

\* The test has returned.
Finished == ~Running /\ UNCHANGED vars

Next == DoWrite \/ DoRead \/ DoTransfer \/ DoCheck \/ Finished

Spec == Init /\ [][Next]_vars

(***************************************************************************)
(* The model passes the unit tests of compact.rs: for every test, each    *)
(* encoder call succeeds, or panics where the test is should_panic, and    *)
(* the bytes written are the ones expected; each decoder call returns the  *)
(* identifier or value written, or an error of a kind the test accepts,    *)
(* on the bytes the test feeds it.                                         *)
(***************************************************************************)
UnitTestsHold == verdict
====
