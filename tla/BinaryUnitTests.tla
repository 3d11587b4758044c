--------------------------- MODULE BinaryUnitTests --------------------------
(***************************************************************************)
(* The unit tests of protocol/binary.rs, replayed on BinaryOutput and     *)
(* BinaryInput.  A test is the strict flag and TConfiguration its          *)
(* protocols are built with and a sequence of steps: an encoder call it    *)
(* asserts is_ok, a comparison of the bytes written so far, a copy of      *)
(* those bytes (or of given bytes) into the decoder's transport, a decoder *)
(* call with the result the test expects, or a look at recursion_depth.    *)
(* The initial state chooses a test; the behaviour runs its steps in       *)
(* order.  verdict turns FALSE at the first step whose assertion fails.    *)
(***************************************************************************)
EXTENDS BinaryWire

CONSTANTS None, NoLimit

VARIABLES
  wstrict, out, wstate,                          \* the encoder
  rstrict, config, recursionDepth, in, rpos, ret, rstate, allocated,  \* the decoder
  test,      \* the test being replayed
  pc,        \* index of its next step
  verdict    \* every assertion so far held

writerVars == <<wstrict, out, wstate>>
readerVars == <<rstrict, config, recursionDepth, in, rpos, ret, rstate, allocated>>
vars == <<writerVars, readerVars, test, pc, verdict>>

Out == INSTANCE BinaryOutput WITH strict <- wstrict
In  == INSTANCE BinaryInput WITH strict <- rstrict, eof <- TRUE, OverflowChecks <- TRUE

-----------------------------------------------------------------------------
(* Steps, named after the statements of the tests.                         *)
W(c)        == [do |-> "write", call |-> c]                    \* assert!(o_prot.op(..).is_ok())
Written(bs) == [do |-> "written", bytes |-> bs]                \* assert_eq_written_bytes!
Copy        == [do |-> "copy"]                                 \* copy_write_buffer_to_read_buffer!
Feed(bs)    == [do |-> "feed", bytes |-> bs]                   \* set_readable_bytes
R(op, v)    == [do |-> "read", op |-> op, exp |-> [st |-> "ok", val |-> v]]
RErr(op, k) == [do |-> "read", op |-> op, exp |-> [st |-> "err", kind |-> k]]
Depth(n)    == [do |-> "depth", n |-> n]                       \* assert_eq!(i_prot.recursion_depth, n)

\* Encoder calls, as BinaryRoundTrip logs them.
C(o)         == [op |-> o]
V(o, v)      == [op |-> o, v |-> v]
Msg(n, k, s) == [op |-> "MessageBegin", name |-> n, kind |-> k, seq |-> s]
Fld(t, id)   == [op |-> "FieldBegin", t |-> t, id |-> id]
Coll(o, t, n) == [op |-> o, t |-> t, n |-> n]
MapHdr(kt, vt, n) == [op |-> "MapBegin", kt |-> kt, vt |-> vt, n |-> n]

\* TConfiguration::default(): its limits lie beyond every size the tests use.
Default == [depth |-> NoLimit, str |-> NoLimit, cont |-> NoLimit, msg |-> NoLimit]
\* TConfiguration::builder() with one limit set.
With(d, s, c) == [depth |-> d, str |-> s, cont |-> c, msg |-> NoLimit]

\* test_objects(strict): both protocols over one TBufferChannel.
test_objects(strict, steps) == [strict |-> strict, config |-> Default, steps |-> steps]

\* assert_no_write: the call succeeds and writes nothing.
assert_no_write(o) == test_objects(TRUE, <<W(C(o)), Written(<<>>)>>)

\* The decoder call each step names, and the encoder's.
ReaderCall(op) ==
  CASE op = "MessageBegin" -> In!ReadMessageBegin
    [] op = "StructBegin"  -> In!ReadStructBegin
    [] op = "StructEnd"    -> In!ReadStructEnd
    [] op = "FieldBegin"   -> In!ReadFieldBegin
    [] op = "ListBegin"    -> In!ReadListBegin
    [] op = "SetBegin"     -> In!ReadSetBegin
    [] op = "MapBegin"     -> In!ReadMapBegin
    [] op = "Bool"         -> In!ReadBool
    [] op = "I32"          -> In!ReadI32
    [] op = "I64"          -> In!ReadI64
    [] op = "String"       -> In!ReadString
    [] op = "Bytes"        -> In!ReadBytes
    [] op = "Uuid"         -> In!ReadUuid
    [] OTHER               -> In!NoRead

WriterCall(c) ==
  CASE c.op = "MessageBegin" -> Out!WriteMessageBegin(c.name, c.kind, c.seq)
    [] c.op = "FieldBegin"   -> Out!WriteFieldBegin(c.t, c.id)
    [] c.op = "FieldStop"    -> Out!WriteFieldStop
    [] c.op = "ListBegin"    -> Out!WriteListBegin(c.t, c.n)
    [] c.op = "SetBegin"     -> Out!WriteSetBegin(c.t, c.n)
    [] c.op = "MapBegin"     -> Out!WriteMapBegin(c.kt, c.vt, c.n)
    [] c.op = "Bool"         -> Out!WriteBool(c.v)
    [] c.op = "I32"          -> Out!WriteI32(c.v)
    [] c.op = "I64"          -> Out!WriteI64(c.v)
    [] c.op = "String"       -> Out!WriteString(c.v)
    [] c.op = "Bytes"        -> Out!WriteBytes(c.v)
    [] c.op = "Uuid"         -> Out!WriteUuid(c.v)
    [] OTHER                 -> Out!NoWrite

-----------------------------------------------------------------------------
(* The tests, in the order of the file.                                    *)
Test == <<116, 101, 115, 116>>  \* "test"

must_write_strict_message_call_begin ==
  test_objects(TRUE, <<W(Msg(Test, 1, 1)),
                       Written(<<128, 1, 0, 1, 0, 0, 0, 4>> \o Test \o <<0, 0, 0, 1>>)>>)
must_write_non_strict_message_call_begin ==
  test_objects(FALSE, <<W(Msg(Test, 1, 1)),
                        Written(<<0, 0, 0, 4>> \o Test \o <<1, 0, 0, 0, 1>>)>>)
must_write_strict_message_reply_begin ==
  test_objects(TRUE, <<W(Msg(Test, 2, 10)),
                       Written(<<128, 1, 0, 2, 0, 0, 0, 4>> \o Test \o <<0, 0, 0, 10>>)>>)
must_write_non_strict_message_reply_begin ==
  test_objects(FALSE, <<W(Msg(Test, 2, 10)),
                        Written(<<0, 0, 0, 4>> \o Test \o <<2, 0, 0, 0, 10>>)>>)
must_round_trip_strict_message_begin ==
  test_objects(TRUE, <<W(Msg(Test, 1, 1)), Copy,
                       R("MessageBegin", [name |-> Test, kind |-> 1, seq |-> 1])>>)
must_round_trip_non_strict_message_begin ==
  test_objects(FALSE, <<W(Msg(Test, 1, 1)), Copy,
                        R("MessageBegin", [name |-> Test, kind |-> 1, seq |-> 1])>>)
must_write_message_end == assert_no_write("MessageEnd")
must_write_struct_begin == assert_no_write("StructBegin")
must_write_struct_end == assert_no_write("StructEnd")
must_write_field_begin ==
  test_objects(TRUE, <<W(Fld("String", 22)), Written(<<11, 0, 22>>)>>)
must_round_trip_field_begin ==
  test_objects(TRUE, <<W(Fld("I64", 20)), Copy, R("FieldBegin", [t |-> "I64", id |-> 20])>>)
must_write_stop_field ==
  test_objects(TRUE, <<W(C("FieldStop")), Written(<<0>>)>>)
must_round_trip_field_stop ==
  test_objects(TRUE, <<W(C("FieldStop")), Copy, R("FieldBegin", [t |-> "Stop", id |-> 0])>>)
must_write_field_end == assert_no_write("FieldEnd")
must_write_list_begin ==
  test_objects(TRUE, <<W(Coll("ListBegin", "Bool", 5)), Written(<<2, 0, 0, 0, 5>>)>>)
must_round_trip_list_begin ==
  test_objects(TRUE,
    <<W(Coll("ListBegin", "I32", 4)), W(V("I32", 10)), W(V("I32", 20)), W(V("I32", 30)),
      W(V("I32", 40)), W(C("ListEnd")), Copy,
      R("ListBegin", [et |-> "I32", n |-> 4]), R("I32", 10), R("I32", 20), R("I32", 30),
      R("I32", 40), R("ListEnd", None)>>)
must_write_list_end == assert_no_write("ListEnd")
must_write_set_begin ==
  test_objects(TRUE, <<W(Coll("SetBegin", "I16", 7)), Written(<<6, 0, 0, 0, 7>>)>>)
must_round_trip_set_begin ==
  test_objects(TRUE,
    <<W(Coll("SetBegin", "I64", 3)), W(V("I64", 123)), W(V("I64", 456)), W(V("I64", 789)),
      W(C("SetEnd")), Copy,
      R("SetBegin", [et |-> "I64", n |-> 3]), R("I64", 123), R("I64", 456), R("I64", 789),
      R("SetEnd", None)>>)
must_write_set_end == assert_no_write("SetEnd")
must_write_map_begin ==
  test_objects(TRUE, <<W(MapHdr("I64", "Struct", 32)), Written(<<10, 12, 0, 0, 0, 32>>)>>)
Key1 == <<107, 101, 121, 49>>  \* "key1"
Key2 == <<107, 101, 121, 50>>  \* "key2"
must_round_trip_map_begin ==
  test_objects(TRUE,
    <<W(MapHdr("String", "I32", 2)), W(V("String", Key1)), W(V("I32", 100)),
      W(V("String", Key2)), W(V("I32", 200)), W(C("MapEnd")), Copy,
      R("MapBegin", [kt |-> "String", vt |-> "I32", n |-> 2]), R("String", Key1),
      R("I32", 100), R("String", Key2), R("I32", 200), R("MapEnd", None)>>)
must_write_map_end == assert_no_write("MapEnd")
must_write_bool_true == test_objects(TRUE, <<W(V("Bool", TRUE)), Written(<<1>>)>>)
must_write_bool_false == test_objects(TRUE, <<W(V("Bool", FALSE)), Written(<<0>>)>>)
must_read_bool_true == test_objects(TRUE, <<Feed(<<1>>), R("Bool", TRUE)>>)
must_read_bool_false == test_objects(TRUE, <<Feed(<<0>>), R("Bool", FALSE)>>)
must_allow_any_non_zero_value_to_be_interpreted_as_bool_true ==
  test_objects(TRUE, <<Feed(<<172>>), R("Bool", TRUE)>>)
Bytes10 == <<10, 204, 209, 132, 153, 18, 171, 187, 69, 223>>
must_write_bytes ==
  test_objects(TRUE, <<W(V("Bytes", Bytes10)), Written(<<0, 0, 0, 10>> \o Bytes10)>>)
\* Uuid::new_v4() is random: any sixteen bytes stand for it.
UuidV4 == [i \in 1..16 |-> (i * 37) % 256]
must_write_uuid == test_objects(TRUE, <<W(V("Uuid", UuidV4)), Written(UuidV4)>>)
\* F9168C5E-CEB2-4faa-B6BF-329BF39FA1E4
UuidF9 == <<249, 22, 140, 94, 206, 178, 79, 170, 182, 191, 50, 155, 243, 159, 161, 228>>
must_round_trip_uuid == test_objects(TRUE, <<W(V("Uuid", UuidF9)), Copy, R("Uuid", UuidF9)>>)
Bytes25 == <<32, 253, 24, 132, 153, 18, 171, 187, 69, 223, 52, 220, 152, 164, 109, 243,
             153, 180, 183, 212, 156, 165, 179, 201, 136>>
must_round_trip_bytes ==
  test_objects(TRUE, <<W(V("Bytes", Bytes25)), Copy, R("Bytes", Bytes25)>>)
must_enforce_recursion_depth_limit ==
  [strict |-> TRUE, config |-> With(2, NoLimit, NoLimit),
   steps |-> <<R("StructBegin", None), Depth(1), R("StructBegin", None), Depth(2),
               RErr("StructBegin", "DepthLimit"),
               R("StructEnd", None), Depth(1), R("StructEnd", None), Depth(0)>>]
must_reject_negative_container_sizes ==
  test_objects(TRUE, <<Feed(<<15, 255, 255, 255, 255>>), RErr("ListBegin", "NegativeSize")>>)
must_enforce_container_size_limit ==
  [strict |-> TRUE, config |-> With(NoLimit, NoLimit, 100),
   steps |-> <<Feed(<<15, 0, 0, 0, 200>>), RErr("ListBegin", "SizeLimit")>>]
must_allow_containers_within_limit ==
  [strict |-> TRUE, config |-> With(NoLimit, NoLimit, 100),
   steps |-> <<Feed(<<8>> \o BE(5, 4) \o BE(10, 4) \o BE(20, 4) \o BE(30, 4) \o BE(40, 4)
                   \o BE(50, 4)),
               R("ListBegin", [et |-> "I32", n |-> 5])>>]
must_enforce_string_size_limit ==
  [strict |-> TRUE, config |-> With(NoLimit, 1000, NoLimit),
   steps |-> <<Feed(<<0, 0, 7, 208>>), RErr("String", "SizeLimit")>>]
must_allow_strings_within_limit ==
  [strict |-> TRUE, config |-> With(NoLimit, 1000, NoLimit),
   steps |-> <<Feed(<<0, 0, 0, 5, 104, 101, 108, 108, 111>>),
               R("String", <<104, 101, 108, 108, 111>>)>>]

Tests ==
  { must_write_strict_message_call_begin, must_write_non_strict_message_call_begin,
    must_write_strict_message_reply_begin, must_write_non_strict_message_reply_begin,
    must_round_trip_strict_message_begin, must_round_trip_non_strict_message_begin,
    must_write_message_end, must_write_struct_begin, must_write_struct_end,
    must_write_field_begin, must_round_trip_field_begin, must_write_stop_field,
    must_round_trip_field_stop, must_write_field_end, must_write_list_begin,
    must_round_trip_list_begin, must_write_list_end, must_write_set_begin,
    must_round_trip_set_begin, must_write_set_end, must_write_map_begin,
    must_round_trip_map_begin, must_write_map_end, must_write_bool_true,
    must_write_bool_false, must_read_bool_true, must_read_bool_false,
    must_allow_any_non_zero_value_to_be_interpreted_as_bool_true, must_write_bytes,
    must_write_uuid, must_round_trip_uuid, must_round_trip_bytes,
    must_enforce_recursion_depth_limit, must_reject_negative_container_sizes,
    must_enforce_container_size_limit, must_allow_containers_within_limit,
    must_enforce_string_size_limit, must_allow_strings_within_limit }

-----------------------------------------------------------------------------
(* Replaying a test.                                                       *)
Init ==
  /\ test \in Tests
  /\ Out!OutInit /\ wstrict = test.strict
  /\ In!InInit /\ rstrict = test.strict /\ config = test.config /\ in = <<>>
  /\ pc = 1 /\ verdict = TRUE

Running == pc <= Len(test.steps)
Cur == test.steps[pc]
Advance(ok) == pc' = pc + 1 /\ verdict' = (verdict /\ ok) /\ UNCHANGED test

DoWrite ==
  /\ Running /\ Cur.do = "write"
  /\ WriterCall(Cur.call)
  /\ Advance(wstate' = "ok")
  /\ UNCHANGED readerVars

DoRead ==
  /\ Running /\ Cur.do = "read"
  /\ ReaderCall(Cur.op)
  /\ Advance(rstate' = "ok" /\ ret' = Cur.exp)
  /\ UNCHANGED <<writerVars, in>>

\* The written bytes, or the bytes given, become what the decoder reads.
DoTransfer ==
  /\ Running /\ Cur.do \in {"copy", "feed"}
  /\ in' = IF Cur.do = "copy" THEN out ELSE Cur.bytes
  /\ rpos' = 0
  /\ Advance(TRUE)
  /\ UNCHANGED <<writerVars, rstrict, config, recursionDepth, ret, rstate, allocated>>

DoCheck ==
  /\ Running /\ Cur.do \in {"written", "depth"}
  /\ Advance(IF Cur.do = "written" THEN out = Cur.bytes ELSE recursionDepth = Cur.n)
  /\ UNCHANGED <<writerVars, readerVars>>

\* The test has returned.
Finished == ~Running /\ UNCHANGED vars

Next == DoWrite \/ DoRead \/ DoTransfer \/ DoCheck \/ Finished

Spec == Init /\ [][Next]_vars

(***************************************************************************)
(* The model passes the unit tests of binary.rs: for every test, each     *)
(* encoder call it makes succeeds and writes the bytes it expects, and     *)
(* each decoder call returns the value or the error kind it expects, with  *)
(* the recursion depth it expects, on the bytes the test feeds it.         *)
(***************************************************************************)
UnitTestsHold == verdict

====
