# TLA+ models of the Rust Thrift protocol codecs

This directory holds TLA+ models of the two wire codecs of the Rust Thrift
library:

- `src/lib/rs/src/protocol/compact.rs` (`TCompactInputProtocol`, `TCompactOutputProtocol`)
- `src/lib/rs/src/protocol/binary.rs` (`TBinaryInputProtocol`, `TBinaryOutputProtocol`)

The runs check them with TLC. `PROJECT.json` lists the components, runs,
mutants, the map from definitions to source lines, the findings and the
hazards.

## The system

Each codec has an encoder half and a decoder half. Both halves are
single-threaded, synchronous state machines over a byte transport. The halves
interact only through the bytes: an encoder's output must decode, call by
call, to what was written.

- **Compact encoder.** Its state is:
  - `last_write_field_id`;
  - `write_field_id_stack`, one saved id per open struct;
  - `pending_write_bool_field_identifier`, a Bool field whose header waits
    for `write_bool`.

  A field header is one byte `delta << 4 | type` when `0 < id - last < 15`.
  Otherwise it is the type byte followed by the zig-zag i16 id. A Bool field
  carries its value in the type nibble (1 true, 2 false).
- **Compact decoder.** Its state is:
  - `last_read_field_id` and `read_field_id_stack`;
  - `pending_read_bool_value`, set by a Bool field header and taken by
    `read_bool`;
  - `recursion_depth`, checked against `max_recursion_depth`;
  - the `TConfiguration` limits.

  Reads block in `read_exact` until the transport delivers.
- **Binary encoder.** Its only state is the `strict` flag, given to `new`:
  - a strict envelope is the version word `0x8001_00kk`, then the name and
    the sequence number;
  - a non-strict one is the name, then the kind byte and the sequence number.

  Integers are big-endian and fixed-width; strings and collection sizes
  carry an i32 length.
- **Binary decoder.** Its state is the `strict` flag, its `TConfiguration`
  and `recursion_depth`. It tells the two envelopes apart by the sign bit of
  the first byte. A strict decoder refuses the unversioned envelope.

Hard behaviour:
- i16 arithmetic on field ids (wrap or panic, depending on the build);
- the 4-bit nibble boundaries of field deltas and list counts;
- raw versus zig-zag varints;
- the deferred Bool header;
- state that outlives a message (`recursion_depth`, the stack, the pending Bool);
- the limits, checked before an allocation or an increment;
- the two envelopes of the binary codec and the four combinations of strict
  flags;
- a decoder that blocks forever once it loses alignment.

## Modules

| Module | Models |
|---|---|
| `CompactWire` | `type_to_u8`, `collection_type_to_u8`, `u8_to_type`, `collection_u8_to_type`, i16 wrap-around, and LEB128 raw and zig-zag varints, written and read, with the maximum length per type. TLC integers are 32 bits, so a u32 is split into a low 28-bit part and a high nibble and is never formed. |
| `CompactOutput` | `TCompactOutputProtocol`. The variables are the three fields of the struct, `out` (the bytes written) and `wstate` (`"panic"` after a panic). There is one operator per `write_*` method, plus `write_field_header`, `write_list_set_begin`, `assert_no_pending_bool_write` and `flush`. |
| `CompactInput` | `TCompactInputProtocol`. The variables are the state fields, `config` (the `TConfiguration`: depth, string, container and message-size limits, set at construction and never changed), the transport (`in`, `rpos`, `eof`), the result `ret` of the last call, `rstate`, and `allocated`, the largest buffer `read_bytes` has allocated from a wire length. Each `read_*` is `Attempt(parse, update, on_error)`: it blocks while the parse needs bytes that have not arrived, fails with a Transport error at eof, and on success consumes the bytes and updates the state. Error paths keep what the code did before failing; for example `read_field_begin` has already set the pending Bool when its id read fails. |
| `BinaryWire` | `field_type_to_u8`/`field_type_from_u8`, big-endian i16/i32/i64, doubles. |
| `BinaryOutput` | `TBinaryOutputProtocol`: `strict`, `out`, `wstate`. There is one operator per `write_*` method, including the Unknown error of `write_field_begin` without an id and the `expect` panics of `write_map_begin`. |
| `BinaryInput` | `TBinaryInputProtocol`: `strict`, `config`, `recursion_depth`, the transport, `ret`, `rstate`, and `allocated`, the size of the last buffer allocated from a wire length. Both envelope paths of `read_message_begin`, the size checks of `read_bytes` and of the collection headers (with `min_serialized_size` and the message budget of `check_container_size`), and the depth check are modelled, with the same `Attempt` form as `CompactInput`. |
| `TokenStream` | The abstract promise of a codec pair: the calls received are the calls sent, in order. |
| `Application` | What both round-trip modules share about the applications that drive a codec the way generated code does: the wire types, the logged calls and the stack of frames. |
| `CompactRoundTrip`, `BinaryRoundTrip` | An encoder and a decoder joined by a byte channel, composed by `INSTANCE`. The writer application makes encoder calls the way generated code does: message, struct, fields of every type (nested structs and collections included), stop, struct end, message end, flush. The reader application dispatches on what the decoder returns, like `TInputProtocol::skip`. Both log their calls; `RoundTrip` is `TokenStream!Spec` under `sent <- wlog, received <- rlog`. The binary one chooses the two strict flags from `WriterModes` and `ReaderModes`. |
| `MCCompactRoundTrip`, `MCBinaryRoundTrip` | Byte sequences, value sets and negative literals for the `.cfg` files. |
| `BinaryUnitTests`, `CompactUnitTests` | The `tests` modules of the two files. Each test is a definition named after its Rust function: the configuration it builds and its steps. A step is one of: an encoder call, a byte comparison, a copy of the written bytes (or given bytes) to the decoder, a decoder call with the results the test accepts, or a look at `recursion_depth`. The harness replays the chosen test on the protocol modules. |
| `CompactForged` | The compact decoder on bytes no encoder wrote. The reader application of `CompactRoundTrip` (instantiated with its writer fixed at "finished") reads one Call from a forged stream: a valid message header, then up to `MaxFragments` fragments of a body. The whole stream has arrived, so each call returns or fails. `LoggedIds` folds the ids the decoder returned into the stack of field ids the stream defines. |
| `Utf8` | `String::from_utf8`, which both decoders' `read_string` and the binary envelope's name read call: `IsUtf8` accepts a sequence of the well-formed forms of the RFC 3629 table. `Utf8Reference` states, by arithmetic (encode each scalar value and compare), what a Rust `String` holds: the encoder's side, which `ReturnsOnlyEncodableValues` uses. Both are standard-library behaviour rather than code of this repository, so no property compares them with each other. |
| `UnitTests` | Both unit-test harnesses side by side and, as separate branches chosen at the start (`suite`), the forged-input server of `CompactForged` in the tests' build (overflow checks on). The state spaces add up rather than multiply. |

Correspondence:
- Each writer or reader step of a round-trip module is one encoder or
  decoder call, with its whole effect: header bytes, state updates, errors,
  panics.
- The strict flags and the configuration are variables that are set when
  the protocol object is built and never change, like the struct fields
  they model.
- The application drivers model code that is not in this repository
  (generated code), so they are not in the map.
- The writer flushes after each message. The reader's transport
  (`delivered`) receives the bytes at the flush, as a buffered client
  transport delivers them.

## Properties

- `RoundTrip` (refinement of `TokenStream`): every value the decoder returns
  is the encoder call at the same position. It fails if any field header,
  delta, nested-struct save or restore, Bool nibble, collection header,
  varint, envelope or big-endian conversion is not undone by the decoder.
- `AllDelivered` (liveness): eventually the reader has returned every call
  the writer made, or it has stopped where its configuration rejects what
  was written. A decoder that loses alignment blocks or fails, and this
  property catches it.
- `DecoderMirrorsEncoder` (compact): whenever the reader has returned every
  call made, the two halves agree on:
  - the saved-id stacks;
  - the last ids;
  - the depth, which equals the stack height;
  - no pending Bool on either side.
- `PendingBoolIffBoolHeader` (compact): the decoder's pending Bool is set
  exactly when the last call returned a Bool field header.
- `DecoderRejectsExactlyOverLimits` (both): the decoder never panics. It
  fails only at a call that breaks a limit, and it never returns such a
  call. The limits are: depth; string size (compact: strings, Uuids and
  message names); container size; `count * min_serialized_size` above the
  message size; a negative size; and, in binary, an unversioned envelope at
  a strict decoder.
- `AllocationChecked` (both): no buffer sized from the wire is larger than
  `max_string_size`: the check comes before the allocation.
- `BinaryTestsPass`, `CompactTestsPass`: the model passes the unit tests of
  each file.
- `PanicsOnlyOnFieldIdOverflow` (compact, forged input): whatever the peer
  sends, the decoder aborts only in `read_field_begin`, on a short-form
  header whose delta takes the stream's field id (computed from the ids
  the decoder returned, restored after each nested struct) past
  `i16::MAX`. A struct end that pops an empty stack, or an id taken from
  the wrong base after a nested struct, breaks it.
- `FieldIdOverflowAborts` (compact, forged input, action property): in a
  debug build the read of such a header aborts the server. With no
  deadlock, that read is always made.
- `ReturnsOnlyEncodableValues` (compact, forged input): whatever the peer
  sends, every string and message name the decoder returns is UTF-8 (by
  the reference definition), every message kind is one of the four, and
  every collection size is not negative, so the server can build and echo
  them. Dropping `from_utf8` from `read_string` breaks it.
- `TypeOK`: one per round-trip module.
- Properties that state what spec.md says, for the violation runs:
  - `ShortFormPerSpec`: deltas 1..15 take the short form.
  - `UuidIsSixteenRawBytes`: a compact Uuid is 16 raw bytes.
  - `EncoderNeverPanics`: any i16 field ids are legal.

## Runs

Bounds are named constants:
- `MaxMessages` (messages per connection);
- `MaxFields` (fields per struct);
- `MaxNesting` (struct depth);
- the value sets per type;
- the limits of the decoder's configuration.

| Run | Question | Bounds |
|---|---|---|
| `compact_structs` | Do field headers of nested structs round-trip: short and long form, the i16 wrap of the delta in a release build, Bool fields, and the id stack on both sides? | ids {-32768, 1, 32767}, Bool and Struct fields, 2 fields, 2 levels |
| `compact_values` | Does every scalar and collection encoding round-trip: nibble counts 0, 2 and 14, count 15 in a varint, Bool elements, the empty map? Are strings, Uuids and containers refused exactly at the limits, and is no buffer allocated beyond `max_string_size`? | 9 field types, 1 field; strings of 0, 3 and 17 bytes and a 16-byte Uuid against `max_string_size` 16; sizes {0, 2, 14, 15, 16} against `max_container_size` 15 and `max_message_size` 28 (a map of 14 one-byte pairs is 28) |
| `compact_session` | Two messages (Call, OneWay, sequence number -1) against `max_recursion_depth` 2 and depth 3: is exactly the third struct refused, and does the second message start clean? | 2 messages, 3 levels |
| `binary_values` | Does every strict binary value round-trip at its extremes, and are negative, oversized and over-budget collection sizes rejected exactly? | `max_container_size` 2 and `max_message_size` 8 against sizes {-1, 1, 2, 3} of i32 and string items (4 bytes each, 8 a map entry), sequence numbers MinI32 and MaxI32 |
| `binary_session` | Two messages in all four strict-flag combinations under depth and string limits: do both envelopes round-trip, and is an unversioned one refused by a strict decoder? | depth 2, string size 3, 2 messages, 3 levels |
| `unit_tests` | Does the model pass every unit test of both files? Where, on forged input, does a debug compact decoder abort, and does it ever return a value an encoder refuses? | the tests' own values; 11111 forged streams: 0 to 4 of 10 fragments (id 32767 in the long form, an I32 field, a Bool field and a struct field one id on, a stop byte, a list of 2 Bool, the byte 0xFF, a string field holding `C3 A9` and one holding a lone `C3`, a map field whose size varint decodes to -1), `max_recursion_depth` 2 |
| `compact_short_form` (violation) | Is delta 15 one byte? | ids {0, 14, 15} |
| `compact_uuid` (violation) | Is a Uuid 16 raw bytes? | one Uuid |
| `compact_overflow` (violation) | Does a debug build survive field -1 then field 32767? | ids {-1, 32767} |
| `compact_negative_size` (violation) | Is a list declared with size -2 rejected? | size -2 |
| `binary_name_alloc` (violation) | Does a non-strict decoder check the name length before allocating? | `max_string_size` 2, name of 3 bytes |
| `binary_stop_with_id` (violation) | Does `write_field_begin(Stop, Some(5))` keep the stream aligned? | 2 messages |

Why these bounds are enough:
- Each field-id case needs at most two consecutive fields, and each
  nesting case needs two levels.
- Each limit needs one value below it, one at it and one above it.
- The varint and nibble boundaries are hit by the chosen values:
  - 14/15 for counts;
  - 1/14/15 for deltas;
  - 32767/-32768 for wrap;
  - MinI32, -1 and MaxI32 for five-byte varints and big-endian extremes.
- A second message on the same protocol object exposes state carried
  between messages.
- Four forged fragments reach every case of the field-id overflow: the id
  32767 followed by each kind of field header (overflow), by a stop, or
  inside a nested struct whose end restores the outer id (no overflow);
  and the other failures of forged input: a third nested struct past the
  depth limit, a Bool element byte that is not 0, 1 or 2, an invalid
  type nibble with delta 15 (0xFF), a stream that ends early, a string
  that is not UTF-8 and a map whose size varint decodes to -1.

Every property of a passing run has a mutant in `PROJECT.json`: a plausible
bug, written as a variant of the mapped definition. TLC finds that property
violated when the variant replaces the definition.

## Fairness

`Spec` of each round-trip module assumes weak fairness of the writer and of
the reader.
- The writer application keeps calling the encoder until its messages are
  written.
- The server keeps reading while its connection delivers bytes.
- A reader blocked on bytes that will never come is not enabled. Once the
  writer is done or has panicked, end of stream turns a blocked read into a
  Transport error.

The unit-test and forged-input harnesses check invariants and an action
property and assume no fairness; deadlock checking shows that every
forged stream is read to its end, an error or an abort.

Weak fairness makes TLC evaluate `ENABLED Reader` in every state. So each
read action binds a parse that later parses depend on, with a one-element
`\E`:
- the four header bytes and the name in binary `ReadMessageBegin`;
- the sequence-number varint in compact `ReadMessageBegin`;
- the buffer in `IsUtf8`.

Each bound value is exactly the one the code reads, so the meaning does not
change. The binding keeps TLC from parsing the same bytes again and again.

## Findings

1. **Field delta 15 takes the long form.** `write_field_header`
   (compact.rs:465) uses the short form only for `delta < 15`, so delta 15
   takes the long form. spec.md 4.4 says 1..15. Both forms decode, but the
   bytes differ from a peer that follows the spec.
2. **A compact Uuid carries a length prefix.** `write_uuid`/`read_uuid`
   (compact.rs:623-625, 303-305) use `write_bytes`/`read_bytes`: a varint
   length 16 before the 16 bytes. spec.md 4.4 says 16 raw bytes.
3. **The field-id subtraction can panic.** `field_id - last_write_field_id`
   (compact.rs:464) overflows i16 for legal ids. With overflow checks (debug
   builds) the encoder panics. In release it wraps, and the decoder's
   wrapping addition undoes it (`compact_structs` shows that round trip).
4. **A negative compact list size is not rejected.** `write_list_set_begin`
   (compact.rs:481) puts any count below 15, negative ones included, in the
   header nibble. Size -2 is read back as 14. spec.md section 8 says a
   negative size is rejected with NegativeSize.
5. **The non-strict envelope allocates before checking.** A non-strict
   `read_message_begin` (binary.rs:140) allocates `vec![0; name_size]` from
   the wire length with no check against `max_string_size`. spec.md
   section 5 says every wire size is validated before allocation.
6. **A stop field with an id misaligns the stream.**
   `write_field_begin(Stop, Some(id))` (binary.rs:424) writes three bytes.
   The decoder reads a Stop as one byte, and the next message then fails
   with BadVersion.
7. **Forged input makes a debug decoder abort.** `read_field_begin`
   (compact.rs:220) adds the wire's delta to `last_read_field_id` in i16.
   A long-form id 32767 followed by a short-form header (body bytes
   `5 254 255 3 0 17`) overflows: a debug build, the one `cargo test`
   uses, panics, and a release build returns the id -32768. spec.md
   section 7 lets only the encoder's contract violations abort. The
   `unit_tests` run shows it with `FieldIdOverflowAborts` passing, and
   `PanicsOnlyOnFieldIdOverflow` shows it is the only abort forged input
   reaches.

## Not modelled

- **Message-size tracking.** `check_container_size` is outside `src/`
  and is modelled from spec.md 4.2. The budget it compares against is
  `max_message_size` itself, because the codecs do no tracking of the bytes
  consumed (the TODO at compact.rs:130). `max_frame_size` is read only by
  framed transports.
- **`len as i32` in binary `write_bytes`** at 2^31 bytes or more: it needs a
  2 GiB string.
- **A caller that keeps using a decoder after an error** (for example the
  pending Bool `read_field_begin` leaves set when its id read fails,
  compact.rs:201). The model's readers stop at the first error, as
  generated code propagates it.
- **Forged input to the binary decoder**, whose reads check every wire
  size and type byte the way the compact ones do; and forged message
  headers, which the limit runs cover.
- **`io::Seek`** of the decoder, which is a pass-through.
- **The protocol factories**, which only call `new`.
- **String contents beyond validity.** The round-trip models' names and
  strings are short valid byte sequences; only forged input carries
  invalid UTF-8, which is where it can come from.
- **i64 values beyond the i32 range.** TLC integers are 32-bit, and these
  values take the same code path with more varint bytes.
  `must_round_trip_upto_i64_maxvalue` is replayed for i in 0..31 of its
  0..63.
