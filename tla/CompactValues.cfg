\* Every value encoding: i8 as one raw byte, i16 and i64 as zig-zag
\* varints, doubles as eight raw bytes, strings (the empty one included)
\* with a raw varint length, a Uuid; lists and sets with their count in
\* the header nibble (0, 2, 14) or a following varint (15), Bool elements
\* as 0x01/0x02, maps with the key and value nibbles in one byte after
\* their size and the single 0x00 byte of an empty map.  The decoder's
\* limits sit at the edges the values reach: max_string_size 16 admits
\* the 16 bytes of a Uuid and refuses a 17-byte string, and
\* max_container_size 15 admits the varint count 15 and refuses 16.
CONSTANTS
  OverflowChecks = FALSE
  MaxRecursionDepth = NoLimit
  MaxStringSize = 16
  MaxContainerSize = 15
  MaxMessageSize = 28
  NoLimit = NoLimit
  None = None
  Names <- MCNames
  Kinds = {1}
  Seqs = {1}
  FieldIds = {1}
  FieldTypes = {"I08", "I16", "I64", "Double", "String", "Uuid", "List", "Set", "Map"}
  ValuesOf <- MCValuesOf
  ElemTypes = {"Bool", "I32", "String"}
  ElemValuesOf <- MCElemValuesOf
  ListSizes = {0, 2, 14, 15, 16}
  MaxMessages = 1
  MaxFields = 1
  MaxNesting = 1
SPECIFICATION Spec
INVARIANTS
  TypeOK
  DecoderRejectsExactlyOverLimits
  AllocationChecked
PROPERTIES
  RoundTrip
  AllDelivered
