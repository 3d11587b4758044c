\* Every value a strict message can carry, one field per struct, in
\* messages with the least and the greatest sequence number: each
\* scalar type at its extreme values; lists, sets and maps of i32 and
\* string items whose declared sizes are negative, within and above
\* max_container_size 2, and whose least serialized size (four bytes an
\* item, eight a map entry) is at or above max_message_size 8.  The stop
\* field is written both by write_field_stop and by write_field_begin(Stop)
\* without an id.
CONSTANTS
  WriterModes = {TRUE}
  ReaderModes = {TRUE}
  OverflowChecks = TRUE
  MaxRecursionDepth = NoLimit
  MaxStringSize = NoLimit
  MaxContainerSize = 2
  MaxMessageSize = 8
  Kinds = {1}
  Seqs <- MCSeqs
  FieldIds = {22}
  FieldTypes = {"Bool", "I08", "I16", "I32", "I64", "Double", "String", "Uuid", "List", "Set", "Map"}
  ElemTypes = {"I32", "String"}
  ListSizes <- MCListSizes
  StopIds = {None}
  MaxMessages = 1
  MaxFields = 1
  MaxNesting = 1
  NoLimit = NoLimit
  None = None
  Names <- MCNames
  ValuesOf <- MCValuesOf
  ElemValuesOf <- MCElemValuesOf
SPECIFICATION Spec
INVARIANTS
  TypeOK
  DecoderRejectsExactlyOverLimits
PROPERTIES
  RoundTrip
  AllDelivered
