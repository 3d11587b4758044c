\* Two messages on one connection, for all four combinations of the
\* encoder's and the decoder's strict flags: versioned and unversioned
\* envelopes with kinds Call and OneWay and extreme sequence numbers; on
\* the decoder max_recursion_depth 2 and max_string_size 3 against structs
\* nested three deep and strings of 0 and 4 bytes.
CONSTANTS
  WriterModes = {TRUE, FALSE}
  ReaderModes = {TRUE, FALSE}
  OverflowChecks = TRUE
  MaxRecursionDepth = 2
  MaxStringSize = 3
  MaxContainerSize = NoLimit
  MaxMessageSize = NoLimit
  Kinds = {1, 4}
  Seqs = {2147483647}
  FieldIds = {1}
  FieldTypes = {"Struct", "String"}
  ElemTypes = {"I32"}
  ListSizes = {0}
  StopIds = {}
  MaxMessages = 2
  MaxFields = 1
  MaxNesting = 3
  NoLimit = NoLimit
  None = None
  Names <- MCNames
  ValuesOf <- MCValuesOf
  ElemValuesOf <- MCElemValuesOf
SPECIFICATION Spec
INVARIANTS
  DecoderRejectsExactlyOverLimits
  AllocationChecked
PROPERTIES
  RoundTrip
  AllDelivered
