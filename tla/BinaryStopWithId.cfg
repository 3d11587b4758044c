\* A struct ended by write_field_begin(Stop, Some(5)) instead of
\* write_field_stop, then a second message on the same connection.
CONSTANTS
  WriterModes = {TRUE}
  ReaderModes = {TRUE}
  OverflowChecks = TRUE
  MaxRecursionDepth = NoLimit
  MaxStringSize = NoLimit
  MaxContainerSize = NoLimit
  MaxMessageSize = NoLimit
  NoLimit = NoLimit
  None = None
  Names <- MCNames
  Kinds = {1}
  Seqs = {1}
  FieldIds = {1}
  FieldTypes = {"I32"}
  ValuesOf <- MCValuesOf
  ElemTypes = {"I32"}
  ElemValuesOf <- MCElemValuesOf
  ListSizes = {0}
  StopIds = {5}
  MaxMessages = 2
  MaxFields = 0
  MaxNesting = 1
SPECIFICATION Spec
INVARIANT
  DecoderRejectsExactlyOverLimits
