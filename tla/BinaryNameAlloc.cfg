\* A non-strict pair with max_string_size 2 and the 3-byte name "foo":
\* the decoder allocates the name's buffer from the length on the wire
\* without checking it.
CONSTANTS
  WriterModes = {FALSE}
  ReaderModes = {FALSE}
  OverflowChecks = TRUE
  MaxRecursionDepth = NoLimit
  MaxStringSize = 2
  MaxContainerSize = NoLimit
  MaxMessageSize = NoLimit
  NoLimit = NoLimit
  None = None
  Names <- MCNames
  Kinds = {1}
  Seqs = {1}
  FieldIds = {1}
  FieldTypes = {"I32"}
  ValuesOf <- MCValuesOf
  ElemTypes = {"I32"}
  ElemValuesOf <- MCElemValuesOf
  ListSizes = {0}
  StopIds = {}
  MaxMessages = 1
  MaxFields = 0
  MaxNesting = 1
SPECIFICATION Spec
INVARIANT
  AllocationChecked
