\* spec.md 8 against write_list_set_begin: a list declared with size -2.
CONSTANTS
  OverflowChecks = FALSE
  MaxRecursionDepth = NoLimit
  MaxStringSize = NoLimit
  MaxContainerSize = NoLimit
  MaxMessageSize = NoLimit
  NoLimit = NoLimit
  None = None
  Names <- MCNames
  Kinds = {1}
  Seqs = {1}
  FieldIds = {1}
  FieldTypes = {"List"}
  ValuesOf <- MCValuesOf
  ElemTypes = {"I32"}
  ElemValuesOf <- MCElemValuesOf
  ListSizes <- MCNegativeSizes
  MaxMessages = 1
  MaxFields = 1
  MaxNesting = 1
SPECIFICATION Spec
PROPERTIES
  RoundTrip
