\* A debug build (overflow checks on) writing field -1 then field 32767.
CONSTANTS
  OverflowChecks = TRUE
  MaxRecursionDepth = NoLimit
  MaxStringSize = NoLimit
  MaxContainerSize = NoLimit
  MaxMessageSize = NoLimit
  NoLimit = NoLimit
  None = None
  Names <- MCNames
  Kinds = {1}
  Seqs = {1}
  FieldIds <- MCOverflowIds
  FieldTypes = {"I32"}
  ValuesOf <- MCValuesOf
  ElemTypes = {"I32"}
  ElemValuesOf <- MCElemValuesOf
  ListSizes = {0}
  MaxMessages = 1
  MaxFields = 2
  MaxNesting = 1
SPECIFICATION Spec
INVARIANTS
  EncoderNeverPanics
