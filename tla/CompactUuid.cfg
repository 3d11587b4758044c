\* spec.md 4.4 against write_uuid: a Uuid field.
CONSTANTS
  OverflowChecks = FALSE
  MaxRecursionDepth = NoLimit
  MaxStringSize = NoLimit
  MaxContainerSize = NoLimit
  MaxMessageSize = NoLimit
  NoLimit = NoLimit
  None = None
  Names <- MCNames
  Kinds = {1}
  Seqs = {1}
  FieldIds = {1}
  FieldTypes = {"Uuid"}
  ValuesOf <- MCValuesOf
  ElemTypes = {"I32"}
  ElemValuesOf <- MCElemValuesOf
  ListSizes = {0}
  MaxMessages = 1
  MaxFields = 1
  MaxNesting = 1
SPECIFICATION Spec
PROPERTIES
  UuidIsSixteenRawBytes
