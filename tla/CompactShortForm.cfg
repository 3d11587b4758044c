\* spec.md 4.4 against write_field_header: field ids 14 and 15 after 0.
CONSTANTS
  OverflowChecks = FALSE
  MaxRecursionDepth = NoLimit
  MaxStringSize = NoLimit
  MaxContainerSize = NoLimit
  MaxMessageSize = NoLimit
  NoLimit = NoLimit
  None = None
  Names <- MCNames
  Kinds = {1}
  Seqs = {1}
  FieldIds <- MCDeltaIds
  FieldTypes = {"I32"}
  ValuesOf <- MCValuesOf
  ElemTypes = {"I32"}
  ElemValuesOf <- MCElemValuesOf
  ListSizes = {0}
  MaxMessages = 1
  MaxFields = 1
  MaxNesting = 1
SPECIFICATION Spec
PROPERTIES
  ShortFormPerSpec
