\* One struct with nested structs: short and long field headers, the i16
\* wrap of the delta (32767 then -32768 is delta 1 in a release build),
\* Bool fields carrying their value in the header, and the last field id
\* saved, reset and restored around each nested struct.
CONSTANTS
  OverflowChecks = FALSE
  MaxRecursionDepth = NoLimit
  MaxStringSize = NoLimit
  MaxContainerSize = NoLimit
  MaxMessageSize = NoLimit
  NoLimit = NoLimit
  None = None
  Names <- MCNames
  Kinds = {1}
  Seqs = {1}
  FieldIds <- MCWrapIds
  FieldTypes = {"Bool", "Struct"}
  ValuesOf <- MCValuesOf
  ElemTypes = {"I32"}
  ElemValuesOf <- MCElemValuesOf
  ListSizes = {0}
  MaxMessages = 1
  MaxFields = 2
  MaxNesting = 2
SPECIFICATION Spec
INVARIANTS
  DecoderMirrorsEncoder
  PendingBoolIffBoolHeader
PROPERTIES
  RoundTrip
  AllDelivered
