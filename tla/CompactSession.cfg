\* Two messages on one connection, kinds Call and OneWay, with a
\* negative sequence number (a five-byte raw varint), against
\* max_recursion_depth = 2 and structs nested three deep: the decoder
\* refuses exactly the third read_struct_begin, and the second message,
\* read by the same protocol object, starts from the depth and field-id
\* state the first left.
CONSTANTS
  OverflowChecks = FALSE
  MaxRecursionDepth = 2
  MaxStringSize = NoLimit
  MaxContainerSize = NoLimit
  MaxMessageSize = NoLimit
  NoLimit = NoLimit
  None = None
  Names <- MCNames
  Kinds = {1, 4}
  Seqs <- MCNegativeSeq
  FieldIds = {1}
  FieldTypes = {"Bool", "Struct"}
  ValuesOf <- MCValuesOf
  ElemTypes = {"I32"}
  ElemValuesOf <- MCElemValuesOf
  ListSizes = {0}
  MaxMessages = 2
  MaxFields = 1
  MaxNesting = 3
SPECIFICATION Spec
INVARIANTS
  DecoderRejectsExactlyOverLimits
PROPERTIES
  RoundTrip
  AllDelivered
