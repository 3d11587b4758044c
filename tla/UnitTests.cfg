CONSTANTS
  None = None
  NoLimit = NoLimit
SPECIFICATION Spec
INVARIANTS
  BinaryTestsPass
  CompactTestsPass
  PanicsOnlyOnFieldIdOverflow
  ReturnsOnlyEncodableValues
PROPERTIES
  FieldIdOverflowAborts
