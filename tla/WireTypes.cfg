SPECIFICATION Spec
CONSTANTS
  Structs <- FrozenStructs
  Closed <- ClosedStructs
  Variants <- PathRef
  Folding <- FoldingEnums
  Strict <- EnvelopeClass
  Lines <- MCLines
  MaxEdits = 2
  MaxHops = 2
INVARIANTS
  NewsSurvives
PROPERTIES
  Stable
