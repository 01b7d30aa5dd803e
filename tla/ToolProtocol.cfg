SPECIFICATION Spec
CONSTANTS
  Limit = 2
  PipeCap = 2
  MaxBytes = 4
INVARIANTS
  AnswerIsWhole
  LimitDecides
  NothingLeft
PROPERTIES
  Returns
