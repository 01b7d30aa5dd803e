SPECIFICATION Spec
CONSTANTS
  plugin = plugin
  helper = helper
  Plugin <- plugin
  Helpers <- OneHelper
  EventCap = 1
  StderrCap = 1
  RetainMax = 2
  PipeCap = 1
  MaxLines = 2
  OutKinds <- AllOutKinds
  ErrKinds <- AllErrKinds
  HasDeadline = TRUE
INVARIANTS CompleteOnClose EventsInOrder NothingLeftBehind SummaryKeepsPrefix
CHECK_DEADLOCK FALSE
