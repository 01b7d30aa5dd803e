SPECIFICATION FairSpec
CONSTANTS
  plugin = plugin
  helper = helper
  Plugin <- plugin
  Helpers <- NoHelpers
  EventCap = 1
  StderrCap = 1
  RetainMax = 2
  PipeCap = 2
  MaxLines = 3
  OutKinds <- EventOnly
  ErrKinds <- LineOnly
  HasDeadline = TRUE
PROPERTY DeadlineReported
CHECK_DEADLOCK FALSE
