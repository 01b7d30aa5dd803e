SPECIFICATION FairSpec
CONSTANTS
  plugin = plugin
  helper = helper
  Plugin <- plugin
  Helpers <- NoHelpers
  EventCap = 4
  StderrCap = 2
  RetainMax = 2
  PipeCap = 2
  MaxLines = 2
  OutKinds <- EventOrBad
  ErrKinds <- AllErrKinds
  HasDeadline = TRUE
PROPERTIES ReturnsOnceProcessesEnd DeadlineReported ImplementsContract
