SPECIFICATION Spec
CONSTANTS
  Files <- HereFiles
  Main <- HereMain
  Configs <- Chain
  Ticks = {1}
  Ends <- Finish
  MayMiss = FALSE
  MayNotLoad = FALSE
  Modes <- PipelineMode
INVARIANTS
  IncludeFindsItsFile
