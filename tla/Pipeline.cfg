SPECIFICATION FairSpec
CONSTANTS
  Files <- ProjectFiles
  Main <- ProjectMain
  Configs <- Trees
  Ticks = {1}
  Ends <- AllEnds
  MayMiss = TRUE
  MayNotLoad = TRUE
  Modes <- BothModes
INVARIANTS
  ExitTellsFailure
  IncludesComeFirst
  ResultIsHonest
  IncludeFindsItsFile
  OwnSnapshotOfOwnStem
  NoTempLeft
  QuietAfterReturn
PROPERTIES
  StopHalts
  Terminates
