SPECIFICATION Spec
CONSTANTS
  Processes = {p1, p2}
  NoSalt = NoSalt
  Week = 1
  WarnAge = 0
  LastDay = 2
  MaxCommands = 3
  MaxTurns = 1
SYMMETRY ProcessSymmetry
INVARIANTS
  SavedIsLoaded
PROPERTIES
  GraceHasACause
  MaxNeverDecreases
  OfflineKeepsWorking
