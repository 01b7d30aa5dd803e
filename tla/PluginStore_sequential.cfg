SPECIFICATION Spec
CONSTANTS
  Processes = {p1}
  Commands = {"install", "uninstall", "verify", "run"}
  Packages <- TwoBuilds
  Consents <- DeveloperMode
  Length <- OneChunk
  MayFail = TRUE
  MayDamage = TRUE
INVARIANTS
  InstalledIsWhole
  UninstallForgets
  OneCapabilitySet
  CondemnedNeverRuns
  FalseHasACause
