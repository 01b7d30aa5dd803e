SPECIFICATION Spec
CONSTANTS
  Processes = {p1, p2}
  Commands = {"install", "uninstall", "run"}
  Packages <- Refusable
  Consents <- NoFlags
  Length <- TwoChunks
  MayFail = TRUE
  MayDamage = FALSE
SYMMETRY ProcessSymmetry
INVARIANTS
  OnlyAcceptableRuns
  RowsAreRegistered
