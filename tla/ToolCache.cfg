SPECIFICATION Spec
CONSTANTS
  Processes = {"p1", "p2"}
  Artifacts = {"long", "short"}
  Chunks <- MCChunks
  Indexes <- MCIndexes
  MaxCommands = 4
INVARIANTS
  CachedIsVerified
  CacheEndsWhole
  PinnedIsWhole
