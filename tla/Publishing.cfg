SPECIFICATION Spec
CONSTANTS
  Templates <- MCTemplates
  Binaries = {"b1", "b2", "b3"}
  TooBig = {"b3"}
  KeyIds = {"k1"}
  Arguments <- MCArguments
  FileNames = {"calc"}
  Consents <- MCConsents
  Trusted <- MCTrusted
  Blocked <- MCBlocked
  AliasTables <- MCAliasTables
  Files <- MCFiles
  NumberOf <- MCNumberOf
  Platforms = {"linux", "mac"}
  Here = "linux"
  MaxKeys = 2
  MaxPackages = 2
  MaxInstalls = 2
INVARIANTS
  OnlySignedRuns
  PackedInstalls
  RevocationHolds
  OwnParams
