SPECIFICATION FairSpec
CONSTANTS
  NoPath = NoPath
  Paths <- FaultPaths
  FS <- FaultFS
  Configurations <- FaultConfigurations
  MayFail = TRUE
INVARIANTS
  TypeOK
  OwnedOnce
  PassIsAtomic
  NoLeftovers
