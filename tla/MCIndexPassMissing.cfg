SPECIFICATION FairSpec
CONSTANTS
  NoPath = NoPath
  Paths <- MissingPaths
  FS <- MissingFS
  Configurations <- MissingConfigurations
  MayFail = FALSE
INVARIANTS
  MissingNeverIndexed
