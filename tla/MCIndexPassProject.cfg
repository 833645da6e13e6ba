SPECIFICATION FairSpec
CONSTANTS
  NoPath = NoPath
  Paths <- ProjectPaths
  FS <- ProjectFS
  Configurations <- ProjectConfigurations
  MayFail = TRUE
INVARIANTS
  IndexIsTheProject
PROPERTIES
  Terminates
