CONSTANTS
  M = M
  F = F
  P1 = P1
  P2 = P2
  Main = M
  Fat = F
  Packs <- TwoPacks
  Options <- AllOptions
SPECIFICATION Spec
INVARIANTS TypeOK NeverMisused NoFileUnlessBuilt ReverseMapComplete
PROPERTY KeepsPromise
