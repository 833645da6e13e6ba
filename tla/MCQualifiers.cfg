CONSTANTS
  KeyOrder <- MCKeyOrder
  AttributeOf <- MCAttributeOf
  TokenOf <- MCTokenOf
  Values <- MCValues
  LanguageTags = {"en", "fr", "images"}
  Environment <- MCEnvironment
  Evaluate <- MCEvaluate
  Tree <- MCTree
  Names <- MCNames
  Unspeakable = {"a*"}
  DotEnded = {"a."}
  MaximumPath = 20
  Configurations <- MCConfigurations
SPECIFICATION Spec
INVARIANTS TypeOK NothingIsLost ScoredByTheDefault AllowedOnly ExcludedStaysOut
CHECK_DEADLOCK FALSE
