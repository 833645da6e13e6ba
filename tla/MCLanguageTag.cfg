CONSTANTS
  Subtag <- Subtags
  Form <- FormOf
  MaximumTagLength = 20
  Table <- Tables
  Tags <- AllTags
  Requests <- SomeRequests
  Lists <- SomeLists
SPECIFICATION Spec
INVARIANTS TypeOK FieldsTileTheTag AcceptsTheGrammar FormatKeepsLanguage FindsTheClosest OrderIsTotal GoesToItsPackage
CHECK_DEADLOCK FALSE
