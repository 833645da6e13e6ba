CONSTANTS
  Pris <- MCPris
  Children <- MCChildren
  NameOf <- MCNameOf
  Items <- MCItems
  Within <- MCWithin
  OptionSets <- MCOptionSets
  Platforms = {"windows", "portable"}
  Invalid <- MCInvalid
  NotAllowed <- MCNotAllowed
  Emissions <- MCEmissions
SPECIFICATION Spec
INVARIANTS ReadsBack OmitsOnlyTheEmpty Accepted
CHECK_DEADLOCK FALSE
