CONSTANTS
  Requests <- AllRequests
  NameOf <- FileName
  Names <- AllNames
  Rank <- PlainRank
SPECIFICATION Spec
INVARIANT AbortIsFinal
