CONSTANTS
  Requests <- AllRequests
  NameOf <- FileName
  Names <- AllNames
  Rank <- EarlyRank
SPECIFICATION Spec
INVARIANT Published
