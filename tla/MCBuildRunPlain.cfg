CONSTANTS
  Requests <- AllRequests
  NameOf <- FileName
  Names <- AllNames
  Rank <- PlainRank
SPECIFICATION Spec
INVARIANTS TypeOK Published AsksFirst OutputUntouched NoFileLost
