CONSTANTS
  Qualifiers <- AllQualifiers
  NameOf <- QualifierName
  Priority <- BuildPriority
  Segments <- AllSegments
  Default = "default"
  Other = "other"
  Length <- SegmentLength
  MaxIdLength = 10
  Configurations <- AllConfigurations
  Projects <- ShortProjects
SPECIFICATION Spec
INVARIANTS TypeOK EntryOnce EntriesAreHome ReportsItsEntries CompressionFits
