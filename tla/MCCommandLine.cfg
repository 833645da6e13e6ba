CONSTANTS
  KeyOrder <- MCKeyOrder
  AttributeOf <- MCAttributeOf
  TokenOf <- MCTokenOf
  Values <- MCValues
  Environment <- MCEnvironment
  Profile <- MCProfile
  Lists = {"Language"}
  CommandLines <- MCCommandLines
  Words <- MCWords
  Within <- MCWithin
  Places = {".", "proj", "out", "v1.0"}
  Dotted = {"v1.0"}
  Disks <- MCDisks
  Manifest <- MCManifest
  Others <- MCOthers
SPECIFICATION Spec
INVARIANTS AsksFirst DefaultsComeBack GivenIsUsed
CHECK_DEADLOCK FALSE
