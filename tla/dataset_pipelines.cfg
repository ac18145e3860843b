\* Small frames with repeated, broken and multi-class rows, every seeded draw.
SPECIFICATION Spec
CONSTANTS
  Class <- MCClass
  Family <- MCFamily
  Key <- MCKey
  File <- MCFile
  Files <- MCFiles
  Samples <- MCSamples
  Broken = {5}
  TestDen = 4
  ValDen = 3
  Native10 = {"Benign"}
  GroupSize = 2
  MaxGroups = 1
  MinPerClass = 1
  MaxEvalRows = {1, 3}
  None = None
INVARIANTS
  FittedApart
  SameTestRows
  TwinsExplained
  FilesCrossOnlyWhenMixed

CHECK_DEADLOCK FALSE
