\* The results file of a script that is killed while it rewrites it.
SPECIFICATION Spec
CONSTANTS
  Class <- MCClass
  Family <- MCFamily
  Key <- MCKey
  File <- MCFile
  Files <- MCFiles
  Samples <- MCSamples
  Broken = {5}
  TestDen = 4
  ValDen = 3
  Native10 = {"Benign"}
  GroupSize = 2
  MaxGroups = 1
  MinPerClass = 1
  MaxEvalRows = {1, 3}
  None = None
INVARIANTS NoResultsLost
CHECK_DEADLOCK FALSE
