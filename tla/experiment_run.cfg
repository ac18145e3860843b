\* start.sh, the runner, the edge node and the readers of the logs they share.
SPECIFICATION FairSpec
CONSTANTS
  Pcaps = {"A", "B"}
  Manifests <- SmallManifests
  SmallWindow = 2
  LargeWindow = 3
  Settle = 2
  MaxSettle = 5
  EdgeRate = 1
  MaxTrouble = 2
INVARIANTS
  ShowsTheRunningJob
  RecallIsExplained
  SettledIsComplete
  ArchiveHasTheJobs
PROPERTIES
  ExperimentEnds
CHECK_DEADLOCK FALSE
