\* Two training runs with failed exports and kills, copied at any point.
SPECIFICATION Spec
CONSTANTS
  Stages <- MCStages
  MaxRuns = 2
  MaxFails = 1
  RequireModels = FALSE
INVARIANTS
  SessionsAreOneRun
  ScalersMatchModels
  CleanRunsServe
CHECK_DEADLOCK FALSE
