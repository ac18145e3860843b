\* The acquisition step by step with failing layers and kills anywhere.
SPECIFICATION Spec
CONSTANTS
  Benign = Benign
  Labels = {Benign, Mirai}
  Cooldown = 2
  Anchoring = TRUE
  MaxWindows = 3
  MaxTime = 3
  MaxFaults = 1
  MaxKills = 1
INVARIANTS EntriesStand RowsNameEvidence LossesAreExplained BurstsGetEvidence
PROPERTIES ImplementsStore
CHECK_DEADLOCK FALSE
