\* Two writers and the command line, one kill, one failed write and one power loss,
\* all starting without a key file.
SPECIFICATION FairSpec
CONSTANTS
  Writers = {w1, w2}
  Tools = {t1}
  NoProc = noproc
  CustodyFsync = TRUE
  AnchorEvery = 2
  KeyAtStart = FALSE
  MaxEntries = 3
  MaxAnchors = 1
  MaxKills = 1
  MaxTears = 1
  MaxLosses = 1
INVARIANTS
  Chained
  OneKey
  AnchorCadence
  AnchorsMatch
  DamageIsBounded
PROPERTIES
  ImplementsLog
  PreserveReturns
CHECK_DEADLOCK FALSE
