\* A kill between the creation of the key file and its write.
SPECIFICATION Spec
CONSTANTS
  Writers = {w1}
  Tools = {t1}
  NoProc = noproc
  CustodyFsync = FALSE
  AnchorEvery = 0
  KeyAtStart = FALSE
  MaxEntries = 2
  MaxAnchors = 1
  MaxKills = 1
  MaxTears = 0
  MaxLosses = 0
INVARIANTS
  CreatedOnFirstUse
CHECK_DEADLOCK FALSE
