\* Three jobs, the third a second replay of the first, over a tunnel that loses,
\* repeats and reorders, with a failing send, expiry at both levels and a restart.
SPECIFICATION Spec
CONSTANTS
  f1 = f1
  f2 = f2
  t1 = t1
  Flows = {f1, f2}
  Trains = {t1}
  NoTrain = notrain
  Pcap <- Fragments
  Jobs <- FirstAgain
  EnvelopeTimeout = 0
  FragmentTimeout = 0
  FlushEvery = 2
  MaxTime = 1
  MaxLosses = 1
  MaxDups = 1
  MaxErrors = 1
  MaxStops = 1
INVARIANTS PayloadIntact RecallIsHonest FunnelBalance
CHECK_DEADLOCK FALSE
