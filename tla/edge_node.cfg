\* Both window builders with a moving clock, interrupts, kills and a restart.
SPECIFICATION FairSpec
CONSTANTS
  NoFlow = NoFlow
  FlowIds = {f1}
  IdleFlush = 1
  SmallWindow = 2
  LargeWindow = 3
  OverrideSpan = 3
  Cooldown = 2
  Tiers = {heavy, lite}
  AttackLabels = {"Mirai"}
  OverrideLabels = {"Mirai"}
  StartTime = 2
  MaxTime = 3
  MaxPackets = 7
  MaxLives = 2
INVARIANTS Accounting OverrideFromLatest OpenWindowsAreYoung
PROPERTIES CleanShutdownReports PartialsHaveNoEffect
CHECK_DEADLOCK FALSE
