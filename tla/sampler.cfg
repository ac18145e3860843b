\* Every small capture, target and number of blocks, every draw of the starts.
SPECIFICATION SamplerSpec
CONSTANTS
  Sources <- SmallSources
  Targets = {1, 4, 9}
  BlockNumbers = {1, 2, 3}
  WindowSize = 2
  MaxPackets = 11
  MaxBlock = 5
INVARIANTS
  PlanFits
  SampleIsInOrder
  BoundaryLoss
CHECK_DEADLOCK FALSE
