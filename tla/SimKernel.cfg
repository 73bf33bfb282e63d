SPECIFICATION FairSpec
CONSTANTS
  n1 = n1
  n2 = n2
  Nodes = {n1, n2}
  NoNode = NoNode
  MaxTime = 3
  SliceCap = 2
  MinAdvance = 2
  WakeDelay = 1
  GenWrap = 3
  Starts = {2}
  Durations = {0, 2}
  Horizons = {1}
  StepCounts = {1, 2}
  Setups <- MCSetups
  Budget = 2
INVARIANTS
  NoLostWakeup
  StopsExactly
  ActionsInOrder
PROPERTIES
  RunProgresses
