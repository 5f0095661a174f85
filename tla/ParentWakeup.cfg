SPECIFICATION RuntimeSpec
CONSTANTS
  p = p
  c = c
  Run = {p, c}
  Worker = {w1, w2}
  NoRun = NoRun
  NoWorker = NoWorker
  Parent <- Tree
  Timed = {}
  MaxQueued = 2
  MaxActive = 2
  MaxDelivery = 2
  LeaseTicks = 1
  MaxSequence = 40
  MaxFence = 4
  MaxTurns = 1
  MaxFaults = 0
  MaxControls = 1
SYMMETRY Symmetric
INVARIANTS
  WaitingParentIsWoken
CHECK_DEADLOCK FALSE
