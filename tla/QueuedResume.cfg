SPECIFICATION RuntimeSpec
CONSTANTS
  p = p
  c = c
  Run = {p}
  Worker = {w1, w2}
  NoRun = NoRun
  NoWorker = NoWorker
  Parent <- Leaf
  Timed = {}
  MaxQueued = 2
  MaxActive = 1
  MaxDelivery = 2
  LeaseTicks = 2
  MaxSequence = 40
  MaxFence = 4
  MaxTurns = 1
  MaxFaults = 0
  MaxControls = 2
SYMMETRY Symmetric
INVARIANTS
  RunningRunIsSchedulable
CHECK_DEADLOCK FALSE
