SPECIFICATION RuntimeSpec
CONSTANTS
  p = p
  c = c
  Run = {p, c}
  Worker = {w1, w2}
  NoRun = NoRun
  NoWorker = NoWorker
  Parent <- Tree
  Timed = {p}
  MaxQueued = 2
  MaxActive = 2
  MaxDelivery = 2
  LeaseTicks = 2
  MaxSequence = 40
  MaxFence = 4
  MaxTurns = 1
  MaxFaults = 1
  MaxControls = 0
SYMMETRY Symmetric
INVARIANTS
  ExecutionIsExclusive
  RunningRunIsSchedulable
  ParentCompletesLast
CHECK_DEADLOCK FALSE
