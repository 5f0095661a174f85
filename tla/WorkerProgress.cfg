SPECIFICATION TimelySpec
CONSTANTS
  p = p
  c = c
  Run = {p, c}
  Worker = {w1, w2}
  NoRun = NoRun
  NoWorker = NoWorker
  Parent <- Tree
  Timed = {p}
  MaxQueued = 2
  MaxActive = 2
  MaxDelivery = 2
  LeaseTicks = 2
  MaxSequence = 40
  MaxFence = 4
  MaxTurns = 1
  MaxFaults = 2
  MaxControls = 0
PROPERTIES
  RunSettles
CHECK_DEADLOCK FALSE
