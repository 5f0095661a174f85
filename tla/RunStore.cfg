SPECIFICATION Spec
CONSTANTS
  p = p
  c = c
  Run = {p, c}
  Worker = {w1, w2}
  NoRun = NoRun
  NoWorker = NoWorker
  Parent <- Tree
  Timed = {p}
  MaxQueued = 2
  MaxActive = 2
  MaxDelivery = 2
  LeaseTicks = 1
  MaxSequence = 3
  MaxFence = 4
SYMMETRY Symmetric
INVARIANTS
  StoreSafety
PROPERTIES
  OutcomeIsFinal
  LostAuthorityStaysLost
  LeasedRunSpec
CHECK_DEADLOCK FALSE
