SPECIFICATION Spec
CONSTANTS
  Calls = 1
  Unsafe = {1}
  Policy <- Single
  MaxAttempts = 2
  MaxFence = 3
  MaxControls = 1
INVARIANTS
  RepeatNeedsDecision
CHECK_DEADLOCK FALSE
