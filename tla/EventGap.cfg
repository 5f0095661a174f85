SPECIFICATION StreamSpec
CONSTANTS
  Emitter = {"worker", "api"}
  Executing = "worker"
  OneWriter = FALSE
  MaxEvents = 3
  MaxDrops = 0
INVARIANT StreamHasNoGap
CHECK_DEADLOCK FALSE
