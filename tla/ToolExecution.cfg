SPECIFICATION Spec
CONSTANTS
  Calls = 2
  Unsafe = {2}
  Policy <- Mixed
  MaxAttempts = 2
  MaxFence = 3
  MaxControls = 4
INVARIANTS
  AttemptsAreAccounted
  TranscriptMatchesRecord
  UnsafeRunsOnceUnasked
PROPERTIES
  SuccessIsFinal
  RejectedIsNotStarted
CHECK_DEADLOCK FALSE
