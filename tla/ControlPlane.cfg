SPECIFICATION Spec
CONSTANTS
  Turn = "turn"
  Request = {"first", "again", "resume", "cancel", "pause"}
  Ask <- Mixed
  Key = {"a", "c", "d", "e"}
  MaxAsked = 2
  MaxSequence = 2
  MaxCrashes = 1
INVARIANTS
  LocksExclude
  DecisionWasAskedFor
  AnswerStaysTrue
CHECK_DEADLOCK FALSE
