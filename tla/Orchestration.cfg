SPECIFICATION OrchestrationSpec
CONSTANTS
  Assignment = {"a", "b"}
  PlanOrder <- Assignments
  PlannerOutput <- Answers
  MaxRetries = 1
  Task = {"t", "u", "v"}
  TaskOrder <- TasksInPlan
  PlanOutput <- Plans
  MaxReplans = 1
  Child <- Children
  MaxParallel = 2
  MaxCrashes = 1
  MaxControls = 1
INVARIANTS
  AssignmentsAreSettled
  ChildrenAreSettled
PROPERTIES
  PlanIsFollowed
  ExecutionEnds
CHECK_DEADLOCK FALSE
