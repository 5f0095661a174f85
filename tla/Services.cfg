SPECIFICATION ServicesSpec
CONSTANTS
  TaskCount = 1
  TaskWorker = {"w1", "w2"}
  Resumer = {"api"}
  MaxSaves = 2
  Submission = {"first", "again", "plain"}
  Wanted <- Requests
  NoKey = NoKey
  Claimer = {"c1", "c2"}
  MaxQueued = 1
  MaxActive = 2
  PrincipalActive = 1
  GlobalBurst = 3
  PrincipalBurst = 2
  MaxNow = 1
  MaxTurns = 3
  MaxAttempts = 3
  MaxCorrections = 1
  ToolCalls = 1
  MaxCrashes = 2
  MaxInterrupts = 1
  MaxIdentical = 3
  MaxErrors = 2
  MaxCycle = 2
  MaxStagnant = 4
  MaxRecovery = 1
  HistoryLimit = 8
  Action = {"a", "b"}
  Evidence = {"f"}
  BatchSize = 1
  Crashes = 1
  Emitter = {"worker", "server"}
  Executing = "worker"
  OneWriter = TRUE
  MaxEvents = 4
  MaxDrops = 1
  User = {"u1", "u2"}
  Arguments = {"x", "y"}
  MaxWrites = 2
  MaxStops = 1
INVARIANTS
  ProgressIsJudgedRightly
  ReportedWritesStand
PROPERTIES
  TasksAreSupervised
  AdmissionIsFair
  ReactIsDurable
  ClientsReadEverything
CHECK_DEADLOCK FALSE
