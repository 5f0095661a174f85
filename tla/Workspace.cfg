SPECIFICATION WorkspaceSpec
CONSTANTS
  Threshold = 4
  MinUnsummarized = 2
  RecentReserve = 2
  ChunkTurns = 1
  ReducePartials = 9
  RecentLimit = 4
  Stated = {"zh", "en"}
  NoValue = NoValue
  MaxMessages = 7
  MaxStatements = 2
  MaxParked = 1
  MaxFailures = 1
  HardLimit = 9
  Watermark = 6
  RawReserve = 3
  ToolLimit = 2
  SummarySize = 1
  Sizes = {1, 3}
  MaxHistory = 3
  MaxLog = 13
  CodeFile = {"caller", "lib", "twin"}
  NoFile = "none"
  Caller = "caller"
  Library = "lib"
  Scopes = {{"caller", "lib", "twin"}, {"lib"}}
  OldIndexes = {{}}
  FirstFiles = {"caller", "lib"}
  MaxEdits = 2
  MaxIndexCrashes = 1
  Shell = "shell"
  Background = {"child", "other"}
  Ignoring = {{}, {"shell"}, {"child"}}
  MaxCancels = 2
  ReadLimit = 1
  TurnLimit = 2
  MaxCalls = 2
  MaxRequests = 2
  GivenId = {"a", "b", "task_1"}
  Named <- NewNames
  MaxNodes = 3
  BadCase = {"b1", "b2"}
  Dataset = {"d1", "d2"}
  Process = {"cli"}
  NoCase = NoCase
  OneAtATime = TRUE
  MaxCommands = 9
  MaxActivities = 3
  MaxEnds = 2
  MaxControls = 1
INVARIANTS
  MemoryFollowsTheThread
  ContextIsWhole
  IndexIsCurrent
  BatchIsSound
  PlansAreReadRightly
  TraceFollowsTheRun
PROPERTIES
  CommandsAreCleanedUp
  CasesAreKept
CHECK_DEADLOCK FALSE
