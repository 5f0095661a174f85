INIT MemoryInit
NEXT MemoryNext
CONSTANTS
  Threshold = 6
  MinUnsummarized = 2
  RecentReserve = 2
  ChunkTurns = 1
  ReducePartials = 1
  RecentLimit = 4
  Stated = {"zh"}
  NoValue = NoValue
  MaxMessages = 7
  MaxStatements = 0
  MaxParked = 1
  MaxFailures = 0
INVARIANTS
  SummaryCoversItsRange
CHECK_DEADLOCK FALSE
