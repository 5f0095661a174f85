SPECIFICATION IndexSpec
CONSTANTS
  NoFile = "none"
  CodeFile = {"caller", "lib", "twin"}
  Scopes = {{"caller", "lib", "twin"}}
  Caller = "caller"
  Library = "lib"
  FirstFiles = {"caller", "lib"}
  OldIndexes = {{"caller", "lib"}}
  MaxEdits = 1
  MaxIndexCrashes = 0
INVARIANT SymbolsAreBackfilled
