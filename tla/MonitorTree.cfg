SPECIFICATION Spec
CONSTANTS
  Names <- MCNames
  WatchName <- MCWatchName
  MaxDirs = 4
  MaxDepth = 3
  MaxOps = 5
  FileKinds = {}
  QueueCap = 10
  BatchCap = 2
INVARIANTS
  Covered
  PathsCurrent
  PathWasReal
  DeathCause
CHECK_DEADLOCK FALSE
