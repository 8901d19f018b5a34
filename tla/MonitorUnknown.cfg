SPECIFICATION Spec
CONSTANTS
  Names <- MCNames
  WatchName <- MCWatchName
  MaxDirs = 4
  MaxDepth = 3
  MaxOps = 3
  FileKinds = {}
  QueueCap = 4
  BatchCap = 2
INVARIANTS
  KnownChangeTypes
CHECK_DEADLOCK FALSE
