SPECIFICATION FairSpec
CONSTANTS
  Names <- MCNames
  WatchName <- MCWatchName
  MaxDirs = 4
  MaxDepth = 3
  MaxOps = 4
  FileKinds <- MCFileKinds
  QueueCap = 2
  BatchCap = 2
INVARIANTS
  Inv
  EventsKnown
PROPERTIES
  FeedFair
CHECK_DEADLOCK FALSE
