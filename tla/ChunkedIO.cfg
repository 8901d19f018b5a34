SPECIFICATION FairSpec
CONSTANTS
  ReadChunk = 2
  WriteChunk = 3
  Sizes = {0, 4, 6}
  MaxCalls = 2
INVARIANTS
  Inv
  HashOfAMoment
  WrittenWhole
  NoHole
PROPERTIES
  HashEnds
CHECK_DEADLOCK FALSE
