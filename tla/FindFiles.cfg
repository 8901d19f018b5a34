SPECIFICATION FairSpec
CONSTANTS
  Root = root
  d1 = d1
  d2 = d2
  f = f
  a = a
  b = b
  Dirs = {d1, d2}
  Files = {f}
  Names = {a, b}
  Nowhere = nowhere
  Trees <- SmallTrees
  MaxHandles = 3
  MaxOps = 2
  MaxCalls = 2
INVARIANTS Inv Complete Real ThrowsForCause
PROPERTIES Ends
CHECK_DEADLOCK FALSE
