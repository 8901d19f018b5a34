SPECIFICATION FairSpec
CONSTANTS
  KernelCap = 3
  MaxChanges = 8
INVARIANTS Inv ToldInOrder
PROPERTIES Signalled
CHECK_DEADLOCK FALSE
