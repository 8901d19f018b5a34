SPECIFICATION FairSpec
CONSTANT MaxCalls = 3
INVARIANTS
  Inv
  OwnAnswer
  SafeToRepeat
  AsAsked
PROPERTIES
  OneShot
CHECK_DEADLOCK FALSE
