SPECIFICATION Spec
CONSTANTS
  Versions <- MCVersions
  BufferSize = 3
  DigestLen = 3
  PipeCap = 2
  Messages <- MCMessages
  Outputs <- MCOutputs
INVARIANTS
  MovedAsTested
CHECK_DEADLOCK FALSE
