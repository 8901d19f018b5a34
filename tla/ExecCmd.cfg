SPECIFICATION FairSpec
CONSTANTS
  Versions <- MCVersions
  BufferSize = 3
  DigestLen = 3
  PipeCap = 2
  Messages <- MCMessages
  Outputs <- MCOutputs
INVARIANTS
  Inv
  WholeOutput
  Md5OfTheCall
  MoveReported
PROPERTIES
  Ends
CHECK_DEADLOCK FALSE
