SPECIFICATION Inputs
CONSTANTS
  Alphabet = {9, 32, 37, 47, 49, 92, 97, 233}
  MaxLen = 3
  MaxArg = 2
  MaxSpaces = 2
INVARIANTS TrimsAll DigestsCompared PathsAgree DecodesBack
CHECK_DEADLOCK FALSE
