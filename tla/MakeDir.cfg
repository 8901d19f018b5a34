SPECIFICATION Spec
CONSTANT Callers = {c1, c2, c3, c4}
INVARIANTS
  Inv
  QuietMeansDir
  ContentsSafe
PROPERTIES
  SettledStays
