SPECIFICATION Spec
CONSTANTS
  Vars = {v1, v2}
  Blocks = {b1}
  Addrs = {a1, a2, a3, a4}
  Texts = {"7", "x"}
  Ints <- SmallInts
  Decimal <- SevenIs
  Null = null
  Free = free
  MaxFields = 1
SYMMETRY Alike
INVARIANTS Inv SentAsMeant
CHECK_DEADLOCK FALSE
