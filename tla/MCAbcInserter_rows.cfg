SPECIFICATION Spec
CONSTANTS
  x = x
  y = y
  n = n
  Vars = {x, y, n}
  Ints <- MCInts
  Programs <- RowPrograms
INVARIANTS
  ExitsOnlyOutOfBounds
CHECK_DEADLOCK FALSE
