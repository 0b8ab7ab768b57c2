SPECIFICATION Spec
CONSTANTS
  x = x
  y = y
  n = n
  Vars = {x, y, n}
  Ints <- MCInts
  Programs <- MCPrograms
INVARIANTS
  InsTypeOK
  ChecksRecognised
  ChangeReported
  AccessesChecked
PROPERTIES
  RunsChecked
CHECK_DEADLOCK FALSE
