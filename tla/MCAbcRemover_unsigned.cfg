SPECIFICATION PassSpec
CONSTANTS
  b1 = b1
  b2 = b2
  b3 = b3
  x = x
  y = y
  z = z
  k0 = k0
  k1 = k1
  k2 = k2
  SignBit = 1
  WideSignBit = 2
  Blocks = {b1, b2, b3}
  Entry = b1
  Join = join
  Exit = exit
  Vars = {x, y}
  Constants = {}
  ConstVal <- MCConstVal
  Phis = {}
  Values <- PassValues
  Programs <- MixedPrograms
  EdgeInputs <- MCEdges
  Queries <- MCQueries
  MaxEdges = 19
  MaxQueries = 3
  Valuations = {}
INVARIANTS
  RemovedChecksHold
CHECK_DEADLOCK FALSE
