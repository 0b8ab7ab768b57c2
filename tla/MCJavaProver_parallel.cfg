SPECIFICATION JavaSpec
CONSTANTS
  a = a
  x = x
  y = y
  SignBit = 8
  WideSignBit = 8
  Values = {a, x, y}
  Constants = {}
  ConstVal <- MCConstVal
  Phis = {}
  EdgeInputs <- MCEdges
  Queries <- MCQueries
  MaxEdges = 3
  MaxQueries = 2
  Valuations <- MCValuations
INVARIANTS
  MemoSound
  FirstToldProved
PROPERTIES
  Answered
CHECK_DEADLOCK FALSE
