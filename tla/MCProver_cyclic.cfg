SPECIFICATION FairSpec
CONSTANTS
  a = a
  x = x
  y = y
  z = z
  SignBit = 2
  WideSignBit = 2
  Values = {a, x, y, z}
  Constants = {}
  ConstVal <- MCConstVal
  Phis = {y}
  EdgeInputs <- CyclicEdges
  Queries <- CyclicQueries
  MaxEdges = 4
  MaxQueries = 2
  Valuations <- MCValuations
INVARIANTS
  ActiveIsStack
  CallsLinked
  MergesUnproven
  DepthBound
  IndexesAgree
  MemoSound
PROPERTIES
  Answered
CHECK_DEADLOCK FALSE
