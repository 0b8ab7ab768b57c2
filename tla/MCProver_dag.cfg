SPECIFICATION Spec
CONSTANTS
  a = k0
  x = x
  y = y
  z = z
  SignBit = 2
  WideSignBit = 2
  Values = {k0, x, y, z}
  Constants = {k0}
  ConstVal <- MCConstVal
  Phis = {}
  EdgeInputs <- DagEdges
  Queries <- DagQueries
  MaxEdges = 3
  MaxQueries = 3
  Valuations <- MCValuations
INVARIANTS
  TypeOK
  AnswersSound
  Repeatable
PROPERTIES
  TrueIsKept
  ImplementsOracle
CHECK_DEADLOCK FALSE
