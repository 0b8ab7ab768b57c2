SPECIFICATION FairSpec
CONSTANTS
  e = e
  b1 = b1
  b2 = b2
  b3 = b3
  Blocks = {e, b1, b2, b3}
  Entry = e
  Modules <- MCModules
PROPERTIES
  ErasedUnused
CHECK_DEADLOCK FALSE
