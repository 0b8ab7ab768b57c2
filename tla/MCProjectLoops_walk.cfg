SPECIFICATION Spec
CONSTANT Modules <- MCModules
INVARIANTS
  LoopsTypeOK
  StackIsPath
  LoopsCounted
  CountedAreLoops
PROPERTIES
  AllWalked
CHECK_DEADLOCK FALSE
