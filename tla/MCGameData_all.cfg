CONSTANTS
  ByteSpace = 256
  MaxEnemies = 22
  MaxItems = 33
SPECIFICATION Spec
INVARIANTS AtRecord NeverRunsOut
CHECK_DEADLOCK FALSE
