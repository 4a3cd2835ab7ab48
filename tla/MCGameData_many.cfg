CONSTANTS
  ByteSpace = 256
  MaxEnemies = 21
  MaxItems = 33
SPECIFICATION Spec
INVARIANT SkipsTheData
