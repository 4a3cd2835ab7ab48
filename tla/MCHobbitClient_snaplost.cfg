CONSTANTS
  Ids = {1, 2}
  MyId = 2
  MaxPlayers = 2
  MaxLists = 1
  MaxEvents = 0
  MaxGame = 2
  MaxFlips = 1
SPECIFICATION Spec
INVARIANT NoSnapshotLost
CHECK_DEADLOCK FALSE
