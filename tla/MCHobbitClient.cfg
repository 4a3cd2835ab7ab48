CONSTANTS
  Ids = {1, 2, 3}
  MyId = 2
  MaxPlayers = 2
  MaxLists = 2
  MaxEvents = 2
  MaxGame = 2
  MaxFlips = 1
SPECIFICATION FairSpec
INVARIANTS TypeOK SlotsFollowList StoredInOwnSlot EventsExactlyOnce
PROPERTIES SnapshotsMoveForward ServerDownEndsUpdate StopReturns EventsApplied
CHECK_DEADLOCK FALSE
