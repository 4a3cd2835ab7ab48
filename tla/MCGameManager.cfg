CONSTANTS
  MaxEpoch = 4
  WithNpcs = {1, 3, 4}
  MaxSessions = 2
  MaxUntimely = 1
SPECIFICATION FairSpec
INVARIANTS FreshPointers LookupsAlone
PROPERTIES LevelIsServed WatcherStops
CHECK_DEADLOCK FALSE
