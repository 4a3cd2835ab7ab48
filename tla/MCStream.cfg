CONSTANTS
  Lengths = {0, 1, 2}
  MaxMessages = 2
  MaxSize = 5
SPECIFICATION FairSpec
INVARIANT NoEmptyEvent
PROPERTIES ImplementsChannel EverythingArrives ReaderEnds
CHECK_DEADLOCK FALSE
