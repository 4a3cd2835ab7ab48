CONSTANTS
  c1 = c1  c2 = c2  c3 = c3
  Conns = {c1, c2}
  Acceptor = Acceptor
  None = None
  IdSpace = 3
  MayClose = {c1}
  MayStall = {c2}
  SendLimit <- FirstOnce
  MaxStarts = 1
  MayStop = TRUE
  SoleUser = FALSE
SPECIFICATION FairSpec
PROPERTIES MutexFreed DepartureNoticed JoinServed AcceptorEnds
CHECK_DEADLOCK FALSE
