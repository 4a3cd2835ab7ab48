CONSTANTS
  c1 = c1  c2 = c2  c3 = c3
  Conns = {c1, c2, c3}
  Acceptor = Acceptor
  None = None
  IdSpace = 4
  MayClose = {c3}
  MayStall = {}
  SendLimit <- TwoTalk
  MaxStarts = 1
  MayStop = FALSE
  SoleUser = FALSE
SPECIFICATION Spec
SYMMETRY Talkers
INVARIANTS SendersHoldTheLock LockedFramesIntact SettledLists SenderListed
PROPERTY ImplementsRelay
CHECK_DEADLOCK FALSE
