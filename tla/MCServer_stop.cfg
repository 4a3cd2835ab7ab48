CONSTANTS
  c1 = c1  c2 = c2  c3 = c3
  Conns = {c1, c2}
  Acceptor = Acceptor
  None = None
  IdSpace = 3
  MayClose = {c1, c2}
  MayStall = {}
  SendLimit <- FirstOnce
  MaxStarts = 2
  MayStop = TRUE
  SoleUser = TRUE
SPECIFICATION Spec
INVARIANTS ServedIsRegistered NoSendAfterClose SenderListed
CHECK_DEADLOCK FALSE
