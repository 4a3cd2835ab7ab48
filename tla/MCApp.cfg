CONSTANT
  MaxSessions = 3
SPECIFICATION FairSpec
INVARIANTS SessionLeavesNoThread SessionClosesServer
PROPERTY ExitEnds
CHECK_DEADLOCK FALSE
