SPECIFICATION FairSpec
CONSTANTS
  MaxConns = 2
  MaxMessages = 1
  SyncInterval = 10
  Types = {"LDS", "CDS", "RDS"}
INVARIANTS
  TypeOK
  WantedIsAsked
  ResetsLeaveErrors
  StatusFollowsFailure
PROPERTIES
  BrokenIsReplaced
  StopReturns
CHECK_DEADLOCK FALSE
