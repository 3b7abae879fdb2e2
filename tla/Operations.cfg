CONSTANTS
  o1 = o1
  o2 = o2
  o3 = o3
  NoOp = NoOp
  Op <- MCOp3
  MaxHistory = 1
  MaxConcurrent = 2
  MaxProgress = 1
CHECK_DEADLOCK FALSE
SPECIFICATION FairSpec
INVARIANTS RunningIsListed CancelIsHonoured
PROPERTIES CancelSettles
