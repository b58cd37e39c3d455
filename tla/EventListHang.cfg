CONSTANTS
  t1 = t1  t2 = t2  t3 = t3  a = a  b = b
  Threads <- TwoThreads
  Ids <- TwoIds
  MaxOps <- OneEach
  AllocMayFail = TRUE
SPECIFICATION FairSpec
PROPERTY EveryCommandReturns
CHECK_DEADLOCK FALSE
